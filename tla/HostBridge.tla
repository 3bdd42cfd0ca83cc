------------------------------ MODULE HostBridge ------------------------------
(***************************************************************************)
(* A tool call of Pi or OpenCode and the hook process it waits for: the    *)
(* TypeScript ptuf installs in the host                                    *)
(* (src/init/templates/opencode_subprocess.ts, opencode_plugin.ts,         *)
(* opencode_v2_plugin.ts and pi_extension.ts) beside module HookProcess.   *)
(* The bridge spawns the process, writes the payload, waits for both       *)
(* streams and the exit, and lets the tool run or blocks it.  A timer      *)
(* races the answer; the process may hang, stop or be killed at any point. *)
(*                                                                         *)
(* Time is not modelled: an armed timer may fire at any moment.  A process *)
(* that cannot be spawned is one that is killed before it reads.           *)
(***************************************************************************)
EXTENDS HookProcess

CONSTANT HostCfgs  \* [long, askMode, hasUI]: the reason exceeds the capture
                   \* limit; PTUF_PI_ASK_MODE; ctx.hasUI

HostCfg == [long : BOOLEAN, hasUI : BOOLEAN,
            askMode : {"always-confirm", "always-deny", "confirm-if-ui-else-deny"}]

ASSUME HostAssumption ==
  /\ HostCfgs \subseteq HostCfg
  /\ Agents \subseteq OpenCode \cup {"Pi"}

VARIABLES
  host,       \* the host's configuration, and whether this call's reason is long
  bpc,        \* "waiting", "confirming", "settled" or "crashed" (the host)
  timer,      \* "armed", "fired" or "cleared"
  killTimer,  \* "off", "armed", "fired" or "cleared"
  pending,    \* signals sent to the process and not yet delivered
  mode,       \* "live", "hung", or "stopped" (SIGTERM leaves it as it is)
  stdin,      \* "writing", "done" or "broken"
  verdict     \* None, "run" or "block"

bvars == <<host, bpc, timer, killTimer, pending, mode, stdin, verdict>>
bridgeVars == <<hvars, bvars>>

BridgeInit ==
  /\ HookInit
  /\ host \in HostCfgs
  /\ bpc = "waiting"
  /\ timer = "armed"
  /\ killTimer = "off"
  /\ pending = {}
  /\ mode = "live"
  /\ stdin = "writing"
  /\ verdict = None

-----------------------------------------------------------------------------
\* The process.

\* The payload has been read to its end, or as far as the process will.
ChildStep ==
  /\ mode = "live"
  /\ HookStep
  /\ stdin' = IF hpc = "read" /\ call.payload # "oversize" THEN "done" ELSE stdin
  /\ UNCHANGED <<host, bpc, timer, killTimer, pending, mode, verdict>>

ChildHangs ==
  /\ mode = "live" /\ hpc # "exited"
  /\ mode' \in {"hung", "stopped"}
  /\ UNCHANGED <<hvars, host, bpc, timer, killTimer, pending, stdin, verdict>>

ChildKilled ==
  /\ Killed
  /\ UNCHANGED bvars

Deliver(sig) ==
  /\ sig \in pending
  /\ sig = "TERM" => mode # "stopped"
  /\ Killed
  /\ pending' = pending \ {sig}
  /\ UNCHANGED <<host, bpc, timer, killTimer, mode, stdin, verdict>>

-----------------------------------------------------------------------------
\* The bridge.

Send(sig) == pending' = IF hpc = "exited" THEN pending ELSE pending \cup {sig}

Clear(t) == IF t = "armed" THEN "cleared" ELSE t

\* `finally`: the call is settled and both timers are cleared.
Settle(v) ==
  /\ verdict' = v
  /\ bpc' = "settled"
  /\ timer' = Clear(timer)
  /\ killTimer' = Clear(killTimer)

\* Mutant: the error is rethrown and the process left alone.
Reject_NoKill ==
  /\ Settle("block")
  /\ UNCHANGED pending

\* An error in the bridge.  OpenCode kills the process and rethrows, which
\* blocks the call; Pi answers a deny.
Reject ==
  /\ Settle("block")
  /\ IF agent \in OpenCode THEN Send("KILL") ELSE UNCHANGED pending

\* Mutant: the timeout sends SIGTERM and counts on it.
TimeoutOpenCode_NoEscalation ==
  /\ agent \in OpenCode
  /\ timer = "armed" /\ bpc = "waiting"
  /\ timer' = "fired"
  /\ Send("TERM")
  /\ UNCHANGED <<hvars, host, bpc, killTimer, mode, stdin, verdict>>

\* Mutant: the timeout goes through an AbortController, as in Pi.
TimeoutOpenCode_Abort ==
  /\ agent \in OpenCode
  /\ timer = "armed" /\ bpc = "waiting"
  /\ timer' = "fired"
  /\ Send("TERM")
  /\ killTimer' = "cleared"
  /\ bpc' = "settled" /\ verdict' = "block"
  /\ UNCHANGED <<hvars, host, mode, stdin>>

TimeoutOpenCode ==
  /\ agent \in OpenCode
  /\ timer = "armed" /\ bpc = "waiting"
  /\ timer' = "fired"
  /\ Send("TERM")
  /\ killTimer' = "armed"
  /\ UNCHANGED <<hvars, host, bpc, mode, stdin, verdict>>

\* abort(): Node sends SIGTERM and emits an AbortError, which rejects; the
\* bridge's own listener arms the kill timer, and `finally` clears it.
AbortRejects ==
  /\ agent = "Pi"
  /\ timer = "armed" /\ bpc = "waiting"
  /\ timer' = "fired"
  /\ Send("TERM")
  /\ killTimer' = "cleared"
  /\ bpc' = "settled" /\ verdict' = "block"
  /\ UNCHANGED <<hvars, host, mode, stdin>>

\* abort() when Node has already seen the exit: there is nothing to signal
\* and no AbortError, and the answer is read as if there had been no timeout.
AbortTooLate ==
  /\ agent = "Pi"
  /\ timer = "armed" /\ bpc = "waiting"
  /\ hpc = "exited"
  /\ timer' = "fired"
  /\ killTimer' = "armed"
  /\ UNCHANGED <<hvars, host, bpc, pending, mode, stdin, verdict>>

KillTimer ==
  /\ killTimer = "armed"
  /\ killTimer' = "fired"
  /\ Send("KILL")
  /\ UNCHANGED <<hvars, host, bpc, timer, mode, stdin, verdict>>

\* The process is gone with payload left to write.  OpenCode has a handler
\* for the error; in Pi it is an uncaught exception of the host.
StdinError ==
  /\ stdin = "writing"
  /\ hpc = "exited" /\ bpc = "waiting"
  /\ stdin' = "broken"
  /\ IF agent \in OpenCode
     THEN Reject
     ELSE /\ bpc' = "crashed"
          /\ UNCHANGED <<timer, killTimer, pending, verdict>>
  /\ UNCHANGED <<hvars, host, mode>>

\* More than MAX_CAPTURE_BYTES on one of the streams.
LongLine == host.long /\ out \notin {None, "allow"}
Overflowed == LongLine \/ (host.long /\ "reason" \in err)

OutputOverflow ==
  /\ agent \in OpenCode
  /\ bpc = "waiting"
  /\ Overflowed
  /\ Reject
  /\ UNCHANGED <<hvars, host, mode, stdin>>

Permitted(line) == IF agent = "Pi" THEN line # "deny" ELSE line \in {"allow", "monitor"}

\* Mutant: empty stdout means nothing to say, as for Claude Code.
Usable_EmptyIsAllow ==
  /\ exit \in {"0", "2"}
  /\ out # "partial"
  /\ ~LongLine
  /\ agent \in OpenCode => timer # "fired"

\* Mutant: the answer is used whenever it came.
Usable_Late ==
  /\ exit \in {"0", "2"}
  /\ out \in {"allow", "monitor", "ask", "deny"}
  /\ ~LongLine
  /\ Permitted(out) <=> exit = "0"

\* Mutant: the line is required to name a permission.
Usable_AllowOnly ==
  /\ exit \in {"0", "2"}
  /\ out \in {"allow", "ask", "deny"}
  /\ ~LongLine
  /\ Permitted(out) <=> exit = "0"
  /\ agent \in OpenCode => timer # "fired"

\* The answer stands up: it came in time, the exit code is one of the two,
\* the last line parses, and the two agree.
Usable ==
  /\ exit \in {"0", "2"}
  /\ out \in {"allow", "monitor", "ask", "deny"}
  /\ ~LongLine
  /\ Permitted(out) <=> exit = "0"
  /\ agent \in OpenCode => timer # "fired"

\* shouldConfirmAsk.
ShouldConfirm ==
  \/ host.askMode = "always-confirm"
  \/ host.askMode = "confirm-if-ui-else-deny" /\ host.hasUI

\* Both streams have ended and the process has exited.
Evaluate ==
  /\ bpc = "waiting" /\ hpc = "exited"
  /\ agent \in OpenCode => ~Overflowed
  /\ IF ~Usable THEN Reject
     ELSE IF out = "ask" /\ ShouldConfirm
     THEN /\ bpc' = "confirming"
          /\ timer' = Clear(timer) /\ killTimer' = Clear(killTimer)
          /\ UNCHANGED <<pending, verdict>>
     ELSE /\ Settle(IF out \in {"deny", "ask"} THEN "block" ELSE "run")
          /\ UNCHANGED pending
  /\ UNCHANGED <<hvars, host, mode, stdin>>

\* ctx.ui.confirm answers.
Confirm ==
  /\ bpc = "confirming"
  /\ bpc' = "settled"
  /\ verdict' \in {"run", "block"}
  /\ UNCHANGED <<hvars, host, timer, killTimer, pending, mode, stdin>>

BridgeStep ==
  \/ TimeoutOpenCode \/ AbortRejects \/ AbortTooLate \/ KillTimer
  \/ StdinError \/ OutputOverflow \/ Evaluate

BridgeNext ==
  \/ ChildStep \/ ChildHangs \/ ChildKilled
  \/ \E sig \in {"TERM", "KILL"} : Deliver(sig)
  \/ BridgeStep \/ Confirm

BridgeSpec == BridgeInit /\ [][BridgeNext]_bridgeVars

\* Timers fire, events are handled and signals arrive.  Nothing is asked of
\* the process, nor of the person at the prompt.
BridgeFairness ==
  /\ WF_bridgeVars(TimeoutOpenCode)
  /\ WF_bridgeVars(AbortRejects)
  /\ WF_bridgeVars(KillTimer)
  /\ WF_bridgeVars(Evaluate \/ OutputOverflow)
  /\ \A sig \in {"TERM", "KILL"} : WF_bridgeVars(Deliver(sig))

FairBridgeSpec == BridgeSpec /\ BridgeFairness

-----------------------------------------------------------------------------
\* Properties.

BridgeTypeOK ==
  /\ HookTypeOK
  /\ host \in HostCfgs
  /\ bpc \in {"waiting", "confirming", "settled", "crashed"}
  /\ timer \in {"armed", "fired", "cleared"}
  /\ killTimer \in {"off", "armed", "fired", "cleared"}
  /\ pending \subseteq {"TERM", "KILL"}
  /\ mode \in {"live", "hung", "stopped"}
  /\ stdin \in {"writing", "done", "broken"}
  /\ verdict \in {None, "run", "block"}

\* The tool runs only on a whole answer of a process that exited by itself,
\* and only if the call deserved it or, in Pi, the prompt the configuration
\* allows was answered yes: whatever was lost, killed or late in between.
ToolRunsOnlyIfPermitted ==
  verdict = "run" =>
    /\ exit = "0" /\ out = Deserved
    /\ \/ Deserved \in {"allow", "monitor"}
       \/ Deserved = "ask" /\ agent = "Pi" /\ ShouldConfirm

\* In OpenCode a call whose timeout fired is blocked, although the answer may
\* arrive after SIGTERM was sent.
LateAnswerDropped ==
  (agent \in OpenCode /\ timer = "fired") => verdict # "run"

\* A call that deserved to run is blocked only because something was lost: a
\* timeout, a dead process, a missing line, a broken pipe or a cut line.
BlockExplained ==
  (verdict = "block" /\ Deserved \in {"allow", "monitor"}) =>
    \/ timer = "fired" \/ exit = "killed" \/ out = None
    \/ stdin = "broken" \/ Overflowed

\* When an OpenCode call is settled its process is gone or has SIGKILL coming.
NoOrphan ==
  (agent \in OpenCode /\ bpc = "settled") => hpc = "exited" \/ "KILL" \in pending

\* Every call is answered, hung or stopped process included (or the host
\* itself went down).
CallSettles == <>(bpc # "waiting")

\* README.md:372: a hung hook is aborted, then killed.
HungChildDies == (timer = "fired") ~> (hpc = "exited")

\* In OpenCode, where the timeout does not settle the call, it does.
HungOpenCodeChildDies ==
  (agent \in OpenCode /\ timer = "fired") ~> (hpc = "exited")
=============================================================================
