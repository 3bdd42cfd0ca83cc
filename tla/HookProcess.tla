----------------------------- MODULE HookProcess -----------------------------
(***************************************************************************)
(* One `ptuf hook <agent>` process (run_hook in src/cli/run.rs and         *)
(* src/cli/output.rs): it reads the payload, adapts it, builds the engine, *)
(* decides, and answers with a line on stdout, lines on stderr and an exit *)
(* code.  Whatever goes wrong before the engine has decided is a deny.     *)
(* The host may close the pipes early or kill the process at any point.    *)
(*                                                                         *)
(* A payload is the class run_hook puts it in; the engine's answer is part *)
(* of the call (module DecisionEngine says what it is); a stdout line is   *)
(* the verdict a host can read from it.                                    *)
(***************************************************************************)
EXTENDS Decision, FiniteSets

CONSTANTS
  Agents,    \* the adapters a process may be run for
  Calls,     \* [payload, loads, kind, hit, heard]: what the process meets;
             \* heard: the host keeps the process's stderr open
  AuditCfgs  \* [sink, includeAllowed, includeDenied]

AllAgents == {"ClaudeCode", "Codex", "Copilot", "KiroV2", "KiroV3", "Cline",
              "Cursor", "Pi", "OpencodeV1", "OpencodeV2"}
OpenCode == {"OpencodeV1", "OpencodeV2"}
Payloads == {"unreadable", "oversize", "malformed", "no_command", "ok"}
Call == [payload : Payloads, loads : BOOLEAN, kind : Kinds, hit : BOOLEAN,
         heard : BOOLEAN]
AuditCfg == [sink : {"off", "unopenable", "active"}, includeAllowed : BOOLEAN,
             includeDenied : BOOLEAN]
Lines == {None, "partial", "allow", "monitor", "ask", "deny", "empty", "cancel"}
Notes == {"payload problem", "policy problem", "audit open", "audit write", "reason"}

ASSUME AgentsAssumption == Agents \subseteq AllAgents
ASSUME CallsAssumption == Calls \subseteq Call /\ AuditCfgs \subseteq AuditCfg

-----------------------------------------------------------------------------
\* output.rs and hook_output.rs: one decision in each host's protocol.

\* Hosts with no way to prompt: an ask becomes a deny.
adapt_hook_decision(agent, kind) ==
  IF kind = "ask" /\ agent \in {"Codex", "Copilot", "KiroV2", "Cline"} \cup OpenCode
  THEN "deny" ELSE kind

\* Claude Code: silence is consent.
ClaudeEnvelope(kind) == IF kind \in {"ask", "deny"} THEN kind ELSE None

\* Codex and Copilot: the same, and nothing but a deny can be said.
DenyEnvelope(kind) == IF kind \in {"ask", "deny"} THEN "deny" ELSE None

\* Mutant: version 3 of Kiro is answered like version 2.
KiroV3Envelope_Silent(kind) == None

\* Kiro version 2 reads the exit code alone, version 3 an ask as well.
KiroV3Envelope(kind) == IF kind = "ask" THEN "ask" ELSE None

\* Cline: `{}` or a cancel.
ClineEnvelope(kind) == IF kind \in {"ask", "deny"} THEN "cancel" ELSE "empty"

\* Mutant: Cursor is answered like Claude Code.
CursorEnvelope_Silent(kind) == IF kind \in {"ask", "deny"} THEN kind ELSE None

CursorEnvelope(kind) == IF kind = "monitor" THEN "allow" ELSE kind

\* The line on stdout for an adapted decision; None when there is no line.
\* Pi and OpenCode are told the decision itself.
Envelope(agent, kind) ==
  CASE agent = "ClaudeCode" -> ClaudeEnvelope(kind)
    [] agent \in {"Codex", "Copilot"} -> DenyEnvelope(kind)
    [] agent = "KiroV2" -> None
    [] agent = "KiroV3" -> KiroV3Envelope(kind)
    [] agent = "Cline" -> ClineEnvelope(kind)
    [] agent = "Cursor" -> CursorEnvelope(kind)
    [] OTHER -> kind

\* Mutant: a deny exits 2 for every host.
decision_exit_code_AlwaysTwo(agent, kind) ==
  IF kind = "deny" THEN "2" ELSE "0"

\* Copilot and Cline take a non-zero exit for a broken hook.
decision_exit_code(agent, kind) ==
  IF agent \in {"Copilot", "Cline"} THEN "0"
  ELSE IF kind = "deny" \/ (kind = "ask" /\ agent \in {"Codex", "KiroV2"} \cup OpenCode)
       THEN "2" ELSE "0"

-----------------------------------------------------------------------------
VARIABLES
  agent, call, audit,  \* fixed when the process starts
  hpc,       \* "read", "load", "decide", "warn", "stdout", "stderr", "exited"
  decision,  \* what will be emitted, or None
  recorded,  \* what record_audit did: None, "written" or "failed"
  out,       \* the line on stdout
  err,       \* the notes on stderr
  exit       \* None, the exit code, or "killed"

hvars == <<agent, call, audit, hpc, decision, recorded, out, err, exit>>
fixed == <<agent, call, audit>>

HookInit ==
  /\ agent \in Agents /\ call \in Calls /\ audit \in AuditCfgs
  /\ hpc = "read"
  /\ decision = None
  /\ recorded = None
  /\ out = None
  /\ err = {}
  /\ exit = None

\* Lines for stderr; a write that fails is ignored.
Told(notes) ==
  IF call.heard THEN {err \cup notes} ELSE {err \cup said : said \in SUBSET notes}

\* run_hook's early returns: unreadable stdin, more than 8 MiB, a payload the
\* adapter refuses, a Bash call without a command string.
RejectPayload ==
  /\ hpc = "read"
  /\ call.payload # "ok"
  /\ decision' = "deny"
  /\ err' \in Told({"payload problem"})
  /\ hpc' = "stdout"
  /\ UNCHANGED <<fixed, recorded, out, exit>>

AcceptPayload ==
  /\ hpc = "read"
  /\ call.payload = "ok"
  /\ hpc' = "load"
  /\ UNCHANGED <<fixed, decision, recorded, out, err, exit>>

\* Mutant: a policy that does not load is no policy.
PolicyLoadFailed_Open ==
  /\ hpc = "load"
  /\ ~call.loads
  /\ decision' = "allow"
  /\ err' \in Told({"policy problem"})
  /\ hpc' = "stdout"
  /\ UNCHANGED <<fixed, recorded, out, exit>>

\* build_engine_or_fail_closed.
PolicyLoadFailed ==
  /\ hpc = "load"
  /\ ~call.loads
  /\ decision' = "deny"
  /\ err' \in Told({"policy problem"})
  /\ hpc' = "stdout"
  /\ UNCHANGED <<fixed, recorded, out, exit>>

BuildEngine ==
  /\ hpc = "load"
  /\ call.loads
  /\ hpc' = "decide"
  /\ UNCHANGED <<fixed, decision, recorded, out, err, exit>>

\* Is a decision of the call written to the audit log (record_audit)?
Recordable == should_record(call.kind, audit) \/ call.hit

\* Engine::decide, which records before it returns.
Decide ==
  /\ hpc = "decide"
  /\ decision' = call.kind
  /\ recorded' \in IF audit.sink = "active" /\ Recordable
                   THEN {"written", "failed"} ELSE {None}
  /\ hpc' = "warn"
  /\ UNCHANGED <<fixed, out, err, exit>>

\* Mutant: the write warnings are not drained.
Warn_OpenOnly ==
  /\ hpc = "warn"
  /\ err' \in Told({n \in {"audit open"} :
                      audit.sink = "unopenable" /\ should_record(decision, audit)})
  /\ hpc' = "stdout"
  /\ UNCHANGED <<fixed, decision, recorded, out, exit>>

\* audit_warning_for_decision, then drain_audit_write_warnings.
Warn ==
  /\ hpc = "warn"
  /\ err' \in Told({n \in {"audit open"} :
                      audit.sink = "unopenable" /\ should_record(decision, audit)}
                   \cup {n \in {"audit write"} : recorded = "failed"})
  /\ hpc' = "stdout"
  /\ UNCHANGED <<fixed, decision, recorded, out, exit>>

Adapted == adapt_hook_decision(agent, decision)

\* emit_decision: the line.  A failed write is ignored.
WriteStdout ==
  /\ hpc = "stdout"
  /\ out' \in {Envelope(agent, Adapted), None}
  /\ hpc' = "stderr"
  /\ UNCHANGED <<fixed, decision, recorded, err, exit>>

\* emit_decision: the reason, and the exit code.
Finish ==
  /\ hpc = "stderr"
  /\ err' \in Told({n \in {"reason"} : Adapted \in {"ask", "deny"}})
  /\ exit' = decision_exit_code(agent, Adapted)
  /\ hpc' = "exited"
  /\ UNCHANGED <<fixed, decision, recorded, out>>

\* The process is killed, perhaps in the middle of the line.
Killed ==
  /\ hpc # "exited"
  /\ hpc' = "exited"
  /\ exit' = "killed"
  /\ out' \in IF hpc = "stdout" /\ Envelope(agent, Adapted) # None
             THEN {out, "partial"} ELSE {out}
  /\ UNCHANGED <<fixed, decision, recorded, err>>

HookStep ==
  \/ RejectPayload \/ AcceptPayload \/ PolicyLoadFailed \/ BuildEngine
  \/ Decide \/ Warn \/ WriteStdout \/ Finish

HookNext == HookStep \/ Killed
HookSpec == HookInit /\ [][HookNext]_hvars

-----------------------------------------------------------------------------
\* What the host does with the answer.  For Pi and OpenCode it is the bridge
\* of module HostBridge; the other hosts are not in the repository, and are
\* taken to behave as docs/design/cli-and-hooks.md and kiro-cli.md say.
HostVerdict ==
  CASE agent \in {"ClaudeCode", "Codex"} ->
         IF exit = "2" \/ (exit = "0" /\ out = "deny") THEN "block"
         ELSE IF exit = "0" /\ out = "ask" THEN "prompt" ELSE "run"
    [] agent \in {"KiroV2", "KiroV3"} ->
         IF exit = "2" THEN "block"
         ELSE IF exit = "0" /\ agent = "KiroV3" /\ out = "ask" THEN "prompt" ELSE "run"
    [] agent \in {"Copilot", "Cline"} ->
         IF exit = "0" /\ out \in {"deny", "cancel"} THEN "block" ELSE "run"
    [] agent = "Cursor" ->
         IF exit = "2" \/ out \notin {"allow", "ask"} THEN "block"
         ELSE IF out = "ask" THEN "prompt" ELSE "run"
    [] OTHER -> "bridge"

-----------------------------------------------------------------------------
\* Properties.

HookTypeOK ==
  /\ agent \in Agents /\ call \in Calls /\ audit \in AuditCfgs
  /\ hpc \in {"read", "load", "decide", "warn", "stdout", "stderr", "exited"}
  /\ decision \in Kinds \cup {None}
  /\ recorded \in {None, "written", "failed"}
  /\ out \in Lines
  /\ err \subseteq Notes
  /\ exit \in {None, "0", "2", "killed"}

Answered == hpc = "exited" /\ exit # "killed"
Delivered == Envelope(agent, Adapted) # None => out # None
\* What the call deserves: a deny unless the engine could be asked.
Deserved == IF call.payload = "ok" /\ call.loads THEN call.kind ELSE "deny"

\* A call that deserves a deny is blocked in every host's protocol, whichever
\* step of run_hook failed; where the exit code blocks, even when the line
\* never reached the host.
DenyBlocks ==
  (/\ Answered /\ Deserved = "deny"
   /\ agent \in {"Copilot", "Cline"} => Delivered)
    => HostVerdict \in {"block", "bridge"}

\* An ask whose answer was delivered never runs unprompted, in a host that
\* can prompt and in one that cannot.
AskNeverRunsUnasked ==
  (Answered /\ Deserved = "ask" /\ Delivered) => HostVerdict # "run"

\* Allow and monitor leave the tool alone: no host reads a block into the
\* silence, the `{}` or the allow it is given.
PermittedRuns ==
  (Answered /\ Deserved \in {"allow", "monitor"} /\ Delivered)
    => HostVerdict \in {"run", "bridge"}

\* A host that keeps stderr open, and acts on an engine decision which the
\* configuration asks to record, has the record in the log, or stderr says why
\* it is not there: the record is written before the answer, and a failed
\* write is drained before it.
RecordedOrAnnounced ==
  (/\ out # None \/ Answered
   /\ call.payload = "ok" /\ call.loads /\ call.heard
   /\ audit.sink # "off" /\ should_record(call.kind, audit))
    => recorded = "written" \/ err \cap {"audit open", "audit write"} # {}

=============================================================================
