--------------------------- MODULE HostBridge_proofs ---------------------------
(***************************************************************************)
(* Proofs about HookProcess and HostBridge, for any adapters, calls, audit *)
(* settings and host configurations.                                       *)
(*                                                                         *)
(* The inductive invariant of the process (HookInv) follows run_hook: what *)
(* each point of it knows about the call, and that what is emitted is what *)
(* the call deserves.  It carries over to the bridge, which never writes   *)
(* the state of the process; on top of it RunInv says what a run, a prompt *)
(* and a block rest on.                                                    *)
(***************************************************************************)
EXTENDS HostBridge, TLAPS

\* The process.

\* Before the engine has decided nothing has been emitted.
EarlyInv ==
  /\ hpc \in {"read", "load", "decide"} => decision = None
  /\ hpc \in {"load", "decide", "warn"} => call.payload = "ok"
  /\ hpc \in {"decide", "warn"} => call.loads
  /\ hpc \in {"read", "load", "decide", "warn", "stdout"} => out = None
  /\ hpc = "exited" <=> exit # None

\* From then on the decision is the one the call deserves.
DecidedInv ==
  /\ hpc \in {"warn", "stdout", "stderr"} => decision = Deserved
  /\ hpc = "stderr" => out \in {None, Envelope(agent, Adapted)}
  /\ Answered => /\ decision = Deserved
                 /\ out \in {None, Envelope(agent, Adapted)}
                 /\ exit = decision_exit_code(agent, Adapted)

\* The configuration asks to record the engine's decision.
Wanted == /\ call.payload = "ok" /\ call.loads /\ call.heard
          /\ audit.sink # "off" /\ should_record(call.kind, audit)

\* By the time the answer is written the record is there, or a note is.
RecordInv ==
  /\ (Wanted /\ hpc = "warn" /\ audit.sink = "active")
       => recorded \in {"written", "failed"}
  /\ (Wanted /\ (hpc \in {"stdout", "stderr"} \/ out # None \/ Answered))
       => recorded = "written" \/ err \cap {"audit open", "audit write"} # {}

HookInv == HookTypeOK /\ EarlyInv /\ DecidedInv /\ RecordInv

\* Every adapter's answer is one of the lines and one of the exit codes.
LEMMA AnswerShape ==
  ASSUME NEW a \in AllAgents, NEW k \in Kinds
  PROVE  /\ adapt_hook_decision(a, k) \in Kinds
         /\ Envelope(a, adapt_hook_decision(a, k)) \in Lines
         /\ decision_exit_code(a, adapt_hook_decision(a, k)) \in {"0", "2"}
<1>1. adapt_hook_decision(a, k) \in Kinds
  BY DEF adapt_hook_decision, Kinds
<1>2. ASSUME NEW d \in Kinds PROVE Envelope(a, d) \in Lines
  BY <1>2 DEF Envelope, Lines, Kinds, None, ClaudeEnvelope, DenyEnvelope,
              KiroV3Envelope, ClineEnvelope, CursorEnvelope
<1>3. QED
  BY <1>1, <1>2 DEF decision_exit_code

LEMMA DeservedKind == ASSUME HookTypeOK PROVE Deserved \in Kinds
BY CallsAssumption DEF HookTypeOK, Deserved, Call, Kinds

LEMMA HookInvInit == HookInit => HookInv
BY DEF HookInit, HookInv, HookTypeOK, EarlyInv, DecidedInv, RecordInv, Lines,
       Notes, None, Answered

\* A step of the process leaves alone what the call deserves.
LEMMA SameCall ==
  ASSUME UNCHANGED fixed
  PROVE  /\ UNCHANGED <<agent, call, audit>>
         /\ Deserved' = Deserved
         /\ Wanted' <=> Wanted
BY DEF fixed, Deserved, Wanted

LEMMA TypeStep == HookInv /\ [HookNext]_hvars => HookTypeOK'
<1> SUFFICES ASSUME HookInv, [HookNext]_hvars PROVE HookTypeOK'
  OBVIOUS
<1>0. HookTypeOK
  BY DEF HookInv
<1>1. CASE RejectPayload
  BY <1>0, <1>1 DEF RejectPayload, HookTypeOK, fixed, Kinds, Notes, Told
<1>2. CASE AcceptPayload
  BY <1>0, <1>2 DEF AcceptPayload, HookTypeOK, fixed
<1>3. CASE PolicyLoadFailed
  BY <1>0, <1>3 DEF PolicyLoadFailed, HookTypeOK, fixed, Kinds, Notes, Told
<1>4. CASE BuildEngine
  BY <1>0, <1>4 DEF BuildEngine, HookTypeOK, fixed
<1>5. CASE Decide
  <2>1. call.kind \in Kinds
    BY <1>0, CallsAssumption DEF HookTypeOK, Call
  <2>2. QED
    BY <1>0, <1>5, <2>1 DEF Decide, HookTypeOK, fixed
<1>6. CASE Warn
  BY <1>0, <1>6 DEF Warn, HookTypeOK, fixed, Notes, Told
<1>7. CASE WriteStdout
  <2>1. decision \in Kinds /\ agent \in AllAgents
    BY <1>0, <1>7, DeservedKind, AgentsAssumption
       DEF HookInv, DecidedInv, WriteStdout, HookTypeOK
  <2>2. Envelope(agent, Adapted) \in Lines
    BY <2>1, AnswerShape DEF Adapted
  <2>3. QED
    BY <1>0, <1>7, <2>2 DEF WriteStdout, HookTypeOK, fixed, Lines
<1>8. CASE Finish
  <2>1. decision \in Kinds /\ agent \in AllAgents
    BY <1>0, <1>8, DeservedKind, AgentsAssumption
       DEF HookInv, DecidedInv, Finish, HookTypeOK
  <2>2. decision_exit_code(agent, Adapted) \in {"0", "2"}
    BY <2>1, AnswerShape DEF Adapted
  <2>3. QED
    BY <1>0, <1>8, <2>2 DEF Finish, HookTypeOK, fixed, Notes, Told
<1>9. CASE Killed
  BY <1>0, <1>9 DEF Killed, HookTypeOK, fixed, Lines
<1>10. CASE UNCHANGED hvars
  BY <1>0, <1>10 DEF hvars, HookTypeOK
<1>11. QED
  BY <1>1, <1>2, <1>3, <1>4, <1>5, <1>6, <1>7, <1>8, <1>9, <1>10 DEF HookNext, HookStep

LEMMA EarlyStep == HookInv /\ [HookNext]_hvars => EarlyInv'
<1> SUFFICES ASSUME HookInv, [HookNext]_hvars PROVE EarlyInv'
  OBVIOUS
<1> USE DEF EarlyInv, fixed
<1>0. EarlyInv /\ HookTypeOK
  BY DEF HookInv
<1>1. CASE RejectPayload
  BY <1>0, <1>1 DEF RejectPayload
<1>2. CASE AcceptPayload
  BY <1>0, <1>2 DEF AcceptPayload
<1>3. CASE PolicyLoadFailed
  BY <1>0, <1>3 DEF PolicyLoadFailed
<1>4. CASE BuildEngine
  BY <1>0, <1>4 DEF BuildEngine
<1>5. CASE Decide
  BY <1>0, <1>5 DEF Decide
<1>6. CASE Warn
  BY <1>0, <1>6 DEF Warn
<1>7. CASE WriteStdout
  BY <1>0, <1>7 DEF WriteStdout
<1>8. CASE Finish
  BY <1>0, <1>8 DEF Finish, decision_exit_code, None
<1>9. CASE Killed
  BY <1>0, <1>9 DEF Killed, None
<1>10. CASE UNCHANGED hvars
  BY <1>0, <1>10 DEF hvars
<1>11. QED
  BY <1>1, <1>2, <1>3, <1>4, <1>5, <1>6, <1>7, <1>8, <1>9, <1>10 DEF HookNext, HookStep

LEMMA DecidedStep == HookInv /\ [HookNext]_hvars => DecidedInv'
<1> SUFFICES ASSUME HookInv, [HookNext]_hvars PROVE DecidedInv'
  OBVIOUS
<1>0. EarlyInv /\ DecidedInv
  BY DEF HookInv
<1>1. CASE RejectPayload
  BY <1>0, <1>1, SameCall DEF RejectPayload, DecidedInv, Deserved, Answered
<1>2. CASE AcceptPayload
  BY <1>0, <1>2 DEF AcceptPayload, DecidedInv, Answered
<1>3. CASE PolicyLoadFailed
  BY <1>0, <1>3, SameCall DEF PolicyLoadFailed, DecidedInv, Deserved, Answered
<1>4. CASE BuildEngine
  BY <1>0, <1>4 DEF BuildEngine, DecidedInv, Answered
<1>5. CASE Decide
  BY <1>0, <1>5, SameCall DEF Decide, EarlyInv, DecidedInv, Deserved, Answered
<1>6. CASE Warn
  BY <1>0, <1>6, SameCall DEF Warn, DecidedInv, Answered
<1>7. CASE WriteStdout
  BY <1>0, <1>7, SameCall DEF WriteStdout, DecidedInv, Adapted, Answered
<1>8. CASE Finish
  BY <1>0, <1>8, SameCall DEF Finish, DecidedInv, Adapted, Answered
<1>9. CASE Killed
  BY <1>0, <1>9 DEF Killed, DecidedInv, Answered
<1>10. CASE UNCHANGED hvars
  BY <1>0, <1>10, SameCall DEF hvars, fixed, DecidedInv, Adapted, Answered
<1>11. QED
  BY <1>1, <1>2, <1>3, <1>4, <1>5, <1>6, <1>7, <1>8, <1>9, <1>10 DEF HookNext, HookStep

LEMMA RecordStep == HookInv /\ [HookNext]_hvars => RecordInv'
<1> SUFFICES ASSUME HookInv, [HookNext]_hvars PROVE RecordInv'
  OBVIOUS
<1>0. HookTypeOK /\ EarlyInv /\ DecidedInv /\ RecordInv
  BY DEF HookInv
<1>1. CASE RejectPayload
  BY <1>1, SameCall DEF RejectPayload, RecordInv, Wanted
<1>2. CASE AcceptPayload
  BY <1>0, <1>2 DEF AcceptPayload, RecordInv, EarlyInv, Answered
<1>3. CASE PolicyLoadFailed
  BY <1>3, SameCall DEF PolicyLoadFailed, RecordInv, Wanted
<1>4. CASE BuildEngine
  BY <1>0, <1>4 DEF BuildEngine, RecordInv, EarlyInv, Answered
<1>5. CASE Decide
  <2>1. (Wanted /\ audit.sink = "active") => recorded' \in {"written", "failed"}
    BY <1>5 DEF Decide, Wanted, Recordable
  <2>2. QED
    BY <1>0, <1>5, <2>1, SameCall DEF Decide, RecordInv, EarlyInv, Answered, fixed
<1>6. CASE Warn
  <2>1. decision = call.kind
    BY <1>0, <1>6 DEF Warn, EarlyInv, DecidedInv, Deserved
  <2>2. CASE Wanted /\ audit.sink = "active"
    BY <1>0, <1>6, <2>2, SameCall DEF Warn, Told, RecordInv, Wanted
  <2>3. CASE Wanted /\ audit.sink # "active"
    <3>1. audit.sink = "unopenable"
      BY <1>0, <2>3, CallsAssumption DEF HookTypeOK, AuditCfg, Wanted
    <3>2. should_record(decision, audit)
      BY <2>1, <2>3 DEF Wanted
    <3>3. "audit open" \in err'
      BY <1>6, <2>3, <3>1, <3>2 DEF Warn, Told, Wanted
    <3>4. QED
      BY <1>6, <3>3 DEF Warn, RecordInv
  <2>4. CASE ~Wanted
    BY <1>6, <2>4, SameCall DEF Warn, RecordInv
  <2>5. QED
    BY <2>2, <2>3, <2>4
<1>7. CASE WriteStdout
  BY <1>0, <1>7, SameCall DEF WriteStdout, RecordInv
<1>8. CASE Finish
  BY <1>0, <1>8, SameCall DEF Finish, Told, RecordInv
<1>9. CASE Killed
  BY <1>0, <1>9, SameCall DEF Killed, RecordInv, Answered
<1>10. CASE UNCHANGED hvars
  BY <1>0, <1>10, SameCall DEF hvars, fixed, RecordInv, Answered
<1>11. QED
  BY <1>1, <1>2, <1>3, <1>4, <1>5, <1>6, <1>7, <1>8, <1>9, <1>10 DEF HookNext, HookStep

\* What run_hook knows at each of its points holds in every run.
THEOREM HookCorrect == HookSpec => []HookInv
<1>1. HookInv /\ [HookNext]_hvars => HookInv'
  BY TypeStep, EarlyStep, DecidedStep, RecordStep DEF HookInv
<1>2. QED
  BY HookInvInit, <1>1, PTL DEF HookSpec

-----------------------------------------------------------------------------
\* The three ways a host reads an answer, one adapter at a time.

LEMMA AnsweredShape ==
  ASSUME HookInv, Answered
  PROVE  /\ agent \in AllAgents /\ Deserved \in Kinds
         /\ decision = Deserved
         /\ exit = decision_exit_code(agent, Adapted)
         /\ out \in {None, Envelope(agent, Adapted)}
         /\ Adapted = adapt_hook_decision(agent, Deserved)
BY AgentsAssumption, DeservedKind DEF HookInv, HookTypeOK, DecidedInv, Adapted

\* A call that deserves a deny is blocked in every protocol, whichever step
\* of run_hook failed (run_hook, emit_decision and the tables of output.rs).
THEOREM DenyTheorem == HookSpec => []DenyBlocks
<1>1. ASSUME HookInv, Answered, Deserved = "deny",
             agent \in {"Copilot", "Cline"} => Delivered
      PROVE  HostVerdict \in {"block", "bridge"}
  <2>1. Adapted = "deny" /\ agent \in AllAgents
    BY <1>1, AnsweredShape DEF adapt_hook_decision
  <2>2. exit = IF agent \in {"Copilot", "Cline"} THEN "0" ELSE "2"
    BY <1>1, <2>1, AnsweredShape DEF decision_exit_code
  <2>3. CASE agent \in {"Copilot", "Cline"}
    <3>1. out = Envelope(agent, "deny") /\ Envelope(agent, "deny") \in {"deny", "cancel"}
      BY <1>1, <2>1, <2>3, AnsweredShape
         DEF Delivered, Envelope, ClaudeEnvelope, DenyEnvelope, ClineEnvelope, None
    <3>2. QED
      BY <2>2, <2>3, <3>1 DEF HostVerdict
  <2>4. CASE agent \notin {"Copilot", "Cline"}
    BY <2>1, <2>2, <2>4 DEF HostVerdict, AllAgents
  <2>5. QED
    BY <2>3, <2>4
<1>2. HookInv => DenyBlocks
  BY <1>1 DEF DenyBlocks
<1>3. QED
  BY HookCorrect, <1>2, PTL

\* An ask whose answer arrived never runs unprompted.
THEOREM AskTheorem == HookSpec => []AskNeverRunsUnasked
<1>1. ASSUME HookInv, Answered, Deserved = "ask", Delivered
      PROVE  HostVerdict # "run"
  <2>1. Adapted = adapt_hook_decision(agent, "ask") /\ agent \in AllAgents
    BY <1>1, AnsweredShape
  <2>2. CASE agent \in {"Codex", "Copilot", "KiroV2", "Cline"} \cup OpenCode
    <3>1. Adapted = "deny"
      BY <2>1, <2>2 DEF adapt_hook_decision
    <3>2. CASE agent \in {"Copilot", "Cline"}
      <4>1. exit = "0" /\ out \in {"deny", "cancel"}
        BY <1>1, <3>1, <3>2, AnsweredShape
           DEF Delivered, Envelope, ClaudeEnvelope, DenyEnvelope, ClineEnvelope, None,
               decision_exit_code
      <4>2. QED
        BY <3>2, <4>1 DEF HostVerdict
    <3>3. CASE agent \notin {"Copilot", "Cline"}
      <4>1. exit = "2"
        BY <1>1, <3>1, <3>3, AnsweredShape DEF decision_exit_code
      <4>2. QED
        BY <2>2, <3>3, <4>1 DEF HostVerdict, OpenCode
    <3>4. QED
      BY <3>2, <3>3
  <2>3. CASE agent \in {"ClaudeCode", "KiroV3", "Cursor"}
    <3>1. Adapted = "ask"
      BY <2>1, <2>3 DEF adapt_hook_decision, OpenCode
    <3>2. exit = "0" /\ out = "ask"
      BY <1>1, <2>3, <3>1, AnsweredShape
         DEF Delivered, Envelope, ClaudeEnvelope, DenyEnvelope, KiroV3Envelope, CursorEnvelope,
             None, decision_exit_code, OpenCode
    <3>3. QED
      BY <2>3, <3>2 DEF HostVerdict
  <2>4. CASE agent = "Pi"
    BY <2>4 DEF HostVerdict
  <2>5. QED
    BY <2>1, <2>2, <2>3, <2>4 DEF AllAgents, OpenCode
<1>2. HookInv => AskNeverRunsUnasked
  BY <1>1 DEF AskNeverRunsUnasked
<1>3. QED
  BY HookCorrect, <1>2, PTL

\* No host reads a block into what an allow or a monitor is answered with.
THEOREM PermittedTheorem == HookSpec => []PermittedRuns
<1>1. ASSUME HookInv, Answered, Deserved \in {"allow", "monitor"}, Delivered
      PROVE  HostVerdict \in {"run", "bridge"}
  <2>1. Adapted = Deserved /\ agent \in AllAgents
    BY <1>1, AnsweredShape DEF adapt_hook_decision
  <2>2. exit = "0"
    BY <1>1, <2>1, AnsweredShape DEF decision_exit_code
  <2>3. CASE agent \in {"ClaudeCode", "Codex", "Copilot", "KiroV2", "KiroV3", "Cline"}
    <3>1. out \in {None, "empty"}
      BY <1>1, <2>1, <2>3, AnsweredShape
         DEF Envelope, ClaudeEnvelope, DenyEnvelope, KiroV3Envelope, ClineEnvelope, None
    <3>2. QED
      BY <2>2, <2>3, <3>1 DEF HostVerdict, None
  <2>4. CASE agent = "Cursor"
    <3>1. out = "allow"
      BY <1>1, <2>1, <2>4, AnsweredShape DEF Delivered, Envelope, CursorEnvelope, None
    <3>2. QED
      BY <2>2, <2>4, <3>1 DEF HostVerdict
  <2>5. CASE agent \in {"Pi"} \cup OpenCode
    BY <2>5 DEF HostVerdict, OpenCode
  <2>6. QED
    BY <2>1, <2>3, <2>4, <2>5 DEF AllAgents, OpenCode
<1>2. HookInv => PermittedRuns
  BY <1>1 DEF PermittedRuns
<1>3. QED
  BY HookCorrect, <1>2, PTL

\* An answer the host acts on has its record in the log or its note on
\* stderr (record_audit, audit_warning_for_decision, the drained warnings).
THEOREM RecordTheorem == HookSpec => []RecordedOrAnnounced
<1>1. HookInv => RecordedOrAnnounced
  BY DEF HookInv, RecordInv, Wanted, RecordedOrAnnounced
<1>2. QED
  BY HookCorrect, <1>1, PTL

\* Every field stays in its range (the adapters' tables are total).
THEOREM HookTypeCorrect == HookSpec => []HookTypeOK
<1>1. HookInv => HookTypeOK
  BY DEF HookInv
<1>2. QED
  BY HookCorrect, <1>1, PTL

-----------------------------------------------------------------------------
\* The bridge.

\* The answer of a process that exited by itself permits the call.
Good ==
  /\ exit = "0" /\ out = Deserved
  /\ \/ Deserved \in {"allow", "monitor"}
     \/ Deserved = "ask" /\ agent = "Pi" /\ ShouldConfirm

\* Something of the answer was lost.
Lost ==
  \/ timer = "fired" \/ stdin = "broken" \/ Overflowed
  \/ hpc = "exited" /\ (exit = "killed" \/ out = None)

RunInv ==
  /\ bpc # "settled" => verdict = None
  /\ bpc = "confirming" => Good /\ agent = "Pi" /\ Deserved = "ask"
  /\ verdict = "run" => Good
  /\ LateAnswerDropped
  /\ (verdict = "block" /\ Deserved \in {"allow", "monitor"}) => Lost
  /\ NoOrphan
  /\ stdin = "broken" => hpc = "exited"

BridgeInv == HookInv /\ RunInv

LEMMA BridgeInvInit == BridgeInit => BridgeInv
BY HookInvInit
   DEF BridgeInit, BridgeInv, RunInv, LateAnswerDropped, NoOrphan, None

\* A step of the composition is a step of the process or leaves it alone.
LEMMA HookSimulated == BridgeNext => [HookNext]_hvars
BY DEF BridgeNext, ChildStep, ChildHangs, ChildKilled, Deliver, BridgeStep,
       Confirm, TimeoutOpenCode, AbortRejects, AbortTooLate, KillTimer,
       StdinError, OutputOverflow, Evaluate, HookNext

\* The bridge and its timers, signals and streams add nothing to what the process
\* does by itself: it is run_hook, whoever has started it.
THEOREM HookComposed == BridgeSpec => HookSpec
<1>1. BridgeInit => HookInit
  BY DEF BridgeInit
<1>2. [BridgeNext]_bridgeVars => [HookNext]_hvars
  BY HookSimulated DEF bridgeVars
<1>3. QED
  BY <1>1, <1>2, PTL DEF BridgeSpec, HookSpec

LEMMA HookPart == BridgeInv /\ [BridgeNext]_bridgeVars => HookInv'
<1> SUFFICES ASSUME BridgeInv, [BridgeNext]_bridgeVars PROVE HookInv'
  OBVIOUS
<1>1. [HookNext]_hvars
  BY HookSimulated DEF bridgeVars
<1>2. QED
  BY <1>1, TypeStep, EarlyStep, DecidedStep, RecordStep DEF BridgeInv, HookInv

\* What a bridged process that exited by itself has told.
LEMMA BridgedAnswer ==
  ASSUME HookInv, hpc = "exited", exit # "killed"
  PROVE  /\ out \in {None, Adapted} /\ Deserved \in Kinds
         /\ Adapted = (IF Deserved = "ask" /\ agent # "Pi" THEN "deny" ELSE Deserved)
         /\ exit = (IF Adapted = "deny" THEN "2" ELSE "0")
<1>1. Answered
  BY DEF Answered
<1>2. agent \in {"Pi"} \cup OpenCode
  BY HostAssumption DEF HookInv, HookTypeOK
<1>3. Adapted = (IF Deserved = "ask" /\ agent # "Pi" THEN "deny" ELSE Deserved)
  BY <1>1, <1>2, AnsweredShape DEF adapt_hook_decision, OpenCode
<1>4. Envelope(agent, Adapted) = Adapted
  BY <1>2 DEF Envelope, OpenCode
<1>5. exit = (IF Adapted = "deny" THEN "2" ELSE "0")
  BY <1>1, <1>2, <1>3, AnsweredShape DEF decision_exit_code, OpenCode
<1>6. QED
  BY <1>1, <1>3, <1>4, <1>5, AnsweredShape

\* What the call is and what the host is stay the same.
LEMMA SameHost ==
  ASSUME [BridgeNext]_bridgeVars
  PROVE  /\ agent' = agent /\ host' = host
         /\ Deserved' = Deserved /\ (ShouldConfirm' <=> ShouldConfirm)
<1>1. UNCHANGED fixed
  BY HookSimulated
     DEF bridgeVars, hvars, fixed, HookNext, HookStep, RejectPayload, AcceptPayload,
         PolicyLoadFailed, BuildEngine, Decide, Warn, WriteStdout, Finish, Killed
<1>2. host' = host
  BY DEF bridgeVars, bvars, BridgeNext, ChildStep, ChildHangs, ChildKilled, Deliver,
         BridgeStep, Confirm, TimeoutOpenCode, AbortRejects, AbortTooLate, KillTimer,
         StdinError, OutputOverflow, Evaluate
<1>3. QED
  BY <1>1, <1>2, SameCall DEF ShouldConfirm

\* A step of the process keeps an answer that is complete, and what is lost.
LEMMA ProcessStep ==
  ASSUME BridgeInv, HookNext, UNCHANGED <<host, bpc, timer, verdict>>
  PROVE  /\ hpc # "exited"
         /\ Good => Good'
         /\ Lost => Lost'
<1>0. HookTypeOK /\ EarlyInv
  BY DEF BridgeInv, HookInv
<1>1. hpc # "exited"
  BY DEF HookNext, HookStep, RejectPayload, AcceptPayload, PolicyLoadFailed,
         BuildEngine, Decide, Warn, WriteStdout, Finish, Killed
<1>2. ~Good
  BY <1>0, <1>1 DEF Good, EarlyInv, None
<1>3. err \subseteq err' /\ (out # None => out' \in {out, "partial"})
  <2>1. ASSUME NEW notes, NEW e \in Told(notes) PROVE err \subseteq e
    BY <2>1 DEF Told
    <2>2. QED
    BY <1>0, <2>1 DEF EarlyInv, HookNext, HookStep, RejectPayload, AcceptPayload,
         PolicyLoadFailed, BuildEngine, Decide, Warn, WriteStdout, Finish, Killed
<1>4. Overflowed => Overflowed'
  BY <1>3 DEF Overflowed, LongLine, None
<1>5. QED
  BY <1>1, <1>2, <1>4 DEF Lost, BridgeInv, RunInv

\* The process moves, is killed, or receives a signal: nothing is settled.
LEMMA ChildPart ==
  ASSUME BridgeInv, [BridgeNext]_bridgeVars, HookNext,
         UNCHANGED <<host, bpc, timer, killTimer, verdict>>,
         stdin' \in {stdin, "done"},
         pending' = pending \/ hpc' = "exited"
  PROVE  RunInv'
<1>1. /\ hpc # "exited"
      /\ Good => Good'
      /\ Lost => Lost'
  BY ProcessStep
<1>2. QED
  BY <1>1, SameHost DEF BridgeInv, RunInv, LateAnswerDropped, NoOrphan

\* A call is settled with a block while the process may still be running.
LEMMA RejectPart ==
  ASSUME BridgeInv, [BridgeNext]_bridgeVars, Reject, bpc = "waiting", UNCHANGED hvars, Lost,
         UNCHANGED stdin
  PROVE  RunInv'
<1>1. Lost'
  BY SameHost DEF Reject, Settle, Clear, Lost, hvars, Overflowed, LongLine
<1>2. bpc' = "settled" /\ verdict' = "block"
  BY DEF Reject, Settle
<1>3. agent \in OpenCode => hpc' = "exited" \/ "KILL" \in pending'
  BY DEF Reject, Send, hvars
<1>4. QED
  BY <1>1, <1>2, <1>3, SameHost DEF BridgeInv, RunInv, LateAnswerDropped, NoOrphan, hvars

LEMMA RunStep == BridgeInv /\ [BridgeNext]_bridgeVars => RunInv'
<1> SUFFICES ASSUME BridgeInv, [BridgeNext]_bridgeVars PROVE RunInv'
  OBVIOUS
<1>0. RunInv /\ HookInv
  BY DEF BridgeInv
<1>1. CASE ChildStep
  BY <1>1, ChildPart DEF ChildStep, HookNext
<1>2. CASE ChildHangs
  BY <1>0, <1>2, SameHost
     DEF ChildHangs, hvars, RunInv, Good, Lost, Overflowed, LongLine,
         LateAnswerDropped, NoOrphan
<1>3. CASE ChildKilled
  BY <1>3, ChildPart DEF ChildKilled, bvars, HookNext
<1>4. ASSUME NEW sig \in {"TERM", "KILL"}, Deliver(sig) PROVE RunInv'
  <2>1. hpc' = "exited" /\ HookNext
    BY <1>4 DEF Deliver, Killed, HookNext
  <2>2. QED
    BY <1>4, <2>1, ChildPart DEF Deliver
<1>5. CASE TimeoutOpenCode
  BY <1>0, <1>5, SameHost
     DEF TimeoutOpenCode, hvars, RunInv, LateAnswerDropped, NoOrphan, None
<1>6. CASE AbortRejects
  BY <1>0, <1>6, SameHost
     DEF AbortRejects, hvars, RunInv, Lost, LateAnswerDropped, NoOrphan, OpenCode
<1>7. CASE AbortTooLate
  BY <1>0, <1>7, SameHost
     DEF AbortTooLate, hvars, RunInv, LateAnswerDropped, NoOrphan, OpenCode, None
<1>8. CASE KillTimer
  <2>1. pending \subseteq pending'
    BY <1>8 DEF KillTimer, Send
  <2>2. QED
    BY <1>0, <1>8, <2>1, SameHost
       DEF KillTimer, hvars, RunInv, Good, Lost, Overflowed, LongLine,
           LateAnswerDropped, NoOrphan
<1>9. CASE StdinError
  <2>1. CASE agent \in OpenCode
    BY <1>0, <1>9, <2>1, SameHost
       DEF StdinError, Reject, Settle, Send, hvars, RunInv, Lost, LateAnswerDropped, NoOrphan
  <2>2. CASE agent \notin OpenCode
    BY <1>0, <1>9, <2>2, SameHost
       DEF StdinError, hvars, RunInv, LateAnswerDropped, NoOrphan, None
  <2>3. QED
    BY <2>1, <2>2
<1>10. CASE OutputOverflow
  BY <1>10, RejectPart DEF OutputOverflow, Lost
<1>11. CASE Evaluate
  <2>1. hpc = "exited" /\ bpc = "waiting" /\ UNCHANGED hvars /\ stdin' = stdin
    BY <1>11 DEF Evaluate
  <2>2. CASE ~Usable /\ (Deserved \in {"allow", "monitor"} => Lost)
    BY <1>0, <1>11, <2>1, <2>2, SameHost
       DEF Evaluate, Reject, Settle, Clear, Lost, hvars, Overflowed, LongLine,
           RunInv, LateAnswerDropped, NoOrphan
  <2>3. CASE ~Usable /\ ~(Deserved \in {"allow", "monitor"} => Lost)
    <3>1. exit # "killed" /\ out # None /\ timer # "fired" /\ ~LongLine
      BY <2>1, <2>3 DEF Lost, Overflowed
    <3>2. out = Deserved /\ exit = "0"
      BY <1>0, <2>1, <2>3, <3>1, BridgedAnswer
    <3>3. QED
      BY <2>3, <3>1, <3>2 DEF Usable, Permitted
  <2>4. CASE Usable
    <3>1. out = Adapted /\ out \in Kinds
      BY <1>0, <2>1, <2>4, BridgedAnswer DEF Usable, None, Kinds
    <3>2. CASE out = "ask" /\ ShouldConfirm
      <4>1. out = Deserved /\ exit = "0" /\ agent = "Pi"
        BY <1>0, <2>1, <2>4, <3>1, <3>2, BridgedAnswer DEF Usable
      <4>2. Good
        BY <3>2, <4>1 DEF Good
      <4>3. QED
        BY <1>0, <1>11, <2>1, <2>4, <3>2, <4>1, <4>2, SameHost
           DEF Evaluate, hvars, RunInv, Good, LateAnswerDropped, NoOrphan, OpenCode, None
    <3>3. CASE ~(out = "ask" /\ ShouldConfirm) /\ out \in {"deny", "ask"}
      <4>1. Deserved \notin {"allow", "monitor"}
        BY <1>0, <2>1, <2>4, <3>1, <3>3, BridgedAnswer DEF Usable
      <4>2. bpc' = "settled" /\ verdict' = "block"
        BY <1>11, <2>4, <3>3 DEF Evaluate, Settle
      <4>3. QED
        BY <2>1, <4>1, <4>2, SameHost DEF RunInv, LateAnswerDropped, NoOrphan, hvars
    <3>4. CASE ~(out = "ask" /\ ShouldConfirm) /\ out \notin {"deny", "ask"}
      <4>1. out = Deserved /\ exit = "0" /\ Deserved \in {"allow", "monitor"}
        BY <1>0, <2>1, <2>4, <3>1, <3>4, BridgedAnswer DEF Usable, Kinds
      <4>2. bpc' = "settled" /\ verdict' = "run" /\ timer' = Clear(timer)
        BY <1>11, <2>4, <3>4 DEF Evaluate, Settle
      <4>3. agent \in OpenCode => timer' # "fired"
        BY <2>4, <4>2 DEF Usable, Clear
      <4>4. QED
        BY <2>1, <4>1, <4>2, <4>3, SameHost
           DEF RunInv, Good, LateAnswerDropped, NoOrphan, hvars
    <3>5. QED
      BY <3>2, <3>3, <3>4
  <2>5. QED
    BY <2>2, <2>3, <2>4
<1>12. CASE Confirm
  BY <1>0, <1>12, SameHost
     DEF Confirm, hvars, RunInv, Good, LateAnswerDropped, NoOrphan, OpenCode
<1>13. CASE UNCHANGED bridgeVars
  BY <1>0, <1>13, SameHost
     DEF bridgeVars, bvars, hvars, RunInv, Good, Lost, Overflowed, LongLine,
         LateAnswerDropped, NoOrphan
<1>14. QED
  BY <1>1, <1>2, <1>3, <1>4, <1>5, <1>6, <1>7, <1>8, <1>9, <1>10, <1>11, <1>12,
     <1>13 DEF BridgeNext, BridgeStep

\* The process's invariant and the bridge's hold in every run.
THEOREM BridgeCorrect == BridgeSpec => []BridgeInv
<1>1. BridgeInv /\ [BridgeNext]_bridgeVars => BridgeInv'
  BY HookPart, RunStep DEF BridgeInv
<1>2. QED
  BY BridgeInvInit, <1>1, PTL DEF BridgeSpec

\* A tool runs only on a whole answer that permits it (runPtufHook's checks of
\* exit code, line and timeout; the prompt in Pi).
THEOREM RunTheorem == BridgeSpec => []ToolRunsOnlyIfPermitted
<1>1. BridgeInv => ToolRunsOnlyIfPermitted
  BY DEF BridgeInv, RunInv, Good, ToolRunsOnlyIfPermitted
<1>2. QED
  BY BridgeCorrect, <1>1, PTL

\* In OpenCode an answer that comes after the timeout is not used.
THEOREM LateTheorem == BridgeSpec => []LateAnswerDropped
<1>1. BridgeInv => LateAnswerDropped
  BY DEF BridgeInv, RunInv
<1>2. QED
  BY BridgeCorrect, <1>1, PTL

\* A call that deserved to run is blocked only when something was lost.
THEOREM BlockTheorem == BridgeSpec => []BlockExplained
<1>1. BridgeInv => BlockExplained
  BY DEF BridgeInv, RunInv, Lost, BlockExplained
<1>2. QED
  BY BridgeCorrect, <1>1, PTL

\* OpenCode settles no call whose process is alive without a SIGKILL under way.
THEOREM OrphanTheorem == BridgeSpec => []NoOrphan
<1>1. BridgeInv => NoOrphan
  BY DEF BridgeInv, RunInv
<1>2. QED
  BY BridgeCorrect, <1>1, PTL

\* Every field of the bridge stays in its range.
THEOREM BridgeTypeCorrect == BridgeSpec => []BridgeTypeOK
<1> DEFINE T == /\ host \in HostCfgs
                /\ bpc \in {"waiting", "confirming", "settled", "crashed"}
                /\ timer \in {"armed", "fired", "cleared"}
                /\ killTimer \in {"off", "armed", "fired", "cleared"}
                /\ pending \subseteq {"TERM", "KILL"}
                /\ mode \in {"live", "hung", "stopped"}
                /\ stdin \in {"writing", "done", "broken"}
                /\ verdict \in {None, "run", "block"}
<1>1. BridgeInit => T
  BY DEF BridgeInit
<1>2. T /\ [BridgeNext]_bridgeVars => T'
  <2> SUFFICES ASSUME T, [BridgeNext]_bridgeVars PROVE T'
    OBVIOUS
  <2>1. CASE ChildStep \/ ChildHangs \/ ChildKilled
    BY <2>1 DEF ChildStep, ChildHangs, ChildKilled, bvars
  <2>2. CASE \E sig \in {"TERM", "KILL"} : Deliver(sig)
    BY <2>2 DEF Deliver
  <2>3. CASE TimeoutOpenCode \/ AbortRejects \/ AbortTooLate \/ KillTimer
    BY <2>3 DEF TimeoutOpenCode, AbortRejects, AbortTooLate, KillTimer, Send
  <2>4. CASE StdinError \/ OutputOverflow
    BY <2>4 DEF StdinError, OutputOverflow, Reject, Settle, Clear, Send
  <2>5. CASE Evaluate
    BY <2>5 DEF Evaluate, Reject, Settle, Clear, Send
  <2>6. CASE Confirm
    BY <2>6 DEF Confirm
  <2>7. CASE UNCHANGED bridgeVars
    BY <2>7 DEF bridgeVars, bvars
  <2>8. QED
    BY <2>1, <2>2, <2>3, <2>4, <2>5, <2>6, <2>7 DEF BridgeNext, BridgeStep
<1>3. BridgeInv /\ T => BridgeTypeOK
  BY DEF BridgeInv, HookInv, BridgeTypeOK
<1> HIDE DEF T
<1>4. QED
  BY <1>1, <1>2, <1>3, BridgeCorrect, PTL DEF BridgeSpec
================================================================================
