-------------------------- MODULE InitInstall_proofs --------------------------
(***************************************************************************)
(* Proofs about InitInstall, for any trees, lists of agents and options    *)
(* the program may be given, any number of host edits and of reruns.  The  *)
(* inductive invariant has a part per question: where the turn is          *)
(* (PlaceInv), what its variables hold (TypeOK, ShapeInv), what the agents *)
(* were told (ReportInv), what the turn has read (ReadInv), what became of *)
(* the host's content (ContentInv), what a rollback has put back           *)
(* (RollbackInv), what the turns that are over have installed (OverInv)    *)
(* and what this one has (TurnInv).                                        *)
(***************************************************************************)
EXTENDS InitInstall, SequenceTheorems, TLAPS

Op(a, i) == Plan[a][i][1]
On(a, i) == Plan[a][i][2]
Contents == [hook : Hooks \cup {"absent"}, user : Nat]
Turn == {"capture", "install", "verify", "restore"}

\* The steps of the plan that are behind, once the plan has begun.
Ran(i) == i \in DOMAIN Plan[agent] /\ (pc = "install" => i < step)
Begun == pc \in {"install", "verify", "restore"}

PlaceInv ==
  /\ pc \in Turn => q > 0
  /\ pc = "done" => q = Len(queue)
  /\ pc \in {"capture", "verify", "restore"} => options.verify
  /\ pc = "capture" => step = 1
  /\ pc = "install" => step <= Len(Plan[agent]) + 1
  /\ pc = "restore" => step <= Len(Targets[agent]) + 1

\* No file holds less than nothing, and what Codex's `features` clashes with is
\* something the host has put there.
Counted(c) ==
  /\ c.hook = "absent" => c.user = 0
  /\ c.hook = "clash" => c.user > 0

\* What is held in memory are contents; ptuf's own files hold nothing of the host's.
ShapeInv ==
  /\ snap \in [DOMAIN snap -> Contents] /\ buf \in [DOMAIN buf -> File \cup {Absent}]
  /\ \A f \in DOMAIN snap : Counted(snap[f])
  /\ \A f \in Managed : /\ fs[f].hook # "bad" /\ fs[f].user = 0
                        /\ start[f].hook # "bad" /\ start[f].user = 0

\* An agent has no result before its turn is over, and the exit code is that
\* of the turns that are over, or of the one that is being rolled back.
Over(i) == i \in 1..q /\ ~(i = q /\ pc \in Turn)
ReportInv ==
  /\ \A i \in DOMAIN queue : result[queue[i]] # "none" => Over(i)
  /\ pc = "restore" => exit = 1
  /\ pc \notin {"restore", "crashed"} =>
       (exit = 0 <=> \A i \in DOMAIN queue : Over(i) => result[queue[i]] = "ok")

ReadInv ==
  /\ Begun => DOMAIN buf = {On(agent, i) : i \in {j \in DOMAIN Plan[agent] :
                                                    Ran(j) /\ Op(agent, j) = "read"}}
  /\ Begun /\ options.verify => DOMAIN snap = TargetSet(agent)
  /\ pc = "capture" => DOMAIN buf = {}
  /\ \A f \in DOMAIN buf : /\ buf[f].hook # "bad"
                           /\ f \in Managed \ {"legacy"} => buf[f].hook # "none"

ContentInv ==
  /\ HostContentKept
  /\ \A f \in DOMAIN buf : /\ Kept(buf[f]) >= Kept(start[f])
                           /\ f \in Managed => buf[f] = start[f]
  /\ \A f \in DOMAIN snap :
       /\ Kept(snap[f]) >= Kept(start[f])
       /\ (f \in Managed \/ f \notin touched) => snap[f] = Content(start[f])
  /\ \A f \in Managed \ DOMAIN buf : fs[f] = start[f]
  /\ pc = "capture" => \A f \in Files \ touched : fs[f] = start[f]

Back(f) == f \in touched \/ Content(fs[f]) = Content(start[f])
RollbackInv ==
  /\ pc = "restore" => /\ wrote # {}
                       /\ \A i \in DOMAIN Targets[agent] :
                            i < step => Targets[agent][i] \in stuck \/ Back(Targets[agent][i])
  /\ TreeRestored

Ours(f) == IF f = "legacy" THEN fs[f].hook \notin {"old", "ours"} ELSE fs[f].hook = "ours"
OverInv ==
  /\ \A a \in Agents : (result[a] = "ok" /\ ~options.dryRun) => \A f \in TargetSet(a) : Ours(f)
  /\ \A a \in earlier : \A f \in TargetSet(a) : Ours(f)

\* The turn so far: ptuf is where the plan found it or put it, and an agent an
\* earlier run has installed gives it nothing to write.
TurnInv ==
  /\ pc \in {"install", "verify"} =>
       /\ \A f \in DOMAIN buf : IF f = "legacy" THEN fs[f] \in {buf[f], Absent}
                                ELSE buf[f].hook = "ours" => fs[f].hook = "ours"
       /\ ~options.dryRun => \A i \in DOMAIN Plan[agent] :
                               (Ran(i) /\ Op(agent, i) # "read") => Ours(On(agent, i))
  /\ RerunIdempotent
  /\ (Begun /\ agent \in earlier) => \A f \in DOMAIN buf \ {"legacy"} : buf[f].hook = "ours"

IInv ==
  /\ TypeOK /\ PlaceInv /\ ShapeInv /\ ReportInv
  /\ ReadInv /\ ContentInv /\ RollbackInv /\ OverInv /\ TurnInv
-----------------------------------------------------------------------------
LEMMA AgentNames == Agents = {"ClaudeCode", "Codex", "KiroV2", "Cline", "Opencode"}
  BY DEF Agents, Targets
LEMMA TargetNames ==
  /\ TargetSet("ClaudeCode") = {"settings"}
  /\ TargetSet("Codex") = {"hooks", "config"}
  /\ TargetSet("KiroV2") = {"agent1", "agent2"}
  /\ TargetSet("Cline") = {"wrapper"}
  /\ TargetSet("Opencode") = {"plugin", "legacy"}
  BY DEF TargetSet, Targets
LEMMA TargetShape ==
  ASSUME NEW a \in Agents
  PROVE  /\ TargetSet(a) \subseteq Files
         /\ TargetSet(a) = {Targets[a][i] : i \in DOMAIN Targets[a]}
         /\ Len(Targets[a]) \in 1..2 /\ DOMAIN Targets[a] = 1..Len(Targets[a])
<1>1. QED
  BY AgentNames DEF Targets, TargetSet, Files

\* No two agents share a file.
LEMMA TargetsApart ==
  ASSUME NEW a \in Agents, NEW b \in Agents, a # b
  PROVE  TargetSet(a) \cap TargetSet(b) = {}
  BY AgentNames, TargetNames

\* Every plan reads a file before it writes or removes it, once each, and leaves
\* no target out; what is removed is the legacy plugin, behind the new one.
LEMMA PlanShape ==
  ASSUME NEW a \in Agents
  PROVE  /\ Len(Plan[a]) \in 2..4 /\ DOMAIN Plan[a] = 1..Len(Plan[a])
         /\ \A i \in DOMAIN Plan[a] :
              /\ On(a, i) \in TargetSet(a)
              /\ Op(a, i) \in {"read", "write", "remove"}
              /\ Op(a, i) = "write" => On(a, i) # "legacy"
              /\ Op(a, i) = "remove" =>
                   /\ On(a, i) = "legacy" /\ a = "Opencode"
                   /\ \E j \in DOMAIN Plan[a] : j < i /\ Op(a, j) = "write" /\ On(a, j) = "plugin"
              /\ Op(a, i) # "read" =>
                   \E j \in DOMAIN Plan[a] : j < i /\ Op(a, j) = "read" /\ On(a, j) = On(a, i)
              /\ Op(a, i) = "read" =>
                   \A j \in DOMAIN Plan[a] : (Op(a, j) = "read" /\ On(a, j) = On(a, i)) => j = i
         /\ \A f \in TargetSet(a) : \E i \in DOMAIN Plan[a] : Op(a, i) # "read" /\ On(a, i) = f
<1>1. CASE a = "ClaudeCode"
  BY <1>1, TargetNames DEF Plan, ClaudeCodePlan, Op, On
<1>2. CASE a = "Codex"
  BY <1>2, TargetNames DEF Plan, CodexPlan, Op, On
<1>3. CASE a = "KiroV2"
  BY <1>3, TargetNames DEF Plan, KiroPlan, Op, On
<1>4. CASE a = "Cline"
  BY <1>4, TargetNames DEF Plan, ClinePlan, Op, On
<1>5. CASE a = "Opencode"
  BY <1>5, TargetNames DEF Plan, OpencodePlan, Op, On
<1>6. QED
  BY <1>1, <1>2, <1>3, <1>4, <1>5, AgentNames

LEMMA Basics ==
  ASSUME TypeOK
  PROVE  /\ queue \in Seq(Agents) /\ Len(queue) \in Nat /\ DOMAIN queue = 1..Len(queue)
         /\ queue # <<>>
         /\ \A i, j \in DOMAIN queue : queue[i] = queue[j] => i = j
         /\ q \in 0..Len(queue)
         /\ q > 0 => q \in DOMAIN queue /\ agent \in Agents
         /\ options.verify \in BOOLEAN /\ options.dryRun \in BOOLEAN
         /\ ~(options.verify /\ options.dryRun)
         /\ scene.edits \in Nat /\ scene.runs \in Nat \ {0}
<1>1. scene \in Scenarios /\ queue \in scene.queues /\ options \in Options /\ q \in 0..Len(queue)
  BY DEF TypeOK
<1>2. queue \in Seq(Agents) /\ queue # <<>>
      /\ \A i, j \in DOMAIN queue : queue[i] = queue[j] => i = j
  BY <1>1, InitAssumption
<1>3. Len(queue) \in Nat /\ DOMAIN queue = 1..Len(queue)
  BY <1>2
<1>4. q > 0 => q \in DOMAIN queue /\ agent \in Agents
  BY <1>1, <1>2, <1>3 DEF agent
<1>5. QED
  BY <1>1, <1>2, <1>3, <1>4, InitAssumption

\* During a turn there is an agent, and it stays the one it is.
LEMMA InTurn ==
  ASSUME TypeOK, PlaceInv, pc \in Turn
  PROVE  q > 0 /\ q \in DOMAIN queue /\ agent \in Agents
  BY Basics DEF PlaceInv

LEMMA AtPlan ==
  ASSUME TypeOK, PlaceInv, NEW op, AtStep(op)
  PROVE  /\ pc = "install" /\ agent \in Agents /\ q \in DOMAIN queue
         /\ step \in DOMAIN Plan[agent] /\ step \in Nat
         /\ Op(agent, step) = op /\ On(agent, step) = Target
         /\ Target \in TargetSet(agent) /\ Target \in Files
<1>1. pc = "install" /\ step <= Len(Plan[agent]) /\ step \in 1..5
  BY DEF AtStep, TypeOK
<1>2. agent \in Agents /\ q \in DOMAIN queue
  BY <1>1, InTurn DEF Turn
<1>3. step \in DOMAIN Plan[agent]
  BY <1>1, <1>2, PlanShape
<1>4. QED
  BY <1>1, <1>2, <1>3, PlanShape, TargetShape DEF AtStep, Target, Op, On

LEMMA KeptNat ==
  ASSUME NEW x \in File \cup {Absent}
  PROVE  /\ x.user \in Nat /\ Kept(x) \in Nat /\ Kept(Content(x)) = Kept(x)
         /\ Content(x) \in Contents /\ Counted(Content(x))
         /\ x.user = 0 => Kept(x) = 0
  BY DEF File, Absent, Hooks, Kept, Content, Contents, Counted

\* A write leaves a file of ptuf's with what the host had in it.
LEMMA MergedFile ==
  ASSUME ShapeInv, NEW f \in DOMAIN buf
  PROVE  /\ Merged(f) \in File /\ Merged(f).hook = "ours"
         /\ Merged(f).user = Kept(buf[f]) /\ Kept(Merged(f)) = Kept(buf[f])
<1>1. buf[f] \in File \cup {Absent}
  BY DEF ShapeInv
<1>2. Kept(buf[f]) \in Nat
  BY <1>1, KeptNat
<1>3. QED
  BY <1>2 DEF Merged, File, Hooks, Kept

LEMMA RestoredFile ==
  ASSUME ShapeInv, NEW f \in DOMAIN snap
  PROVE  Restored(f) \in File \cup {Absent} /\ Content(Restored(f)) = snap[f]
<1>1. snap[f] \in Contents /\ Counted(snap[f])
  BY DEF ShapeInv
<1>2. QED
  BY <1>1 DEF Contents, Counted, Restored, File, Absent, Hooks, Content

\* A step of the plan reads its file before it writes or removes it.
LEMMA ReadBefore ==
  ASSUME TypeOK, PlaceInv, ReadInv, Begun
  PROVE  \A i \in DOMAIN Plan[agent] :
           /\ Ran(i) => On(agent, i) \in DOMAIN buf
           /\ (pc = "install" /\ i = step) =>
                (On(agent, i) \in DOMAIN buf <=> Op(agent, i) # "read")
<1>0. step \in Nat
  <2>1. step \in 1..5
    BY DEF TypeOK
  <2>2. QED
    BY <2>1
<1>1. agent \in Agents
  BY InTurn DEF Begun, Turn
<1>2. DOMAIN buf = {On(agent, i) : i \in {j \in DOMAIN Plan[agent] : Ran(j) /\ Op(agent, j) = "read"}}
  BY DEF ReadInv
<1>3. ASSUME NEW i \in DOMAIN Plan[agent], Op(agent, i) # "read", pc = "install" => i <= step
      PROVE  On(agent, i) \in DOMAIN buf
  <2>1. PICK j \in DOMAIN Plan[agent] : j < i /\ Op(agent, j) = "read" /\ On(agent, j) = On(agent, i)
    BY <1>1, <1>3, PlanShape
  <2>2. i \in Nat /\ j \in Nat /\ step \in Nat
    BY <1>1, <1>0, PlanShape
  <2>3. Ran(j)
    BY <1>3, <2>1, <2>2 DEF Ran
  <2>4. QED
    BY <1>2, <2>1, <2>3
<1>4. ASSUME NEW i \in DOMAIN Plan[agent], Op(agent, i) = "read", pc = "install", i = step
      PROVE  On(agent, i) \notin DOMAIN buf
  <2>1. ASSUME NEW j \in DOMAIN Plan[agent], Ran(j), Op(agent, j) = "read", On(agent, j) = On(agent, i)
        PROVE  FALSE
    <3>1. j = i
      BY <1>1, <1>4, <2>1, PlanShape
    <3>2. j < step
      BY <1>4, <2>1 DEF Ran
    <3>3. QED
      BY <1>0, <1>4, <3>1, <3>2
  <2>2. QED
    BY <1>2, <2>1
<1>5. ASSUME NEW i \in DOMAIN Plan[agent], Ran(i) PROVE On(agent, i) \in DOMAIN buf
  <2>1. CASE Op(agent, i) = "read"
    BY <1>2, <1>5, <2>1
  <2>2. CASE Op(agent, i) # "read"
    <3>1. pc = "install" => i <= step
      <4>1. i \in Nat /\ step \in Nat
        BY <1>0, <1>1, PlanShape
      <4>2. QED
        BY <1>5, <4>1 DEF Ran
    <3>2. QED
      BY <1>3, <2>2, <3>1
  <2>3. QED
    BY <2>1, <2>2
<1>6. ASSUME NEW i \in DOMAIN Plan[agent], pc = "install", i = step
      PROVE  On(agent, i) \in DOMAIN buf <=> Op(agent, i) # "read"
  <2>1. i <= step
    BY <1>1, <1>6, PlanShape
  <2>2. QED
    BY <1>3, <1>4, <1>6, <2>1
<1>7. QED
  BY <1>5, <1>6

LEMMA TypeNext ==
  ASSUME IInv, [Next]_vars
  PROVE  TypeOK'
<1> USE DEF run, history
<1>0. TypeOK /\ PlaceInv /\ ShapeInv /\ ReadInv
  BY DEF IInv
<1>1. CASE NextAgent
  <2>1. Len(queue) \in Nat /\ DOMAIN snap' = {} /\ DOMAIN buf' = {} /\ q' \in 0..Len(queue)
    BY <1>0, <1>1, Basics DEF NextAgent
  <2>2. step' \in 1..5 /\ pc' \in {"capture", "install"}
    BY <1>1 DEF NextAgent
  <2>3. QED
    BY <1>0, <1>1, <2>1, <2>2 DEF NextAgent, TypeOK
<1>2. CASE AllDone
  BY <1>0, <1>2 DEF AllDone, TypeOK
<1>3. CASE Capture
  <2>1. agent \in Agents
    BY <1>0, <1>3, InTurn DEF Capture, Turn
  <2>2. TargetSet(agent) \subseteq Files
    BY <2>1, TargetShape
  <2>3. QED
    BY <1>0, <1>3, <2>1, <2>2 DEF Capture, FailTurn, EndTurn, TypeOK
<1>4. CASE ReadFile
  <2>1. Target \in Files /\ step \in 1..4
    BY <1>0, <1>4, AtPlan, PlanShape DEF ReadFile
  <2>2. DOMAIN buf' \subseteq Files
    BY <1>0, <1>4, <2>1 DEF ReadFile, TypeOK
  <2>3. step' \in 1..5
    BY <1>4, <2>1 DEF ReadFile
  <2>4. QED
    BY <1>0, <1>4, <2>2, <2>3 DEF ReadFile, TypeOK
<1>5. CASE WriteFile
  <2>1. Target \in Files /\ step \in 1..4 /\ Target \in DOMAIN buf
    BY <1>0, <1>5, AtPlan, PlanShape, ReadBefore DEF WriteFile, Begun
  <2>2. Merged(Target) \in File
    BY <1>0, <2>1, MergedFile
  <2>3. fs' \in [Files -> File \cup {Absent}]
    BY <1>0, <1>5, <2>1, <2>2 DEF WriteFile, TypeOK
  <2>4. step' \in 1..5
    BY <1>5, <2>1 DEF WriteFile
  <2>5. wrote' \subseteq Files
    BY <1>0, <1>5, <2>1 DEF WriteFile, TypeOK
  <2>6. QED
    BY <1>0, <1>5, <2>3, <2>4, <2>5 DEF WriteFile, TypeOK
<1>6. CASE RemoveFile
  <2>1. Target \in Files /\ step \in 1..4
    BY <1>0, <1>6, AtPlan, PlanShape DEF RemoveFile
  <2>2. fs' \in [Files -> File \cup {Absent}]
    BY <1>0, <1>6, <2>1 DEF RemoveFile, TypeOK
  <2>3. step' \in 1..5
    BY <1>6, <2>1 DEF RemoveFile
  <2>4. QED
    BY <1>0, <1>6, <2>2, <2>3 DEF RemoveFile, TypeOK
<1>7. CASE InstallFails
  BY <1>0, <1>7 DEF InstallFails, FailTurn, EndTurn, TypeOK
<1>8. CASE InstallDone
  BY <1>0, <1>8 DEF InstallDone, EndTurn, TypeOK
<1>9. CASE VerifyPasses
  BY <1>0, <1>9 DEF VerifyPasses, EndTurn, TypeOK
<1>10. CASE VerifyFails
  <2>1. CASE wrote # {}
    <3>1. step' \in 1..5
      BY <1>10, <2>1 DEF VerifyFails
    <3>2. QED
      BY <1>0, <1>10, <2>1, <3>1 DEF VerifyFails, TypeOK
  <2>2. CASE wrote = {}
    BY <1>0, <1>10, <2>2 DEF VerifyFails, FailTurn, EndTurn, TypeOK
  <2>3. QED
    BY <2>1, <2>2
<1>11. CASE RestoreFile
  <2>1. agent \in Agents /\ step \in 1..2
    <3>1. agent \in Agents /\ step \in 1..5 /\ step <= Len(Targets[agent])
      BY <1>0, <1>11, InTurn DEF RestoreFile, Turn, TypeOK
    <3>2. Len(Targets[agent]) \in 1..2
      BY <3>1, TargetShape
    <3>3. PICK n \in 1..2 : Len(Targets[agent]) = n
      BY <3>2
    <3>4. step <= n
      BY <3>1, <3>3
    <3>5. QED
      BY <3>1, <3>4
  <2>2. Targets[agent][step] \in Files
    BY <1>11, <2>1, TargetShape DEF RestoreFile
  <2>3. Targets[agent][step] \in DOMAIN snap => Restored(Targets[agent][step]) \in File \cup {Absent}
    BY <1>0, RestoredFile
  <2>4. fs' \in [Files -> File \cup {Absent}] /\ stuck' \subseteq Files
    BY <1>0, <1>11, <2>2, <2>3 DEF RestoreFile, TypeOK
  <2>5. step' \in 1..5
    BY <1>11, <2>1 DEF RestoreFile
  <2>6. QED
    BY <1>0, <1>11, <2>4, <2>5 DEF RestoreFile, TypeOK
<1>12. CASE RestoreDone
  BY <1>0, <1>12 DEF RestoreDone, EndTurn, TypeOK
<1>13. CASE \E f \in Files : HostEdits(f)
  <2>1. PICK f \in Files : HostEdits(f)
    BY <1>13
  <2>2. [hook |-> IF fs[f] = Absent THEN "none" ELSE fs[f].hook, user |-> fs[f].user + 1,
         mode |-> "host"] \in File
    <3>1. fs[f] \in File \cup {Absent}
      BY <1>0 DEF TypeOK
    <3>2. QED
      BY <3>1 DEF File, Absent, Hooks
  <2>3. QED
    BY <1>0, <2>1, <2>2 DEF HostEdits, TypeOK
<1>14. CASE Crash
  BY <1>0, <1>14 DEF Crash, TypeOK
<1>15. CASE Rerun
  <2>1. scene.runs \in Nat
    BY <1>0, Basics
  <2>2. queue' \in scene.queues /\ scene \in Scenarios
    BY <1>0, <1>15 DEF Rerun, Begin, TypeOK
  <2>3. Len(queue') \in Nat
    <3>1. queue' \in Seq(Agents)
      BY <2>2, InitAssumption
    <3>2. QED
      BY <3>1
  <2>4. q' \in 0..Len(queue') /\ runs' \in 1..scene'.runs
    <3>1. q' = 0 /\ runs \in 1..scene.runs /\ runs < scene.runs /\ runs' = runs + 1
          /\ scene' = scene
      BY <1>0, <1>15 DEF Rerun, Begin, TypeOK
    <3>2. QED
      BY <2>1, <2>3, <3>1
  <2>5. result' \in [Agents -> {"none", "ok", "error", "failed", "rolled back", "rollback failed"}]
        /\ step' \in 1..5 /\ exit' \in {0, 1} /\ pc' = "next" /\ earlier' \subseteq Agents
        /\ wrote' = {} /\ stuck' = {} /\ touched' = {} /\ DOMAIN snap' = {} /\ DOMAIN buf' = {}
    BY <1>15 DEF Rerun, Begin
  <2>6. QED
    BY <1>0, <1>15, <2>2, <2>4, <2>5 DEF Rerun, Begin, TypeOK
<1>16. CASE UNCHANGED vars
  BY <1>0, <1>16 DEF vars, TypeOK
<1>17. QED
  BY <1>1, <1>2, <1>3, <1>4, <1>5, <1>6, <1>7, <1>8, <1>9, <1>10, <1>11, <1>12, <1>13,
     <1>14, <1>15, <1>16 DEF Next, Install

LEMMA NewAgent ==
  ASSUME TypeOK, NextAgent
  PROVE  q' \in DOMAIN queue /\ q' = q + 1 /\ q' > 0 /\ queue' = queue /\ agent' \in Agents
<1>1. queue' = queue /\ q' = q + 1 /\ q \in 0..Len(queue) /\ q < Len(queue)
  BY DEF NextAgent, TypeOK
<1>2. Len(queue) \in Nat /\ DOMAIN queue = 1..Len(queue) /\ queue \in Seq(Agents)
  BY Basics
<1>3. q' \in DOMAIN queue /\ q' > 0
  BY <1>1, <1>2
<1>4. QED
  BY <1>1, <1>2, <1>3 DEF agent

LEMMA SameAgent ==
  ASSUME UNCHANGED run
  PROVE  agent' = agent /\ queue' = queue /\ q' = q /\ options' = options /\ scene' = scene
  BY DEF run, agent

\* A step of the plan joins those that are behind.
LEMMA StepRan ==
  ASSUME TypeOK, PlaceInv, NEW op, AtStep(op), UNCHANGED run, pc' = pc, step' = step + 1
  PROVE  /\ agent' = agent
         /\ \A j \in DOMAIN Plan[agent] : Ran(j)' <=> (Ran(j) \/ j = step)
<1>1. agent' = agent /\ pc = "install" /\ step \in Nat /\ agent \in Agents
  BY SameAgent, AtPlan
<1>2. ASSUME NEW j \in DOMAIN Plan[agent] PROVE Ran(j)' <=> (Ran(j) \/ j = step)
  <2>1. j \in Nat
    BY <1>1, PlanShape
  <2>2. j < step + 1 <=> (j < step \/ j = step)
    BY <1>1, <2>1
  <2>3. QED
    BY <1>1, <2>2 DEF Ran
<1>3. QED
  BY <1>1, <1>2

LEMMA PlaceNext ==
  ASSUME IInv, [Next]_vars
  PROVE  PlaceInv'
<1>0. TypeOK /\ PlaceInv
  BY DEF IInv
<1>1. CASE NextAgent
  <2>1. q' > 0 /\ agent' \in Agents
    BY <1>0, <1>1, NewAgent
  <2>2. Len(Plan[agent']) \in 2..4
    BY <2>1, PlanShape
  <2>3. step' <= Len(Plan[agent']) + 1
    <3>1. PICK n \in 2..4 : Len(Plan[agent']) = n
      BY <2>2
    <3>2. 1 <= n + 1 /\ step' = 1
      BY <1>1, <3>1 DEF NextAgent
    <3>3. QED
      BY <3>1, <3>2
  <2>4. QED
    BY <1>1, <2>1, <2>3 DEF NextAgent, PlaceInv
<1>2. CASE AllDone
  BY <1>0, <1>2 DEF AllDone, PlaceInv, Turn, run
<1>3. CASE Capture
  <2>1. UNCHANGED run /\ step' = step /\ q' = q /\ options' = options /\ pc = "capture" /\ step = 1
        /\ pc' \in {"install", "next"}
    BY <1>0, <1>3 DEF Capture, FailTurn, EndTurn, PlaceInv, run
  <2>2. agent' = agent /\ agent \in Agents /\ q > 0
    BY <1>0, <2>1, SameAgent, InTurn DEF Turn
  <2>3. PICK n \in 2..4 : Len(Plan[agent]) = n
    BY <2>2, PlanShape
  <2>4. step' <= Len(Plan[agent']) + 1
    <3>1. 1 <= n + 1
      BY <2>3
    <3>2. QED
      BY <2>1, <2>2, <2>3, <3>1
  <2>5. QED
    BY <2>1, <2>2, <2>4 DEF PlaceInv
<1>4. ASSUME NEW op, AtStep(op), UNCHANGED run, pc' = pc, step' = step + 1
      PROVE  PlaceInv'
  <2>1. agent' = agent /\ pc = "install" /\ step \in Nat /\ step \in DOMAIN Plan[agent]
        /\ agent \in Agents /\ q' = q /\ q > 0
    BY <1>0, <1>4, SameAgent, AtPlan, InTurn DEF Turn
  <2>2. PICK n \in 2..4 : Len(Plan[agent]) = n /\ DOMAIN Plan[agent] = 1..n
    BY <2>1, PlanShape
  <2>3. step + 1 <= n + 1
    BY <2>1, <2>2
  <2>4. QED
    BY <1>4, <2>1, <2>2, <2>3 DEF PlaceInv
<1>5. CASE ReadFile
  BY <1>4, <1>5 DEF ReadFile
<1>6. CASE WriteFile
  BY <1>4, <1>6 DEF WriteFile
<1>7. CASE RemoveFile
  BY <1>4, <1>7 DEF RemoveFile
<1>8. ASSUME pc' = "next" PROVE PlaceInv'
  BY <1>8 DEF PlaceInv, Turn
<1>9. CASE InstallFails
  BY <1>8, <1>9 DEF InstallFails, FailTurn, EndTurn
<1>10. CASE InstallDone
  <2>1. CASE options.verify
    BY <1>0, <1>10, <2>1 DEF InstallDone, PlaceInv, Turn, run
  <2>2. CASE ~options.verify
    BY <1>8, <1>10, <2>2 DEF InstallDone, EndTurn
  <2>3. QED
    BY <2>1, <2>2
<1>11. CASE VerifyPasses
  BY <1>8, <1>11 DEF VerifyPasses, EndTurn
<1>12. CASE VerifyFails
  <2>1. CASE wrote # {}
    <3>1. UNCHANGED run /\ step' = 1 /\ pc' = "restore" /\ pc = "verify"
      BY <1>12, <2>1 DEF VerifyFails
    <3>2. agent' = agent /\ agent \in Agents /\ q > 0 /\ q' = q /\ options' = options /\ options.verify
      BY <1>0, <3>1, SameAgent, InTurn DEF Turn, PlaceInv
    <3>3. PICK n \in 1..2 : Len(Targets[agent]) = n
      BY <3>2, TargetShape
    <3>4. 1 <= n + 1
      BY <3>3
    <3>5. QED
      BY <3>1, <3>2, <3>3, <3>4 DEF PlaceInv
  <2>2. CASE wrote = {}
    BY <1>8, <1>12, <2>2 DEF VerifyFails, FailTurn, EndTurn
  <2>3. QED
    BY <2>1, <2>2
<1>13. CASE RestoreFile
  <2>1. UNCHANGED run /\ step' = step + 1 /\ pc' = pc /\ pc = "restore" /\ step <= Len(Targets[agent])
    BY <1>13 DEF RestoreFile
  <2>2. agent' = agent /\ agent \in Agents /\ q > 0 /\ q' = q /\ options' = options /\ options.verify
        /\ step \in 1..5
    BY <1>0, <2>1, SameAgent, InTurn DEF Turn, PlaceInv, TypeOK
  <2>3. PICK n \in 1..2 : Len(Targets[agent]) = n
    BY <2>2, TargetShape
  <2>4. step + 1 <= n + 1
    BY <2>1, <2>2, <2>3
  <2>5. QED
    BY <2>1, <2>2, <2>3, <2>4 DEF PlaceInv
<1>14. CASE RestoreDone
  BY <1>8, <1>14 DEF RestoreDone, EndTurn
<1>15. ASSUME UNCHANGED <<run, pc, step>> PROVE PlaceInv'
  <2>1. agent' = agent
    BY <1>15, SameAgent
  <2>2. QED
    BY <1>0, <1>15, <2>1 DEF PlaceInv, run
<1>16. CASE \E f \in Files : HostEdits(f)
  BY <1>15, <1>16 DEF HostEdits
<1>17. CASE Crash
  BY <1>17 DEF Crash, PlaceInv, Turn
<1>18. CASE Rerun
  BY <1>8, <1>18 DEF Rerun, Begin
<1>19. CASE UNCHANGED vars
  BY <1>15, <1>19 DEF vars
<1>20. QED
  BY <1>1, <1>2, <1>3, <1>5, <1>6, <1>7, <1>9, <1>10, <1>11, <1>12, <1>13, <1>14, <1>16,
     <1>17, <1>18, <1>19 DEF Next, Install

LEMMA ShapeNext ==
  ASSUME IInv, [Next]_vars
  PROVE  ShapeInv'
<1>0. TypeOK /\ PlaceInv /\ ShapeInv /\ ReadInv
  BY DEF IInv
<1>a. \A f \in Files : /\ fs[f] \in File \cup {Absent}
                       /\ Content(fs[f]) \in Contents /\ Counted(Content(fs[f]))
  <2>1. \A f \in Files : fs[f] \in File \cup {Absent}
    BY <1>0 DEF TypeOK
  <2>2. QED
    BY <2>1, KeptNat
<1>b. \A f \in Managed : fs[f].hook # "bad" /\ fs[f].user = 0
  BY <1>0 DEF ShapeInv
<1>1. CASE snap' = <<>> /\ buf' = <<>> /\ fs' = fs /\ start' = fs
  BY <1>1, <1>b DEF ShapeInv
<1>2. CASE NextAgent
  BY <1>1, <1>2 DEF NextAgent
<1>3. CASE Rerun
  BY <1>1, <1>3 DEF Rerun, Begin
<1>4. ASSUME UNCHANGED <<snap, buf, fs, start>> PROVE ShapeInv'
  BY <1>0, <1>4 DEF ShapeInv
<1>5. CASE \/ AllDone \/ InstallFails \/ InstallDone \/ VerifyPasses \/ VerifyFails
           \/ RestoreDone \/ Crash \/ UNCHANGED vars
  BY <1>4, <1>5 DEF AllDone, InstallFails, InstallDone, VerifyPasses, VerifyFails,
     RestoreDone, Crash, vars, history
<1>6. CASE Capture
  <2>1. UNCHANGED <<fs, start, buf>> /\ pc = "capture"
    BY <1>6 DEF Capture, history
  <2>2. agent \in Agents
    BY <1>0, <2>1, InTurn DEF Turn
  <2>3. TargetSet(agent) \subseteq Files
    BY <2>2, TargetShape
  <2>4. \/ snap' = snap
        \/ snap' = [f \in TargetSet(agent) |-> Content(fs[f])]
    BY <1>6 DEF Capture
  <2>5. /\ snap' \in [DOMAIN snap' -> Contents]
        /\ \A f \in DOMAIN snap' : Counted(snap'[f])
    <3>1. CASE snap' = snap
      BY <1>0, <3>1 DEF ShapeInv
    <3>2. CASE snap' = [f \in TargetSet(agent) |-> Content(fs[f])]
      BY <1>a, <2>3, <3>2
    <3>3. QED
      BY <2>4, <3>1, <3>2
  <2>6. QED
    BY <1>0, <2>1, <2>5 DEF ShapeInv
<1>7. CASE ReadFile
  <2>1. UNCHANGED <<fs, start, snap>> /\ Target \in Files
        /\ buf' = [f \in DOMAIN buf \cup {Target} |-> IF f = Target THEN fs[f] ELSE buf[f]]
    BY <1>0, <1>7, AtPlan DEF ReadFile, history
  <2>2. buf' \in [DOMAIN buf' -> File \cup {Absent}]
    <3>1. buf \in [DOMAIN buf -> File \cup {Absent}]
      BY <1>0 DEF ShapeInv
    <3>2. QED
      BY <1>a, <2>1, <3>1
  <2>3. QED
    BY <1>0, <2>1, <2>2 DEF ShapeInv
<1>8. ASSUME UNCHANGED <<snap, buf>>, NEW T \in Files, NEW v,
             fs' = fs \/ fs' = [fs EXCEPT ![T] = v],
             T \in Managed => v.hook # "bad" /\ v.user = 0,
             \A f \in Managed : start'[f] = start[f]
      PROVE  ShapeInv'
  <2>1. fs \in [Files -> File \cup {Absent}] /\ Managed \subseteq Files
    BY <1>0 DEF TypeOK, Managed, Files
  <2>2. \A f \in Managed : fs'[f].hook # "bad" /\ fs'[f].user = 0
    BY <1>b, <1>8, <2>1
  <2>3. QED
    BY <1>0, <1>8, <2>2 DEF ShapeInv
<1>9. CASE WriteFile
  <2>1. Target \in Files /\ Target \in DOMAIN buf
    BY <1>0, <1>9, AtPlan, ReadBefore DEF WriteFile, Begun
  <2>2. Merged(Target).hook = "ours" /\ Merged(Target).user = Kept(buf[Target])
    BY <1>0, <2>1, MergedFile
  <2>3. Target \in Managed => Kept(buf[Target]) = 0
    <3>1. ContentInv
      BY DEF IInv
    <3>2. Target \in Managed => buf[Target].user = 0
      BY <1>0, <2>1, <3>1 DEF ContentInv, ShapeInv
    <3>3. buf[Target] \in File \cup {Absent}
      BY <1>0, <2>1 DEF ShapeInv
    <3>4. QED
      BY <3>2, <3>3, KeptNat
  <2>4. QED
    BY <1>8, <1>9, <2>1, <2>2, <2>3 DEF WriteFile, history
<1>10. CASE RemoveFile
  <2>1. Target \in Files
    BY <1>0, <1>10, AtPlan DEF RemoveFile
  <2>2. Absent.hook # "bad" /\ Absent.user = 0
    BY DEF Absent
  <2>3. QED
    BY <1>8, <1>10, <2>1, <2>2 DEF RemoveFile, history
<1>11. CASE RestoreFile
  <2>1. pc = "restore" /\ options.verify /\ agent \in Agents
    BY <1>0, <1>11, InTurn DEF RestoreFile, PlaceInv, Turn
  <2>2. DOMAIN snap \subseteq Files
    BY <1>0 DEF TypeOK
  <2>3. PICK f \in {Targets[agent][step]} :
          fs' = fs \/ (f \in DOMAIN snap /\ fs' = [fs EXCEPT ![f] = Restored(f)])
    BY <1>11 DEF RestoreFile
  <2>4. CASE fs' = fs
    BY <1>4, <1>11, <2>4 DEF RestoreFile, history
  <2>5. CASE f \in DOMAIN snap /\ fs' = [fs EXCEPT ![f] = Restored(f)]
    <3>1. Content(Restored(f)) = snap[f]
      BY <1>0, <2>5, RestoredFile
    <3>2. f \in Managed => snap[f] = Content(start[f])
      <4>1. ContentInv
        BY DEF IInv
      <4>2. QED
        BY <2>5, <4>1 DEF ContentInv
    <3>3. f \in Managed => Restored(f).hook # "bad" /\ Restored(f).user = 0
      BY <1>0, <3>1, <3>2 DEF ShapeInv, Content
    <3>4. QED
      BY <1>8, <1>11, <2>2, <2>5, <3>3 DEF RestoreFile, history
  <2>6. QED
    BY <2>3, <2>4, <2>5
<1>12. CASE \E f \in Files : HostEdits(f)
  <2>1. PICK f \in Files : HostEdits(f)
    BY <1>12
  <2>2. \A g \in Managed : start'[g] = start[g]
    <3>1. f \notin Managed /\ (start' = start \/ start' = [start EXCEPT ![f] = fs'[f]])
      BY <2>1 DEF HostEdits
    <3>2. start \in [Files -> File \cup {Absent}] /\ Managed \subseteq Files
      BY <1>0 DEF TypeOK, Managed, Files
    <3>3. QED
      BY <3>1, <3>2
  <2>3. QED
    BY <1>8, <2>1, <2>2 DEF HostEdits
<1>13. QED
  BY <1>2, <1>3, <1>5, <1>6, <1>7, <1>9, <1>10, <1>11, <1>12 DEF Next, Install

\* The agent of one turn is that of no other.
LEMMA TurnReport ==
  ASSUME IInv, pc \in Turn, UNCHANGED run, NEW r, EndTurn(r), r # "none",
         \/ r = "ok" /\ exit' = exit /\ pc # "restore"
         \/ r # "ok" /\ exit' = 1
  PROVE  ReportInv'
<1>0. TypeOK /\ PlaceInv /\ ReportInv
  BY DEF IInv
<1>1. /\ queue' = queue /\ q' = q /\ agent \in Agents /\ q \in DOMAIN queue /\ pc' = "next"
      /\ result' = [result EXCEPT ![agent] = r]
  BY <1>0, SameAgent, InTurn DEF EndTurn
<1>2. result \in [Agents -> {"none", "ok", "error", "failed", "rolled back", "rollback failed"}]
  BY <1>0 DEF TypeOK
<1>3. /\ queue \in Seq(Agents) /\ \A i, j \in DOMAIN queue : queue[i] = queue[j] => i = j
      /\ DOMAIN queue = 1..Len(queue) /\ Len(queue) \in Nat
  BY <1>0, Basics
<1>4. \A i \in DOMAIN queue : result'[queue[i]] = IF i = q THEN r ELSE result[queue[i]]
  <2>1. \A i \in DOMAIN queue : queue[i] \in Agents
    BY <1>3
  <2>2. QED
    BY <1>1, <1>2, <1>3, <2>1 DEF agent
<1>5. \A i \in DOMAIN queue : Over(i)' <=> (Over(i) \/ i = q)
  BY <1>1, <1>3 DEF Over, Turn
<1>6. \A i \in DOMAIN queue : result'[queue'[i]] # "none" => Over(i)'
  BY <1>0, <1>1, <1>4, <1>5 DEF ReportInv
<1>7. exit' = 0 <=> \A i \in DOMAIN queue : Over(i)' => result'[queue[i]] = "ok"
  <2>1. CASE r = "ok" /\ exit' = exit /\ pc # "restore"
    <3>1. pc \notin {"restore", "crashed"}
      BY <2>1 DEF Turn
    <3>2. exit = 0 <=> \A i \in DOMAIN queue : Over(i) => result[queue[i]] = "ok"
      BY <1>0, <3>1 DEF ReportInv
    <3>3. ~Over(q)
      BY DEF Over
    <3>4. QED
      BY <1>4, <1>5, <2>1, <3>2, <3>3
  <2>2. CASE r # "ok" /\ exit' = 1
    BY <1>1, <1>4, <1>5, <2>2
  <2>3. QED
    BY <2>1, <2>2
<1>8. QED
  BY <1>1, <1>6, <1>7 DEF ReportInv

LEMMA ReportNext ==
  ASSUME IInv, [Next]_vars
  PROVE  ReportInv'
<1>0. TypeOK /\ PlaceInv /\ ReportInv
  BY DEF IInv
<1>a. DOMAIN queue = 1..Len(queue) /\ Len(queue) \in Nat /\ q \in 0..Len(queue) /\ q \in Nat
  BY <1>0, Basics
<1>1. ASSUME UNCHANGED <<queue, result, exit>>, \A i \in DOMAIN queue : Over(i)' <=> Over(i),
             pc' \notin {"restore", "crashed"}, pc \notin {"restore", "crashed"}
      PROVE  ReportInv'
  BY <1>0, <1>1 DEF ReportInv
<1>2. ASSUME UNCHANGED <<queue, q, result, exit, pc>> PROVE ReportInv'
  BY <1>0, <1>2 DEF ReportInv, Over
<1>3. CASE NextAgent
  <2>1. /\ queue' = queue /\ q' = q + 1 /\ pc = "next" /\ pc' \in {"capture", "install"}
        /\ result' = result /\ exit' = exit
    BY <1>3 DEF NextAgent
  <2>2. \A i \in DOMAIN queue : Over(i)' <=> Over(i)
    BY <1>a, <2>1 DEF Over, Turn
  <2>3. QED
    BY <1>1, <2>1, <2>2
<1>4. CASE AllDone
  <2>1. /\ queue' = queue /\ q' = q /\ pc = "next" /\ pc' = "done" /\ result' = result /\ exit' = exit
    BY <1>4 DEF AllDone, run
  <2>2. \A i \in DOMAIN queue : Over(i)' <=> Over(i)
    BY <2>1 DEF Over, Turn
  <2>3. QED
    BY <1>1, <2>1, <2>2
<1>5. CASE Capture
  <2>1. CASE pc' = "install" /\ UNCHANGED <<result, exit>>
    <3>1. queue' = queue /\ q' = q /\ pc = "capture"
      BY <1>5 DEF Capture, run
    <3>2. \A i \in DOMAIN queue : Over(i)' <=> Over(i)
      BY <2>1, <3>1 DEF Over, Turn
    <3>3. QED
      BY <1>1, <2>1, <3>1, <3>2
  <2>2. CASE FailTurn("error")
    BY <1>5, <2>2, TurnReport DEF Capture, FailTurn, Turn
  <2>3. QED
    BY <1>5, <2>1, <2>2 DEF Capture
<1>6. CASE ReadFile
  BY <1>2, <1>6 DEF ReadFile, run
<1>7. CASE WriteFile
  BY <1>2, <1>7 DEF WriteFile, run
<1>8. CASE RemoveFile
  BY <1>2, <1>8 DEF RemoveFile, run
<1>9. CASE InstallFails
  BY <1>9, TurnReport DEF InstallFails, FailTurn, Turn
<1>10. CASE InstallDone
  <2>1. CASE options.verify
    <3>1. /\ queue' = queue /\ q' = q /\ pc = "install" /\ pc' = "verify"
          /\ result' = result /\ exit' = exit
      BY <1>10, <2>1 DEF InstallDone, run
    <3>2. \A i \in DOMAIN queue : Over(i)' <=> Over(i)
      BY <3>1 DEF Over, Turn
    <3>3. QED
      BY <1>1, <3>1, <3>2
  <2>2. CASE ~options.verify
    BY <1>10, <2>2, TurnReport DEF InstallDone, Turn
  <2>3. QED
    BY <2>1, <2>2
<1>11. CASE VerifyPasses
  BY <1>11, TurnReport DEF VerifyPasses, Turn
<1>12. CASE VerifyFails
  <2>1. CASE wrote # {}
    <3>1. /\ queue' = queue /\ q' = q /\ pc = "verify" /\ pc' = "restore"
          /\ result' = result /\ exit' = 1
      BY <1>12, <2>1 DEF VerifyFails, run
    <3>2. \A i \in DOMAIN queue : Over(i)' <=> Over(i)
      BY <3>1 DEF Over, Turn
    <3>3. QED
      BY <1>0, <3>1, <3>2 DEF ReportInv
  <2>2. CASE wrote = {}
    BY <1>12, <2>2, TurnReport DEF VerifyFails, FailTurn, Turn
  <2>3. QED
    BY <2>1, <2>2
<1>13. CASE RestoreFile
  BY <1>2, <1>13 DEF RestoreFile, run
<1>14. CASE RestoreDone
  <2>1. pc = "restore" /\ exit' = exit /\ exit = 1 /\ UNCHANGED run
    BY <1>0, <1>14 DEF RestoreDone, ReportInv
  <2>2. PICK r \in {"rolled back", "rollback failed"} : EndTurn(r)
    BY <1>14 DEF RestoreDone
  <2>3. QED
    BY <2>1, <2>2, TurnReport DEF Turn
<1>15. CASE \E f \in Files : HostEdits(f)
  BY <1>2, <1>15 DEF HostEdits, run
<1>16. CASE Crash
  <2>1. queue' = queue /\ q' = q /\ pc' = "crashed" /\ result' = result
    BY <1>16 DEF Crash, run
  <2>2. \A i \in DOMAIN queue : Over(i) => Over(i)'
    BY <2>1 DEF Over, Turn
  <2>3. QED
    BY <1>0, <2>1, <2>2 DEF ReportInv
<1>17. CASE Rerun
  <2>1. /\ q' = 0 /\ pc' = "next" /\ exit' = 0 /\ result' = [a \in Agents |-> "none"]
        /\ queue' \in scene.queues /\ scene \in Scenarios
    BY <1>0, <1>17 DEF Rerun, Begin, TypeOK
  <2>2. queue' \in Seq(Agents)
    BY <2>1, InitAssumption
  <2>3. \A i \in DOMAIN queue' : result'[queue'[i]] = "none"
    BY <2>1, <2>2
  <2>4. \A i \in DOMAIN queue' : ~Over(i)'
    BY <2>1 DEF Over
  <2>5. QED
    BY <2>1, <2>3, <2>4 DEF ReportInv
<1>18. CASE UNCHANGED vars
  BY <1>2, <1>18 DEF vars, run
<1>19. QED
  BY <1>3, <1>4, <1>5, <1>6, <1>7, <1>8, <1>9, <1>10, <1>11, <1>12, <1>13, <1>14, <1>15,
     <1>16, <1>17, <1>18 DEF Next, Install

LEMMA ReadNext ==
  ASSUME IInv, [Next]_vars
  PROVE  ReadInv'
<1>0. TypeOK /\ PlaceInv /\ ReadInv
  BY DEF IInv
<1>a. \A f \in DOMAIN buf : buf[f].hook # "bad" /\ (f \in Managed \ {"legacy"} => buf[f].hook # "none")
  BY <1>0 DEF ReadInv
<1>1. ASSUME pc' \in {"next", "done", "crashed"}, buf' = buf \/ buf' = <<>> PROVE ReadInv'
  BY <1>1, <1>a DEF ReadInv, Begun
<1>2. CASE NextAgent
  <2>1. /\ DOMAIN buf' = {} /\ step' = 1 /\ agent' \in Agents
        /\ pc' = IF options'.verify THEN "capture" ELSE "install"
    BY <1>0, <1>2, NewAgent DEF NextAgent
  <2>2. \A j \in DOMAIN Plan[agent'] : pc' = "install" => ~Ran(j)'
    <3>1. ASSUME NEW j \in DOMAIN Plan[agent'], pc' = "install", Ran(j)' PROVE FALSE
      <4>1. j \in Nat /\ j >= 1
        BY <2>1, PlanShape
      <4>2. j < 1
        BY <2>1, <3>1 DEF Ran
      <4>3. QED
        BY <4>1, <4>2
    <3>2. QED
      BY <3>1
  <2>3. QED
    BY <2>1, <2>2 DEF ReadInv, Begun
<1>3. CASE AllDone
  BY <1>1, <1>3 DEF AllDone
<1>4. CASE Capture
  <2>1. CASE pc' = "install" /\ snap' = [f \in TargetSet(agent) |-> Content(fs[f])]
    <3>1. UNCHANGED run /\ pc = "capture" /\ buf' = buf /\ step' = 1 /\ DOMAIN buf = {}
          /\ agent' = agent /\ agent \in Agents
      BY <1>0, <1>4, <2>1, SameAgent, InTurn DEF Capture, PlaceInv, ReadInv, Turn
    <3>2. \A j \in DOMAIN Plan[agent] : ~Ran(j)'
      <4>1. ASSUME NEW j \in DOMAIN Plan[agent], Ran(j)' PROVE FALSE
        <5>1. j \in Nat /\ j >= 1
          BY <3>1, PlanShape
        <5>2. j < 1
          BY <2>1, <3>1, <4>1 DEF Ran
        <5>3. QED
          BY <5>1, <5>2
      <4>2. QED
        BY <4>1
    <3>3. DOMAIN snap' = TargetSet(agent')
      BY <2>1, <3>1
    <3>4. QED
      BY <2>1, <3>1, <3>2, <3>3 DEF ReadInv, Begun
  <2>2. CASE FailTurn("error")
    BY <1>1, <1>4, <2>2 DEF Capture, FailTurn, EndTurn
  <2>3. QED
    BY <1>4, <2>1, <2>2 DEF Capture
<1>5. CASE ReadFile
  <2>1. /\ UNCHANGED run /\ pc' = pc /\ pc = "install" /\ snap' = snap /\ step' = step + 1
        /\ AtStep("read") /\ ~Refused(Target)
        /\ buf' = [f \in DOMAIN buf \cup {Target} |-> IF f = Target THEN fs[f] ELSE buf[f]]
    BY <1>5 DEF ReadFile, AtStep
  <2>2. /\ agent' = agent /\ options' = options /\ Op(agent, step) = "read" /\ On(agent, step) = Target
        /\ step \in DOMAIN Plan[agent]
        /\ \A j \in DOMAIN Plan[agent] : Ran(j)' <=> (Ran(j) \/ j = step)
    BY <1>0, <2>1, AtPlan, StepRan, SameAgent
  <2>3. DOMAIN buf = {On(agent, i) : i \in {j \in DOMAIN Plan[agent] : Ran(j) /\ Op(agent, j) = "read"}}
    BY <1>0, <2>1 DEF ReadInv, Begun
  <2>4. DOMAIN buf' = {On(agent, i) : i \in {j \in DOMAIN Plan[agent] : Ran(j)' /\ Op(agent, j) = "read"}}
    BY <2>1, <2>2, <2>3
  <2>5. options'.verify => DOMAIN snap' = TargetSet(agent')
    BY <1>0, <2>1, <2>2 DEF ReadInv, Begun
  <2>6. \A f \in DOMAIN buf' : /\ buf'[f].hook # "bad"
                               /\ f \in Managed \ {"legacy"} => buf'[f].hook # "none"
    BY <1>a, <2>1 DEF Refused
  <2>7. QED
    BY <2>1, <2>2, <2>4, <2>5, <2>6 DEF ReadInv
<1>6. ASSUME NEW op, AtStep(op), op # "read", UNCHANGED run, UNCHANGED <<pc, buf, snap>>, step' = step + 1
      PROVE  ReadInv'
  <2>1. /\ agent' = agent /\ options' = options /\ Op(agent, step) # "read" /\ pc = "install"
        /\ \A j \in DOMAIN Plan[agent] : Ran(j)' <=> (Ran(j) \/ j = step)
    BY <1>0, <1>6, AtPlan, StepRan, SameAgent
  <2>2. DOMAIN buf = {On(agent, i) : i \in {j \in DOMAIN Plan[agent] : Ran(j) /\ Op(agent, j) = "read"}}
    BY <1>0, <2>1 DEF ReadInv, Begun
  <2>3. DOMAIN buf' = {On(agent, i) : i \in {j \in DOMAIN Plan[agent] : Ran(j)' /\ Op(agent, j) = "read"}}
    BY <1>6, <2>1, <2>2
  <2>4. options'.verify => DOMAIN snap' = TargetSet(agent')
    BY <1>0, <1>6, <2>1 DEF ReadInv, Begun
  <2>5. QED
    BY <1>a, <1>6, <2>1, <2>3, <2>4 DEF ReadInv
<1>7. CASE WriteFile
  BY <1>6, <1>7 DEF WriteFile
<1>8. CASE RemoveFile
  BY <1>6, <1>8 DEF RemoveFile
<1>9. CASE InstallFails
  BY <1>1, <1>9 DEF InstallFails, FailTurn, EndTurn
<1>10. ASSUME pc \in {"install", "verify", "restore"}, pc' \in {"verify", "restore"}, UNCHANGED run,
              UNCHANGED <<buf, snap>>, pc = "install" => step > Len(Plan[agent])
       PROVE  ReadInv'
  <2>1. agent' = agent /\ options' = options /\ agent \in Agents
    BY <1>0, <1>10, SameAgent, InTurn DEF Turn
  <2>2. \A j \in DOMAIN Plan[agent] : Ran(j)' <=> Ran(j)
    <3>1. ASSUME NEW j \in DOMAIN Plan[agent], pc = "install" PROVE j < step
      <4>1. PICK n \in 2..4 : Len(Plan[agent]) = n /\ DOMAIN Plan[agent] = 1..n
        BY <2>1, PlanShape
      <4>2. step \in 1..5
        BY <1>0 DEF TypeOK
      <4>3. QED
        BY <1>10, <3>1, <4>1, <4>2
    <3>2. QED
      BY <1>10, <2>1, <3>1 DEF Ran
  <2>3. DOMAIN buf = {On(agent, i) : i \in {j \in DOMAIN Plan[agent] : Ran(j) /\ Op(agent, j) = "read"}}
        /\ (options.verify => DOMAIN snap = TargetSet(agent))
    BY <1>0, <1>10 DEF ReadInv, Begun
  <2>4. DOMAIN buf' = {On(agent, i) : i \in {j \in DOMAIN Plan[agent] : Ran(j)' /\ Op(agent, j) = "read"}}
    BY <1>10, <2>2, <2>3
  <2>5. QED
    BY <1>a, <1>10, <2>1, <2>3, <2>4 DEF ReadInv
<1>11. CASE InstallDone
  <2>1. CASE options.verify
    BY <1>10, <1>11, <2>1 DEF InstallDone
  <2>2. CASE ~options.verify
    BY <1>1, <1>11, <2>2 DEF InstallDone, EndTurn
  <2>3. QED
    BY <2>1, <2>2
<1>12. CASE VerifyPasses
  BY <1>1, <1>12 DEF VerifyPasses, EndTurn
<1>13. CASE VerifyFails
  <2>1. CASE wrote # {}
    BY <1>10, <1>13, <2>1 DEF VerifyFails
  <2>2. CASE wrote = {}
    BY <1>1, <1>13, <2>2 DEF VerifyFails, FailTurn, EndTurn
  <2>3. QED
    BY <2>1, <2>2
<1>14. CASE RestoreFile
  BY <1>10, <1>14 DEF RestoreFile
<1>15. CASE RestoreDone
  BY <1>1, <1>15 DEF RestoreDone, EndTurn
<1>16. ASSUME UNCHANGED <<run, pc, step, buf, snap>> PROVE ReadInv'
  <2>1. agent' = agent /\ options' = options
    BY <1>16, SameAgent
  <2>2. QED
    BY <1>0, <1>16, <2>1 DEF ReadInv, Ran, Begun
<1>17. CASE \E f \in Files : HostEdits(f)
  BY <1>16, <1>17 DEF HostEdits
<1>18. CASE Crash
  BY <1>1, <1>18 DEF Crash
<1>19. CASE Rerun
  BY <1>1, <1>19 DEF Rerun, Begin
<1>20. CASE UNCHANGED vars
  BY <1>16, <1>20 DEF vars
<1>21. QED
  BY <1>2, <1>3, <1>4, <1>5, <1>7, <1>8, <1>9, <1>11, <1>12, <1>13, <1>14, <1>15, <1>17,
     <1>18, <1>19, <1>20 DEF Next, Install

\* Once the plan is behind, it has read every file of the agent.
LEMMA AllRead ==
  ASSUME TypeOK, PlaceInv, ReadInv, pc \in {"verify", "restore"}
  PROVE  TargetSet(agent) \subseteq DOMAIN buf /\ DOMAIN snap = TargetSet(agent)
<1>1. agent \in Agents /\ options.verify
  BY InTurn DEF Turn, PlaceInv
<1>2. \A i \in DOMAIN Plan[agent] : On(agent, i) \in DOMAIN buf
  BY ReadBefore DEF Begun, Ran
<1>3. QED
  BY <1>1, <1>2, PlanShape DEF ReadInv, Begun

LEMMA ContentNext ==
  ASSUME IInv, [Next]_vars
  PROVE  ContentInv'
<1>0. TypeOK /\ PlaceInv /\ ShapeInv /\ ReadInv /\ ContentInv
  BY DEF IInv
<1>a. fs \in [Files -> File \cup {Absent}] /\ start \in [Files -> File \cup {Absent}]
      /\ Managed \subseteq Files
  BY <1>0 DEF TypeOK, Managed, Files
<1>b. \A f \in Files : Kept(fs[f]) \in Nat /\ Kept(start[f]) \in Nat
                       /\ Kept(Content(fs[f])) = Kept(fs[f])
  BY <1>a, KeptNat
<1>c. /\ \A f \in Files : Kept(fs[f]) >= Kept(start[f])
      /\ \A f \in Managed : start[f].hook = "none" => Content(fs[f]) = Content(start[f])
  BY <1>0 DEF ContentInv, HostContentKept
<1>d. /\ \A f \in DOMAIN buf : Kept(buf[f]) >= Kept(start[f]) /\ (f \in Managed => buf[f] = start[f])
      /\ \A f \in DOMAIN snap :
           /\ Kept(snap[f]) >= Kept(start[f])
           /\ (f \in Managed \/ f \notin touched) => snap[f] = Content(start[f])
      /\ \A f \in Managed \ DOMAIN buf : fs[f] = start[f]
  BY <1>0 DEF ContentInv
<1>1. CASE snap' = <<>> /\ buf' = <<>> /\ fs' = fs /\ start' = fs
  <2>1. \A f \in Files : Kept(fs'[f]) >= Kept(start'[f])
    BY <1>1, <1>b
  <2>2. \A f \in Managed : fs'[f] = start'[f]
    BY <1>1
  <2>3. QED
    BY <1>1, <2>1, <2>2 DEF ContentInv, HostContentKept, Kept
<1>2. CASE NextAgent
  BY <1>1, <1>2 DEF NextAgent
<1>3. CASE Rerun
  BY <1>1, <1>3 DEF Rerun, Begin
<1>4. ASSUME UNCHANGED <<snap, buf, fs, start, touched>>, pc' = pc \/ pc' # "capture"
      PROVE  ContentInv'
  BY <1>0, <1>4 DEF ContentInv, HostContentKept, Kept
<1>5. CASE \/ AllDone \/ InstallFails \/ InstallDone \/ VerifyPasses \/ VerifyFails
           \/ RestoreDone \/ Crash \/ UNCHANGED vars
  BY <1>4, <1>5 DEF AllDone, InstallFails, InstallDone, VerifyPasses, VerifyFails,
     RestoreDone, Crash, vars, history, FailTurn, EndTurn
<1>6. CASE Capture
  <2>1. UNCHANGED <<fs, start, buf, touched>> /\ pc = "capture" /\ pc' # "capture" /\ DOMAIN buf = {}
    BY <1>0, <1>6 DEF Capture, history, FailTurn, EndTurn, ReadInv
  <2>2. CASE snap' = snap
    BY <1>4, <2>1, <2>2
  <2>3. CASE snap' = [f \in TargetSet(agent) |-> Content(fs[f])]
    <3>1. agent \in Agents
      BY <1>0, <2>1, InTurn DEF Turn
    <3>2. TargetSet(agent) \subseteq Files
      BY <3>1, TargetShape
    <3>3. \A f \in Files : (f \in Managed \/ f \notin touched) => fs[f] = start[f]
      BY <1>0, <1>d, <2>1 DEF ContentInv
    <3>4. \A f \in DOMAIN snap' :
            /\ Kept(snap'[f]) >= Kept(start[f])
            /\ (f \in Managed \/ f \notin touched) => snap'[f] = Content(start[f])
      BY <1>b, <1>c, <2>3, <3>2, <3>3
    <3>5. QED
      BY <1>c, <1>d, <2>1, <3>4 DEF ContentInv, HostContentKept, Kept
  <2>4. QED
    BY <1>6, <2>2, <2>3 DEF Capture
<1>7. CASE ReadFile
  <2>1. /\ UNCHANGED <<fs, start, touched, snap>> /\ pc' = pc /\ pc = "install" /\ AtStep("read")
        /\ buf' = [f \in DOMAIN buf \cup {Target} |-> IF f = Target THEN fs[f] ELSE buf[f]]
    BY <1>7 DEF ReadFile, history, AtStep
  <2>2. Target \in Files /\ Target \notin DOMAIN buf
    BY <1>0, <2>1, AtPlan, ReadBefore DEF Begun
  <2>3. \A f \in DOMAIN buf' : /\ Kept(buf'[f]) >= Kept(start[f])
                               /\ f \in Managed => buf'[f] = start[f]
    BY <1>c, <1>d, <2>1, <2>2
  <2>4. QED
    BY <1>c, <1>d, <2>1, <2>3 DEF ContentInv, HostContentKept, Kept
<1>8. ASSUME UNCHANGED <<snap, buf, start, touched>>, pc' # "capture",
             NEW T \in Files, NEW v, fs' = [fs EXCEPT ![T] = v],
             Kept(v) >= Kept(start[T]),
             T \in Managed => /\ T \in DOMAIN buf
                              /\ start[T].hook = "none" => Content(v) = Content(start[T])
      PROVE  ContentInv'
  <2>1. \A f \in Files : fs'[f] = IF f = T THEN v ELSE fs[f]
    BY <1>a, <1>8
  <2>a. \A f \in Files : Kept(fs'[f]) >= Kept(start[f])
    BY <1>c, <1>8, <2>1
  <2>b. \A f \in Managed : start[f].hook = "none" => Content(fs'[f]) = Content(start[f])
    <3>1. ASSUME NEW f \in Managed, start[f].hook = "none" PROVE Content(fs'[f]) = Content(start[f])
      <4>1. CASE f = T
        BY <1>a, <1>8, <2>1, <3>1, <4>1
      <4>2. CASE f # T
        <5>1. fs'[f] = fs[f]
          BY <1>a, <2>1, <4>2
        <5>2. QED
          BY <1>c, <3>1, <5>1
      <4>3. QED
        BY <4>1, <4>2
    <3>2. QED
      BY <3>1
  <2>2. HostContentKept'
    BY <1>8, <2>a, <2>b DEF HostContentKept, Content, Kept
  <2>3. \A f \in Managed \ DOMAIN buf : fs'[f] = start[f]
    <3>1. \A f \in Managed \ DOMAIN buf : f # T /\ f \in Files
      BY <1>a, <1>8
    <3>2. QED
      BY <1>d, <2>1, <3>1
  <2>4. QED
    BY <1>d, <1>8, <2>2, <2>3 DEF ContentInv, Kept
<1>9. CASE WriteFile
  <2>1. /\ UNCHANGED <<snap, buf, start, touched>> /\ pc' = pc /\ pc = "install" /\ AtStep("write")
    BY <1>9 DEF WriteFile, AtStep, history
  <2>2. Target \in Files /\ Target \in DOMAIN buf /\ Target # "legacy"
    BY <1>0, <2>1, AtPlan, ReadBefore, PlanShape DEF Begun
  <2>3. Kept(Merged(Target)) = Kept(buf[Target])
    BY <1>0, <2>2, MergedFile
  <2>4. Kept(Merged(Target)) >= Kept(start[Target])
    BY <1>d, <2>2, <2>3
  <2>5. Target \in Managed => start[Target].hook # "none"
    BY <1>0, <1>d, <2>2 DEF ReadInv
  <2>6. fs' = fs \/ fs' = [fs EXCEPT ![Target] = Merged(Target)]
    BY <1>9 DEF WriteFile
  <2>7. CASE fs' = fs
    BY <1>4, <2>1, <2>7
  <2>8. CASE fs' = [fs EXCEPT ![Target] = Merged(Target)]
    BY <1>8, <2>1, <2>2, <2>4, <2>5, <2>8
  <2>9. QED
    BY <2>6, <2>7, <2>8
<1>10. CASE RemoveFile
  <2>1. /\ UNCHANGED <<snap, buf, start, touched>> /\ pc' = pc /\ pc = "install" /\ AtStep("remove")
    BY <1>10 DEF RemoveFile, AtStep, history
  <2>2. Target \in Files /\ Target \in DOMAIN buf /\ Target = "legacy"
    BY <1>0, <2>1, AtPlan, ReadBefore, PlanShape DEF Begun
  <2>3. Target \in Managed /\ buf[Target] = start[Target] /\ start[Target].user = 0
    BY <1>0, <1>d, <2>2 DEF Managed, ShapeInv
  <2>4. CASE fs' = fs
    BY <1>4, <2>1, <2>4
  <2>5. CASE fs' # fs
    <3>1. fs' = [fs EXCEPT ![Target] = Absent] /\ buf[Target].hook \in {"old", "ours"}
      BY <1>10, <2>5 DEF RemoveFile
    <3>2. Kept(Absent) >= Kept(start[Target])
      <4>1. Kept(Absent) = 0
        BY DEF Absent, Kept
      <4>2. Kept(start[Target]) = 0
        BY <1>a, <2>2, <2>3, KeptNat
      <4>3. QED
        BY <4>1, <4>2
    <3>3. start[Target].hook # "none"
      BY <2>3, <3>1
    <3>4. QED
      BY <1>8, <2>1, <2>2, <3>1, <3>2, <3>3
  <2>6. QED
    BY <2>4, <2>5
<1>11. CASE RestoreFile
  <2>1. UNCHANGED <<snap, buf, start, touched>> /\ pc' = pc /\ pc = "restore"
        /\ step <= Len(Targets[agent])
    BY <1>11 DEF RestoreFile, history
  <2>2. TargetSet(agent) \subseteq DOMAIN buf /\ DOMAIN snap = TargetSet(agent) /\ DOMAIN snap \subseteq Files
    BY <1>0, <2>1, AllRead DEF TypeOK
  <2>3. PICK f \in {Targets[agent][step]} :
          fs' = fs \/ (f \in DOMAIN snap /\ fs' = [fs EXCEPT ![f] = Restored(f)])
    BY <1>11 DEF RestoreFile
  <2>4. CASE fs' = fs
    BY <1>4, <2>1, <2>4
  <2>5. CASE f \in DOMAIN snap /\ fs' = [fs EXCEPT ![f] = Restored(f)]
    <3>1. Content(Restored(f)) = snap[f]
      BY <1>0, <2>5, RestoredFile
    <3>2. Kept(Restored(f)) >= Kept(start[f])
      <4>1. Kept(Restored(f)) = Kept(snap[f])
        BY <1>0, <2>5, <3>1, RestoredFile, KeptNat
      <4>2. QED
        BY <1>d, <2>5, <4>1
    <3>3. f \in Managed => Content(Restored(f)) = Content(start[f])
      BY <1>d, <2>5, <3>1
    <3>4. f \in Files /\ f \in DOMAIN buf
      BY <2>2, <2>5
    <3>5. QED
      BY <1>8, <2>1, <2>5, <3>2, <3>3, <3>4
  <2>6. QED
    BY <2>3, <2>4, <2>5
<1>12. CASE \E f \in Files : HostEdits(f)
  <2>1. PICK f \in Files : HostEdits(f)
    BY <1>12
  <2>2. f \notin Managed /\ touched \subseteq touched' /\ UNCHANGED <<pc, snap, buf>>
        /\ \/ f \in touched' /\ start' = start
           \/ f \notin DOMAIN snap \cup DOMAIN buf /\ start' = [start EXCEPT ![f] = fs'[f]]
    BY <2>1 DEF HostEdits
  <2>3. fs'[f].user = fs[f].user + 1 /\ \A g \in Files \ {f} : fs'[g] = fs[g]
    BY <1>a, <2>1 DEF HostEdits
  <2>4. Kept(fs'[f]) = Kept(fs[f]) + 1 \/ Kept(fs'[f]) = Kept(fs[f])
    <3>1. fs[f] \in File \cup {Absent} /\ fs'[f].hook = IF fs[f] = Absent THEN "none" ELSE fs[f].hook
      BY <1>a, <2>1 DEF HostEdits
    <3>2. QED
      BY <2>3, <3>1 DEF File, Absent, Kept
  <2>5. Kept(fs'[f]) >= Kept(fs[f]) /\ Kept(fs'[f]) \in Nat
    BY <1>b, <2>4
  <2>6. \A g \in Files \ {f} : start'[g] = start[g]
    BY <1>a, <2>2
  <2>7. start'[f] = start[f] \/ start'[f] = fs'[f]
    BY <1>a, <2>2
  <2>8. \A g \in Files : Kept(fs'[g]) >= Kept(start'[g])
    <3>1. ASSUME NEW g \in Files, g # f PROVE Kept(fs'[g]) >= Kept(start'[g])
      BY <1>c, <2>3, <2>6, <3>1
    <3>2. Kept(fs'[f]) >= Kept(start'[f])
      BY <1>b, <1>c, <2>5, <2>7
    <3>3. QED
      BY <3>1, <3>2
  <2>9. \A g \in Managed : fs'[g] = fs[g] /\ start'[g] = start[g]
    BY <1>a, <2>2, <2>3, <2>6
  <2>10. HostContentKept'
    <3>1. \A g \in Managed : start'[g].hook = "none" => Content(fs'[g]) = Content(start'[g])
      BY <1>c, <2>9 DEF Content
    <3>2. QED
      BY <2>8, <3>1 DEF HostContentKept, Kept, Content
  <2>11. \A g \in DOMAIN snap \cup DOMAIN buf : start'[g] = start[g]
    <3>1. DOMAIN snap \cup DOMAIN buf \subseteq Files
      BY <1>0 DEF TypeOK
    <3>2. QED
      BY <2>2, <2>6, <3>1
  <2>12. pc' = "capture" => \A g \in Files \ touched' : fs'[g] = start'[g]
    <3>1. ASSUME pc = "capture", NEW g \in Files \ touched' PROVE fs'[g] = start'[g]
      <4>1. CASE g = f
        BY <1>a, <2>2, <3>1, <4>1
      <4>2. CASE g # f
        BY <1>0, <2>2, <2>3, <2>6, <3>1, <4>2 DEF ContentInv
      <4>3. QED
        BY <4>1, <4>2
    <3>2. QED
      BY <2>2, <3>1
  <2>13. QED
    BY <1>d, <2>2, <2>9, <2>10, <2>11, <2>12 DEF ContentInv, Kept, Content
<1>13. QED
  BY <1>2, <1>3, <1>5, <1>6, <1>7, <1>9, <1>10, <1>11, <1>12 DEF Next, Install

LEMMA RollbackNext ==
  ASSUME IInv, [Next]_vars
  PROVE  RollbackInv'
<1>0. TypeOK /\ PlaceInv /\ ShapeInv /\ ReadInv /\ ContentInv /\ RollbackInv
  BY DEF IInv
<1>a. fs \in [Files -> File \cup {Absent}]
      /\ result \in [Agents -> {"none", "ok", "error", "failed", "rolled back", "rollback failed"}]
  BY <1>0 DEF TypeOK
<1>1. ASSUME pc' \notin {"restore", "next", "done"} PROVE RollbackInv'
  BY <1>1 DEF RollbackInv, TreeRestored, Ended
<1>2. CASE NextAgent
  BY <1>1, <1>2 DEF NextAgent
<1>3. CASE AllDone
  <2>1. agent' = agent /\ pc = "next" /\ pc' = "done" /\ UNCHANGED <<q, fs, start, touched, result>>
    BY <1>3, SameAgent DEF AllDone, run, history
  <2>2. QED
    BY <1>0, <2>1 DEF RollbackInv, TreeRestored, Ended, Untouched
<1>4. ASSUME UNCHANGED run, pc \in Turn, NEW r, EndTurn(r), r # "rolled back" PROVE RollbackInv'
  <2>1. agent' = agent /\ agent \in Agents /\ pc' = "next" /\ result' = [result EXCEPT ![agent] = r]
    BY <1>0, <1>4, SameAgent, InTurn DEF EndTurn
  <2>2. result'[agent'] = r
    BY <1>a, <2>1
  <2>3. QED
    BY <1>4, <2>1, <2>2 DEF RollbackInv, TreeRestored, Ended
<1>5. CASE Capture
  BY <1>1, <1>4, <1>5 DEF Capture, FailTurn, Turn
<1>6. CASE ReadFile \/ WriteFile \/ RemoveFile
  BY <1>1, <1>6 DEF ReadFile, WriteFile, RemoveFile, AtStep
<1>7. CASE InstallFails
  BY <1>4, <1>7 DEF InstallFails, FailTurn, Turn
<1>8. CASE InstallDone
  BY <1>1, <1>4, <1>8 DEF InstallDone, Turn
<1>9. CASE VerifyPasses
  BY <1>4, <1>9 DEF VerifyPasses, Turn
<1>10. CASE VerifyFails
  <2>1. CASE wrote # {}
    <3>1. UNCHANGED run /\ pc = "verify" /\ pc' = "restore" /\ step' = 1 /\ wrote' = wrote
      BY <1>10, <2>1 DEF VerifyFails
    <3>2. agent' = agent /\ agent \in Agents
      BY <1>0, <3>1, SameAgent, InTurn DEF Turn
    <3>3. \A i \in DOMAIN Targets[agent] : ~(i < step')
      <4>1. PICK n \in 1..2 : Len(Targets[agent]) = n /\ DOMAIN Targets[agent] = 1..n
        BY <3>2, TargetShape
      <4>2. QED
        BY <3>1, <4>1
    <3>4. QED
      BY <2>1, <3>1, <3>2, <3>3 DEF RollbackInv, TreeRestored, Ended
  <2>2. CASE wrote = {}
    BY <1>4, <1>10, <2>2 DEF VerifyFails, FailTurn, Turn
  <2>3. QED
    BY <2>1, <2>2
<1>11. CASE RestoreFile
  <2>1. /\ UNCHANGED <<run, snap, buf, start, touched, wrote>> /\ pc' = pc /\ pc = "restore"
        /\ step' = step + 1 /\ step <= Len(Targets[agent]) /\ wrote # {}
    BY <1>0, <1>11 DEF RestoreFile, history, RollbackInv
  <2>2. agent' = agent /\ agent \in Agents
    BY <1>0, <2>1, SameAgent, InTurn DEF Turn
  <2>3. PICK n \in 1..2 : Len(Targets[agent]) = n /\ DOMAIN Targets[agent] = 1..n
    BY <2>2, TargetShape
  <2>4. step \in 1..n
    <3>1. step \in 1..5 /\ step <= n
      BY <1>0, <2>1, <2>3 DEF TypeOK
    <3>2. QED
      BY <3>1
  <2>5. PICK f \in {Targets[agent][step]} :
          \/ fs' = (IF f \in DOMAIN snap THEN [fs EXCEPT ![f] = Restored(f)] ELSE fs) /\ stuck' = stuck
          \/ stuck' = stuck \cup {f} /\ fs' = fs
    BY <1>11 DEF RestoreFile
  <2>6. f \in TargetSet(agent) /\ f \in DOMAIN snap /\ f \in Files
    <3>1. f \in TargetSet(agent)
      BY <2>2, <2>3, <2>4, TargetShape
    <3>2. QED
      BY <1>0, <2>1, <2>2, <3>1, AllRead, TargetShape
  <2>7. Content(Restored(f)) = snap[f] /\ (f \notin touched => snap[f] = Content(start[f]))
    BY <1>0, <2>6, RestoredFile DEF ContentInv
  <2>8. \A g \in Files : (g \in stuck \/ Back(g)) => (g \in stuck' \/ Back(g)')
    BY <1>a, <2>1, <2>5, <2>6, <2>7 DEF Back
  <2>9. f \in stuck' \/ Back(f)'
    BY <1>a, <2>1, <2>5, <2>6, <2>7 DEF Back
  <2>10. ASSUME NEW i \in DOMAIN Targets[agent], i < step'
         PROVE  Targets[agent][i] \in stuck' \/ Back(Targets[agent][i])'
    <3>1. i < step \/ i = step
      BY <2>1, <2>3, <2>4, <2>10
    <3>2. Targets[agent][i] \in Files
      BY <2>2, TargetShape
    <3>3. PICK g \in Files : g = Targets[agent][i]
      BY <3>2
    <3>4. CASE i < step
      <4>1. g \in stuck \/ Back(g)
        BY <1>0, <2>1, <2>10, <3>3, <3>4 DEF RollbackInv
      <4>2. QED
        BY <2>2, <2>8, <3>3, <4>1 DEF Back
    <3>5. CASE i = step
      BY <2>2, <2>9, <3>3, <3>5 DEF Back
    <3>6. QED
      BY <3>1, <3>4, <3>5
  <2>11. QED
    BY <2>1, <2>2, <2>10 DEF RollbackInv, TreeRestored, Ended
<1>12. CASE RestoreDone
  <2>1. CASE stuck # {}
    BY <1>4, <1>12, <2>1 DEF RestoreDone, Turn
  <2>2. CASE stuck = {}
    <3>1. /\ UNCHANGED <<run, fs, start, touched>> /\ pc = "restore" /\ pc' = "next"
          /\ step > Len(Targets[agent])
      BY <1>12 DEF RestoreDone, EndTurn, history
    <3>2. agent' = agent /\ agent \in Agents
      BY <1>0, <3>1, SameAgent, InTurn DEF Turn
    <3>3. PICK n \in 1..2 : Len(Targets[agent]) = n /\ DOMAIN Targets[agent] = 1..n
      BY <3>2, TargetShape
    <3>4. step \in 1..5
      BY <1>0 DEF TypeOK
    <3>5. \A i \in DOMAIN Targets[agent] : i < step
      BY <3>1, <3>3, <3>4
    <3>6. \A f \in TargetSet(agent) : Back(f)
      BY <1>0, <2>2, <3>1, <3>2, <3>5, TargetShape DEF RollbackInv
    <3>7. Untouched'
      BY <3>1, <3>2, <3>6 DEF Untouched, Back
    <3>8. QED
      BY <3>1, <3>7 DEF RollbackInv, TreeRestored
  <2>3. QED
    BY <2>1, <2>2
<1>13. ASSUME UNCHANGED <<run, pc, step, wrote, stuck, result>>, touched \subseteq touched',
              \A f \in Files : \/ f \in touched' \/ fs'[f] = start'[f]
                               \/ fs'[f] = fs[f] /\ start'[f] = start[f]
       PROVE  RollbackInv'
  <2>1. agent' = agent /\ q' = q
    BY <1>13, SameAgent
  <2>2. q > 0 => TargetSet(agent) \subseteq Files
    BY <1>0, Basics, TargetShape
  <2>3. \A f \in Files : Back(f) => Back(f)'
    BY <1>13 DEF Back
  <2>4. ASSUME pc' = "restore"
        PROVE  /\ wrote' # {}
               /\ \A i \in DOMAIN Targets[agent] :
                    i < step => Targets[agent][i] \in stuck' \/ Back(Targets[agent][i])'
    <3>1. agent \in Agents
      BY <1>0, <1>13, <2>4, InTurn DEF Turn
    <3>2. \A i \in DOMAIN Targets[agent] : Targets[agent][i] \in Files
      BY <3>1, TargetShape
    <3>3. ASSUME NEW i \in DOMAIN Targets[agent], i < step
          PROVE  Targets[agent][i] \in stuck' \/ Back(Targets[agent][i])'
      <4>1. PICK g \in Files : g = Targets[agent][i]
        BY <3>2
      <4>2. g \in stuck \/ Back(g)
        BY <1>0, <1>13, <2>4, <3>3, <4>1 DEF RollbackInv
      <4>3. QED
        BY <1>13, <2>1, <2>3, <4>1, <4>2 DEF Back
    <3>4. QED
      BY <1>0, <1>13, <2>4, <3>3 DEF RollbackInv
  <2>5. ASSUME Ended("rolled back")' PROVE Untouched'
    <3>1. q > 0 /\ Ended("rolled back")
      BY <1>13, <2>1, <2>5 DEF Ended
    <3>2. Untouched
      BY <1>0, <3>1 DEF RollbackInv, TreeRestored
    <3>3. \A f \in TargetSet(agent) : Back(f)
      BY <3>2 DEF Untouched, Back
    <3>4. \A f \in TargetSet(agent) : Back(f)'
      BY <2>2, <2>3, <3>1, <3>3
    <3>5. QED
      BY <2>1, <3>4 DEF Untouched, Back
  <2>6. QED
    BY <1>13, <2>1, <2>4, <2>5 DEF RollbackInv, TreeRestored
<1>14. CASE \E f \in Files : HostEdits(f)
  <2>1. PICK f \in Files : HostEdits(f)
    BY <1>14
  <2>2. /\ touched \subseteq touched' /\ \A g \in Files \ {f} : fs'[g] = fs[g]
        /\ \/ f \in touched' /\ start' = start
           \/ start' = [start EXCEPT ![f] = fs'[f]]
    BY <1>a, <2>1 DEF HostEdits
  <2>3. start \in [Files -> File \cup {Absent}]
    BY <1>0 DEF TypeOK
  <2>4. \A g \in Files : \/ g \in touched' \/ fs'[g] = start'[g]
                         \/ fs'[g] = fs[g] /\ start'[g] = start[g]
    BY <2>2, <2>3
  <2>5. UNCHANGED <<run, pc, step, wrote, stuck, result>>
    BY <2>1 DEF HostEdits
  <2>6. touched \subseteq touched'
    BY <2>2
  <2>7. QED
    BY <1>13, <2>4, <2>5, <2>6
<1>15. CASE Crash
  BY <1>1, <1>15 DEF Crash
<1>16. CASE Rerun
  BY <1>16 DEF Rerun, Begin, RollbackInv, TreeRestored, Ended
<1>17. CASE UNCHANGED vars
  BY <1>13, <1>17 DEF vars, history
<1>18. QED
  BY <1>2, <1>3, <1>5, <1>6, <1>7, <1>8, <1>9, <1>10, <1>11, <1>12, <1>14, <1>15, <1>16,
     <1>17 DEF Next, Install

\* What an install has put in place stays, but for a rollback: a write puts
\* ptuf's hook there, a removal takes the legacy plugin, and the host keeps
\* the hooks in its files.
LEMMA OursKept ==
  ASSUME IInv, [Next]_vars, ~RestoreFile, NEW f \in Files, Ours(f)
  PROVE  Ours(f)'
<1>0. TypeOK /\ PlaceInv /\ ShapeInv /\ ReadInv
  BY DEF IInv
<1>a. fs \in [Files -> File \cup {Absent}]
  BY <1>0 DEF TypeOK
<1>1. ASSUME fs' = fs PROVE Ours(f)'
  BY <1>1 DEF Ours
<1>2. CASE \/ NextAgent \/ AllDone \/ Capture \/ ReadFile \/ InstallFails \/ InstallDone
           \/ VerifyPasses \/ VerifyFails \/ RestoreDone \/ Crash \/ Rerun \/ UNCHANGED vars
  BY <1>1, <1>2 DEF NextAgent, AllDone, Capture, ReadFile, InstallFails, InstallDone,
     VerifyPasses, VerifyFails, RestoreDone, Crash, Rerun, vars
<1>3. CASE WriteFile
  <2>1. AtStep("write") /\ pc = "install" /\ (fs' = fs \/ fs' = [fs EXCEPT ![Target] = Merged(Target)])
    BY <1>3 DEF WriteFile, AtStep
  <2>2. Target \in Files /\ Target \in DOMAIN buf /\ Target # "legacy"
    BY <1>0, <2>1, AtPlan, ReadBefore, PlanShape DEF Begun
  <2>3. Merged(Target).hook = "ours"
    BY <1>0, <2>2, MergedFile
  <2>4. QED
    BY <1>a, <2>1, <2>2, <2>3 DEF Ours
<1>4. CASE RemoveFile
  <2>1. AtStep("remove") /\ (fs' = fs \/ fs' = [fs EXCEPT ![Target] = Absent])
    BY <1>4 DEF RemoveFile
  <2>2. Target \in Files /\ Target = "legacy"
    BY <1>0, <2>1, AtPlan, PlanShape
  <2>3. QED
    BY <1>a, <2>1, <2>2 DEF Ours, Absent
<1>5. CASE \E g \in Files : HostEdits(g)
  <2>1. PICK g \in Files : HostEdits(g)
    BY <1>5
  <2>2. g # "legacy" /\ (fs[g].hook = "ours" => fs[g] # Absent /\ fs'[g].hook = "ours")
        /\ \A h \in Files \ {g} : fs'[h] = fs[h]
    BY <1>a, <2>1 DEF HostEdits, Absent, Managed
  <2>3. QED
    BY <2>2 DEF Ours
<1>6. QED
  BY <1>2, <1>3, <1>4, <1>5 DEF Next, Install

\* A rollback undoes what its own agent got, and nothing else.
LEMMA OursElsewhere ==
  ASSUME IInv, [Next]_vars, NEW a \in Agents, RestoreFile => a # agent,
         \A f \in TargetSet(a) : Ours(f)
  PROVE  \A f \in TargetSet(a) : Ours(f)'
<1>0. TypeOK /\ PlaceInv
  BY DEF IInv
<1>1. TargetSet(a) \subseteq Files
  BY TargetShape
<1>2. CASE ~RestoreFile
  BY <1>1, <1>2, OursKept
<1>3. CASE RestoreFile
  <2>1. pc = "restore" /\ step <= Len(Targets[agent]) /\ step \in 1..5 /\ agent \in Agents
    BY <1>0, <1>3, InTurn DEF RestoreFile, TypeOK, Turn
  <2>2. PICK n \in 1..2 : Len(Targets[agent]) = n /\ DOMAIN Targets[agent] = 1..n
    BY <2>1, TargetShape
  <2>3. Targets[agent][step] \in TargetSet(agent)
    <3>1. step \in 1..n
      BY <2>1, <2>2
    <3>2. QED
      BY <2>1, <2>2, <3>1, TargetShape
  <2>4. Targets[agent][step] \notin TargetSet(a)
    BY <1>3, <2>1, <2>3, TargetsApart
  <2>5. \A f \in TargetSet(a) : fs'[f] = fs[f]
    <3>1. fs \in [Files -> File \cup {Absent}]
      BY <1>0 DEF TypeOK
    <3>2. QED
      BY <1>1, <1>3, <2>4, <3>1 DEF RestoreFile
  <2>6. QED
    BY <2>5 DEF Ours
<1>4. QED
  BY <1>2, <1>3

\* When the plan is behind, every file of the agent is ptuf's.
LEMMA PlanInstalls ==
  ASSUME TypeOK, PlaceInv, TurnInv, ~options.dryRun,
         pc = "verify" \/ (pc = "install" /\ step > Len(Plan[agent]))
  PROVE  \A f \in TargetSet(agent) : Ours(f)
<1>1. agent \in Agents
  BY InTurn DEF Turn
<1>2. ASSUME NEW i \in DOMAIN Plan[agent] PROVE Ran(i)
  <2>1. PICK n \in 2..4 : Len(Plan[agent]) = n /\ DOMAIN Plan[agent] = 1..n
    BY <1>1, PlanShape
  <2>2. step \in 1..5
    BY DEF TypeOK
  <2>3. pc = "install" => i < step
    BY <2>1, <2>2
  <2>4. QED
    BY <2>3 DEF Ran
<1>3. \A i \in DOMAIN Plan[agent] : Op(agent, i) # "read" => Ours(On(agent, i))
  BY <1>2 DEF TurnInv
<1>4. QED
  BY <1>1, <1>3, PlanShape

LEMMA OverNext ==
  ASSUME IInv, [Next]_vars
  PROVE  OverInv'
<1>0. TypeOK /\ PlaceInv /\ ReportInv /\ RollbackInv /\ OverInv /\ TurnInv
  BY DEF IInv
<1>a. result \in [Agents -> {"none", "ok", "error", "failed", "rolled back", "rollback failed"}]
      /\ earlier \subseteq Agents
  BY <1>0 DEF TypeOK
<1>b. /\ \A a \in Agents : (result[a] = "ok" /\ ~options.dryRun) => \A f \in TargetSet(a) : Ours(f)
      /\ \A a \in earlier : \A f \in TargetSet(a) : Ours(f)
  BY <1>0 DEF OverInv
<1>c. ASSUME RestoreFile
      PROVE  agent \in Agents /\ result[agent] = "none" /\ agent \notin earlier
  <2>1. pc = "restore" /\ agent \in Agents /\ q \in DOMAIN queue /\ q > 0 /\ wrote # {}
    BY <1>0, <1>c, InTurn DEF RestoreFile, Turn, RollbackInv
  <2>2. ~Over(q)
    BY <2>1 DEF Over, Turn
  <2>3. QED
    BY <1>0, <2>1, <2>2 DEF ReportInv, RerunIdempotent, TurnInv, agent
<1>d. /\ \A a \in Agents : (result[a] = "ok" /\ ~options.dryRun) => \A f \in TargetSet(a) : Ours(f)'
      /\ \A a \in earlier : \A f \in TargetSet(a) : Ours(f)'
  <2>1. ASSUME NEW a \in Agents, \A f \in TargetSet(a) : Ours(f), a # agent \/ ~RestoreFile
        PROVE  \A f \in TargetSet(a) : Ours(f)'
    BY <2>1, OursElsewhere
  <2>2. QED
    BY <1>a, <1>b, <1>c, <2>1
<1>1. ASSUME earlier' = earlier, options' = options, UNCHANGED result PROVE OverInv'
  BY <1>1, <1>d DEF OverInv
<1>2. ASSUME earlier' = earlier, options' = options, NEW r, EndTurn(r), pc \in Turn,
             r = "ok" => \/ pc = "verify"
                         \/ pc = "install" /\ step > Len(Plan[agent])
      PROVE  OverInv'
  <2>1. agent \in Agents /\ result' = [result EXCEPT ![agent] = r]
    BY <1>0, <1>2, InTurn DEF EndTurn
  <2>2. ~RestoreFile
    BY <1>2 DEF EndTurn, RestoreFile
  <2>3. ASSUME r = "ok", ~options.dryRun PROVE \A f \in TargetSet(agent) : Ours(f)'
    <3>1. \A f \in TargetSet(agent) : Ours(f)
      BY <1>0, <1>2, <2>3, PlanInstalls
    <3>2. QED
      BY <2>1, <2>2, <3>1, OursElsewhere
  <2>4. \A a \in Agents : result'[a] = IF a = agent THEN r ELSE result[a]
    BY <1>a, <2>1
  <2>5. \A a \in Agents : (result'[a] = "ok" /\ ~options.dryRun) => \A f \in TargetSet(a) : Ours(f)'
    BY <1>d, <2>3, <2>4
  <2>6. QED
    BY <1>2, <1>d, <2>5 DEF OverInv
<1>3. CASE NextAgent
  BY <1>1, <1>3 DEF NextAgent
<1>4. CASE Capture
  BY <1>1, <1>2, <1>4 DEF Capture, FailTurn, run, history, Turn
<1>5. CASE \/ AllDone \/ ReadFile \/ WriteFile \/ RemoveFile \/ RestoreFile \/ Crash
           \/ UNCHANGED vars
  BY <1>1, <1>5 DEF AllDone, ReadFile, WriteFile, RemoveFile, RestoreFile, Crash, vars, run, history
<1>6. CASE InstallFails
  BY <1>2, <1>6 DEF InstallFails, FailTurn, run, history, Turn
<1>7. CASE InstallDone
  BY <1>1, <1>2, <1>7 DEF InstallDone, run, history, Turn
<1>8. CASE VerifyPasses
  BY <1>2, <1>8 DEF VerifyPasses, run, history, Turn
<1>9. CASE VerifyFails
  BY <1>1, <1>2, <1>9 DEF VerifyFails, FailTurn, run, history, Turn
<1>10. CASE RestoreDone
  <2>1. PICK r \in {"rolled back", "rollback failed"} : EndTurn(r)
    BY <1>10 DEF RestoreDone
  <2>2. QED
    BY <1>2, <1>10, <2>1 DEF RestoreDone, run, history, Turn
<1>11. CASE \E f \in Files : HostEdits(f)
  BY <1>1, <1>11 DEF HostEdits, run
<1>12. CASE Rerun
  <2>1. /\ \A a \in Agents : result'[a] # "ok"
        /\ earlier' = {a \in Agents : result[a] = "ok" /\ ~options.dryRun}
    BY <1>12 DEF Rerun, Begin
  <2>2. \A a \in earlier' : \A f \in TargetSet(a) : Ours(f)'
    BY <1>d, <2>1
  <2>3. QED
    BY <2>1, <2>2 DEF OverInv
<1>13. QED
  BY <1>3, <1>4, <1>5, <1>6, <1>7, <1>8, <1>9, <1>10, <1>11, <1>12 DEF Next, Install

LEMMA TurnNext ==
  ASSUME IInv, [Next]_vars
  PROVE  TurnInv'
<1>0. TypeOK /\ PlaceInv /\ ShapeInv /\ ReadInv /\ OverInv /\ TurnInv
  BY DEF IInv
<1>a. fs \in [Files -> File \cup {Absent}]
  BY <1>0 DEF TypeOK
<1>b. ASSUME UNCHANGED <<run, wrote, earlier>> PROVE RerunIdempotent'
  BY <1>0, <1>b, SameAgent DEF TurnInv, RerunIdempotent
<1>2. ASSUME UNCHANGED <<run, wrote, earlier>>, pc' \in {"next", "done", "crashed"} PROVE TurnInv'
  BY <1>2, <1>b DEF TurnInv, Begun
<1>3. CASE NextAgent
  <2>1. DOMAIN buf' = {} /\ wrote' = {} /\ step' = 1 /\ agent' \in Agents
        /\ pc' \in {"capture", "install"}
    BY <1>0, <1>3, NewAgent DEF NextAgent
  <2>2. \A j \in DOMAIN Plan[agent'] : j >= 1
    BY <2>1, PlanShape
  <2>3. \A j \in DOMAIN Plan[agent'] : pc' = "install" => ~Ran(j)'
    <3>1. ASSUME NEW j \in DOMAIN Plan[agent'], pc' = "install", Ran(j)' PROVE FALSE
      <4>1. j < 1 /\ j \in Nat
        BY <2>1, <3>1, PlanShape DEF Ran
      <4>2. QED
        BY <2>2, <4>1
    <3>2. QED
      BY <3>1
  <2>4. QED
    BY <2>1, <2>3 DEF TurnInv, RerunIdempotent
<1>4. CASE AllDone
  BY <1>2, <1>4 DEF AllDone, history
<1>5. CASE Capture
  <2>1. UNCHANGED <<run, wrote, earlier, buf>> /\ pc = "capture" /\ step' = 1
    BY <1>0, <1>5 DEF Capture, history, PlaceInv
  <2>2. CASE pc' = "install"
    <3>1. agent' = agent /\ agent \in Agents /\ DOMAIN buf' = {}
      BY <1>0, <2>1, SameAgent, InTurn DEF Turn, ReadInv
    <3>2. \A j \in DOMAIN Plan[agent] : ~Ran(j)'
      <4>1. ASSUME NEW j \in DOMAIN Plan[agent], Ran(j)' PROVE FALSE
        <5>1. j \in Nat /\ j >= 1
          BY <3>1, PlanShape
        <5>2. j < 1
          BY <2>1, <2>2, <3>1, <4>1 DEF Ran
        <5>3. QED
          BY <5>1, <5>2
      <4>2. QED
        BY <4>1
    <3>3. QED
      BY <1>b, <2>1, <3>1, <3>2 DEF TurnInv
  <2>3. CASE pc' = "next"
    BY <1>2, <2>1, <2>3
  <2>4. QED
    BY <1>5, <2>2, <2>3 DEF Capture, FailTurn, EndTurn
<1>6. ASSUME NEW op, AtStep(op), UNCHANGED <<run, pc, earlier>>, step' = step + 1, ~RestoreFile,
             RerunIdempotent',
             \A f \in DOMAIN buf' : IF f = "legacy" THEN fs'[f] \in {buf'[f], Absent}
                                   ELSE buf'[f].hook = "ours" => fs'[f].hook = "ours",
             NEW T, T = Target, (op # "read" /\ ~options.dryRun) => Ours(T)',
             agent \in earlier => \A f \in DOMAIN buf' \ {"legacy"} : buf'[f].hook = "ours"
      PROVE  TurnInv'
  <2>1. /\ agent' = agent /\ agent \in Agents /\ options' = options /\ pc = "install"
        /\ Op(agent, step) = op /\ On(agent, step) = T
        /\ \A j \in DOMAIN Plan[agent] : Ran(j)' <=> (Ran(j) \/ j = step)
    BY <1>0, <1>6, AtPlan, StepRan, SameAgent
  <2>2. ASSUME ~options.dryRun, NEW i \in DOMAIN Plan[agent], Ran(i)', Op(agent, i) # "read"
        PROVE  Ours(On(agent, i))'
    <3>1. PICK g \in Files : g = On(agent, i)
      BY <2>1, PlanShape, TargetShape
    <3>2. Ours(g)'
      <4>1. CASE i = step
        BY <1>6, <2>1, <2>2, <3>1, <4>1
      <4>2. CASE Ran(i)
        <5>1. Ours(g)
          BY <1>0, <2>1, <2>2, <3>1, <4>2 DEF TurnInv
        <5>2. QED
          BY <1>6, <5>1, OursKept
      <4>3. QED
        BY <2>1, <2>2, <4>1, <4>2
    <3>3. QED
      BY <2>1, <3>1, <3>2 DEF Ours, On
  <2>3. QED
    BY <1>6, <2>1, <2>2 DEF TurnInv, Op
<1>7. CASE ReadFile
  <2>1. /\ UNCHANGED <<run, pc, earlier, wrote, fs>> /\ AtStep("read") /\ pc = "install"
        /\ step' = step + 1
        /\ buf' = [f \in DOMAIN buf \cup {Target} |-> IF f = Target THEN fs[f] ELSE buf[f]]
    BY <1>7 DEF ReadFile, AtStep, history
  <2>2. agent \in Agents /\ Target \in TargetSet(agent)
    BY <1>0, <2>1, AtPlan
  <2>3. \A f \in DOMAIN buf' : IF f = "legacy" THEN fs'[f] \in {buf'[f], Absent}
                               ELSE buf'[f].hook = "ours" => fs'[f].hook = "ours"
    BY <1>0, <2>1 DEF TurnInv
  <2>4. ASSUME agent \in earlier, NEW f \in DOMAIN buf' \ {"legacy"} PROVE buf'[f].hook = "ours"
    <3>1. CASE f = Target
      <4>1. Ours(Target)
        BY <1>0, <2>2, <2>4 DEF OverInv
      <4>2. QED
        BY <2>1, <2>4, <3>1, <4>1 DEF Ours
    <3>2. CASE f # Target
      BY <1>0, <2>1, <2>4, <3>2 DEF TurnInv, Begun
    <3>3. QED
      BY <3>1, <3>2
  <2>5. ~RestoreFile
    BY <2>1 DEF RestoreFile
  <2>6. QED
    BY <1>6, <1>b, <2>1, <2>3, <2>4, <2>5
<1>8. CASE WriteFile
  <2>1. /\ UNCHANGED <<run, pc, earlier, buf>> /\ AtStep("write") /\ pc = "install"
        /\ step' = step + 1
    BY <1>8 DEF WriteFile, AtStep, history
  <2>2. Target \in Files /\ Target \in DOMAIN buf /\ Target # "legacy" /\ agent \in Agents
    BY <1>0, <2>1, AtPlan, ReadBefore, PlanShape DEF Begun
  <2>3. Merged(Target).hook = "ours"
    BY <1>0, <2>2, MergedFile
  <2>4. PICK T \in Files : T = Target
    BY <2>2
  <2>5. \/ /\ buf[T].hook # "ours" /\ fs' = IF options.dryRun THEN fs ELSE [fs EXCEPT ![T] = Merged(T)]
        \/ buf[T].hook = "ours" /\ fs' = fs /\ wrote' = wrote
    BY <1>8, <2>4 DEF WriteFile, NeedsWrite
  <2>6. fs' = fs \/ (fs'[T].hook = "ours" /\ \A f \in Files \ {T} : fs'[f] = fs[f])
    BY <1>a, <2>3, <2>4, <2>5
  <2>7. \A f \in DOMAIN buf : f \in Files
    BY <1>0 DEF TypeOK
  <2>8. \A f \in DOMAIN buf : IF f = "legacy" THEN fs[f] \in {buf[f], Absent}
                              ELSE buf[f].hook = "ours" => fs[f].hook = "ours"
    BY <1>0, <2>1 DEF TurnInv
  <2>9. \A f \in DOMAIN buf : IF f = "legacy" THEN fs'[f] \in {buf[f], Absent}
                              ELSE buf[f].hook = "ours" => fs'[f].hook = "ours"
    BY <2>2, <2>4, <2>6, <2>7, <2>8
  <2>10. ~options.dryRun => Ours(T)'
    BY <1>a, <2>2, <2>3, <2>4, <2>5, <2>8 DEF Ours
  <2>11. agent \in earlier => \A f \in DOMAIN buf \ {"legacy"} : buf[f].hook = "ours"
    BY <1>0, <2>1 DEF TurnInv, Begun
  <2>12. RerunIdempotent'
    <3>1. CASE agent \in earlier
      BY <1>b, <2>1, <2>2, <2>4, <2>5, <2>11, <3>1
    <3>2. CASE agent \notin earlier
      BY <2>1, <3>2, SameAgent DEF RerunIdempotent
    <3>3. QED
      BY <3>1, <3>2
  <2>13. ~RestoreFile
    BY <2>1 DEF RestoreFile
  <2>14. QED
    BY <1>6, <2>1, <2>4, <2>9, <2>10, <2>11, <2>12, <2>13
<1>9. CASE RemoveFile
  <2>1. /\ UNCHANGED <<run, pc, earlier, buf, wrote>> /\ AtStep("remove") /\ pc = "install"
        /\ step' = step + 1
    BY <1>9 DEF RemoveFile, AtStep, history
  <2>2. Target = "legacy" /\ Target \in Files /\ Target \in DOMAIN buf
    BY <1>0, <2>1, AtPlan, ReadBefore, PlanShape DEF Begun
  <2>3. \A f \in DOMAIN buf : IF f = "legacy" THEN fs[f] \in {buf[f], Absent}
                              ELSE buf[f].hook = "ours" => fs[f].hook = "ours"
    BY <1>0, <2>1 DEF TurnInv
  <2>4. fs' = IF buf["legacy"].hook \in {"old", "ours"} /\ ~options.dryRun
              THEN [fs EXCEPT !["legacy"] = Absent] ELSE fs
    BY <1>9, <2>2 DEF RemoveFile
  <2>5. \A f \in DOMAIN buf : IF f = "legacy" THEN fs'[f] \in {buf[f], Absent}
                              ELSE buf[f].hook = "ours" => fs'[f].hook = "ours"
    BY <1>a, <2>2, <2>3, <2>4
  <2>6. ~options.dryRun => Ours("legacy")'
    BY <1>a, <2>2, <2>3, <2>4 DEF Ours, Absent
  <2>7. agent \in earlier => \A f \in DOMAIN buf \ {"legacy"} : buf[f].hook = "ours"
    BY <1>0, <2>1 DEF TurnInv, Begun
  <2>8. ~RestoreFile
    BY <2>1 DEF RestoreFile
  <2>9. QED
    BY <1>6, <1>b, <2>1, <2>2, <2>5, <2>6, <2>7, <2>8
<1>10. CASE InstallFails
  BY <1>2, <1>10 DEF InstallFails, FailTurn, EndTurn, history
<1>11. CASE InstallDone
  <2>1. CASE options.verify
    <3>1. UNCHANGED <<run, fs, buf, step, wrote, earlier>> /\ pc = "install" /\ pc' = "verify"
          /\ step > Len(Plan[agent])
      BY <1>11, <2>1 DEF InstallDone, history
    <3>2. agent' = agent /\ options' = options /\ agent \in Agents
      BY <1>0, <3>1, SameAgent, InTurn DEF Turn
    <3>3. ~options.dryRun => \A f \in TargetSet(agent) : Ours(f)
      BY <1>0, <3>1, PlanInstalls
    <3>4. \A i \in DOMAIN Plan[agent] : On(agent, i) \in TargetSet(agent)
      BY <3>2, PlanShape
    <3>5. ~options.dryRun => \A i \in DOMAIN Plan[agent] : Ours(On(agent, i))'
      BY <3>1, <3>2, <3>3, <3>4 DEF Ours, On
    <3>6. QED
      BY <1>0, <1>b, <3>1, <3>2, <3>5 DEF TurnInv, Begun
  <2>2. CASE ~options.verify
    BY <1>2, <1>11, <2>2 DEF InstallDone, EndTurn, history
  <2>3. QED
    BY <2>1, <2>2
<1>12. CASE VerifyPasses
  BY <1>2, <1>12 DEF VerifyPasses, EndTurn, history
<1>13. ASSUME UNCHANGED <<run, wrote, earlier, buf>>, pc \in {"verify", "restore"}, pc' = "restore"
       PROVE  TurnInv'
  BY <1>0, <1>b, <1>13, SameAgent DEF TurnInv, Begun
<1>14. CASE VerifyFails
  <2>1. CASE wrote # {}
    BY <1>13, <1>14, <2>1 DEF VerifyFails, history
  <2>2. CASE wrote = {}
    BY <1>2, <1>14, <2>2 DEF VerifyFails, FailTurn, EndTurn, history
  <2>3. QED
    BY <2>1, <2>2
<1>15. CASE RestoreFile
  BY <1>13, <1>15 DEF RestoreFile, history
<1>16. CASE RestoreDone
  BY <1>2, <1>16 DEF RestoreDone, EndTurn, history
<1>17. ASSUME UNCHANGED <<run, pc, step, buf, wrote, earlier>>, fs'["legacy"] = fs["legacy"],
              \A f \in Files : fs[f].hook = "ours" => fs'[f].hook = "ours"
       PROVE  TurnInv'
  <2>1. agent' = agent /\ options' = options
    BY <1>17, SameAgent
  <2>2. \A f \in Files : Ours(f) => Ours(f)'
    BY <1>17 DEF Ours
  <2>3. ASSUME pc' \in {"install", "verify"}, ~options'.dryRun, NEW i \in DOMAIN Plan[agent], Ran(i)',
               Op(agent, i) # "read"
        PROVE  Ours(On(agent, i))'
    <3>1. agent \in Agents
      BY <1>0, <1>17, <2>3, InTurn DEF Turn
    <3>2. PICK g \in Files : g = On(agent, i)
      BY <3>1, PlanShape, TargetShape
    <3>3. Ran(i)
      BY <1>17, <2>1, <2>3 DEF Ran
    <3>4. Ours(g)
      BY <1>0, <1>17, <2>1, <2>3, <3>2, <3>3 DEF TurnInv
    <3>5. QED
      BY <2>1, <2>2, <3>2, <3>4 DEF Ours, On
  <2>4. \A f \in DOMAIN buf : f \in Files
    BY <1>0 DEF TypeOK
  <2>5. QED
    BY <1>0, <1>b, <1>17, <2>1, <2>3, <2>4 DEF TurnInv, Begun, Op
<1>18. CASE \E f \in Files : HostEdits(f)
  <2>1. PICK g \in Files : HostEdits(g)
    BY <1>18
  <2>2. g # "legacy" /\ (fs[g].hook = "ours" => fs[g] # Absent /\ fs'[g].hook = "ours")
        /\ \A h \in Files \ {g} : fs'[h] = fs[h]
    BY <1>a, <2>1 DEF HostEdits, Absent, Managed
  <2>3. QED
    BY <1>17, <2>1, <2>2 DEF HostEdits, Files
<1>19. CASE Crash
  BY <1>2, <1>19 DEF Crash, history
<1>20. CASE Rerun
  BY <1>20 DEF Rerun, Begin, TurnInv, RerunIdempotent, Begun
<1>21. CASE UNCHANGED vars
  BY <1>17, <1>21 DEF vars, history
<1>22. QED
  BY <1>3, <1>4, <1>5, <1>7, <1>8, <1>9, <1>10, <1>11, <1>12, <1>14, <1>15, <1>16, <1>18,
     <1>19, <1>20, <1>21 DEF Next, Install

LEMMA InitHolds == Init => IInv
<1> SUFFICES ASSUME Init PROVE IInv
  OBVIOUS
<1>1. scene \in Scenarios /\ fs \in scene.trees /\ queue \in scene.queues /\ options \in Options
      /\ start = fs
  BY DEF Init
<1>2. /\ queue \in Seq(Agents) /\ fs \in [Files -> File \cup {Absent}]
      /\ \A f \in Managed : fs[f].hook # "bad" /\ fs[f].user = 0
      /\ scene.runs \in Nat \ {0}
  BY <1>1, InitAssumption
<1>3. Len(queue) \in Nat
  BY <1>2
<1>4. TypeOK
  <2>1. q \in 0..Len(queue) /\ runs \in 1..scene.runs
    BY <1>2, <1>3 DEF Init
  <2>2. step \in 1..5 /\ DOMAIN snap = {} /\ DOMAIN buf = {}
        /\ result \in [Agents -> {"none", "ok", "error", "failed", "rolled back", "rollback failed"}]
    BY DEF Init
  <2>3. QED
    BY <1>1, <1>2, <2>1, <2>2 DEF Init, TypeOK
<1>5. PlaceInv /\ ReadInv
  BY DEF Init, PlaceInv, ReadInv, Turn, Begun
<1>6. ShapeInv
  BY <1>1, <1>2 DEF Init, ShapeInv
<1>7. ReportInv
  <2>1. \A i \in DOMAIN queue : ~Over(i)
    BY DEF Init, Over
  <2>2. \A i \in DOMAIN queue : result[queue[i]] = "none"
    BY <1>2 DEF Init
  <2>3. QED
    BY <2>1, <2>2 DEF Init, ReportInv
<1>8. ContentInv
  <2>1. \A f \in Files : Kept(fs[f]) >= Kept(fs[f])
    <3>1. \A f \in Files : Kept(fs[f]) \in Nat
      BY <1>2, KeptNat
    <3>2. QED
      BY <3>1
  <2>2. QED
    BY <1>1, <2>1 DEF Init, ContentInv, HostContentKept
<1>9. RollbackInv /\ OverInv /\ TurnInv
  BY DEF Init, RollbackInv, TreeRestored, Ended, OverInv, TurnInv, RerunIdempotent, Begun
<1>10. QED
  BY <1>4, <1>5, <1>6, <1>7, <1>8, <1>9 DEF IInv

\* At every step of init, in any order of its agents, host edits, failures,
\* crashes and reruns.
THEOREM Invariance == Spec => []IInv
<1>1. Init => IInv
  BY InitHolds
<1>2. IInv /\ [Next]_vars => IInv'
  BY TypeNext, PlaceNext, ShapeNext, ReportNext, ReadNext, ContentNext, RollbackNext, OverNext,
     TurnNext DEF IInv
<1>3. QED
  BY <1>1, <1>2, PTL DEF Spec

THEOREM InitTypes == Spec => []TypeOK
  BY Invariance, PTL DEF IInv

\* A rollback `ptuf init` reports as done has put back every file of the agent
\* that the host has not edited since, in install_one and init::restore.
THEOREM RollbackTheorem == Spec => []TreeRestored
<1>1. IInv => TreeRestored
  BY DEF IInv, RollbackInv
<1>2. QED
  BY <1>1, Invariance, PTL

\* A merge, a failed write, a rollback or a crash loses nothing of what the host
\* had in its files, and a file of the user's is never replaced or removed.
THEOREM ContentTheorem == Spec => []HostContentKept
<1>1. IInv => HostContentKept
  BY DEF IInv, ContentInv
<1>2. QED
  BY <1>1, Invariance, PTL

\* A second `ptuf init` writes nothing for an agent the first one installed.
THEOREM RerunTheorem == Spec => []RerunIdempotent
<1>1. IInv => RerunIdempotent
  BY DEF IInv, TurnInv
<1>2. QED
  BY <1>1, Invariance, PTL

\* What run_init_with reports: every agent reported as installed is, and the
\* exit code is 0 when, and only when, every agent asked for was installed.
THEOREM InstallTheorem == Spec => []InstalledMeansGuarded
<1>1. IInv => InstalledMeansGuarded
  <2> SUFFICES ASSUME IInv PROVE InstalledMeansGuarded
    OBVIOUS
  <2>1. TypeOK /\ PlaceInv /\ ReportInv /\ OverInv
    BY DEF IInv
  <2>2. pc = "done" => (exit = 0 <=> \A i \in DOMAIN queue : result[queue[i]] = "ok")
    <3>1. ASSUME pc = "done" PROVE \A i \in DOMAIN queue : Over(i)
      <4>1. q = Len(queue) /\ DOMAIN queue = 1..Len(queue)
        BY <2>1, <3>1, Basics DEF PlaceInv
      <4>2. QED
        BY <3>1, <4>1 DEF Over, Turn
    <3>2. QED
      BY <2>1, <3>1 DEF ReportInv
  <2>3. QED
    BY <2>1, <2>2 DEF OverInv, InstalledMeansGuarded, Ours
<1>2. QED
  BY <1>1, Invariance, PTL

Hooked(f) == fs[f].hook \in {"old", "ours"}

\* No step but a removal or a rollback takes ptuf out of a file.
LEMMA HookedKept ==
  ASSUME IInv, [Next]_vars, ~RestoreFile, NEW f \in Files, RemoveFile => f # "legacy", Hooked(f)
  PROVE  Hooked(f)'
<1>0. TypeOK /\ PlaceInv /\ ShapeInv /\ ReadInv
  BY DEF IInv
<1>a. fs \in [Files -> File \cup {Absent}]
  BY <1>0 DEF TypeOK
<1>1. ASSUME fs'[f] = fs[f] PROVE Hooked(f)'
  BY <1>1 DEF Hooked
<1>2. CASE \/ NextAgent \/ AllDone \/ Capture \/ ReadFile \/ InstallFails \/ InstallDone
           \/ VerifyPasses \/ VerifyFails \/ RestoreDone \/ Crash \/ Rerun \/ UNCHANGED vars
  BY <1>1, <1>2 DEF NextAgent, AllDone, Capture, ReadFile, InstallFails, InstallDone,
     VerifyPasses, VerifyFails, RestoreDone, Crash, Rerun, vars
<1>3. CASE WriteFile
  <2>1. AtStep("write") /\ pc = "install" /\ (fs' = fs \/ fs' = [fs EXCEPT ![Target] = Merged(Target)])
    BY <1>3 DEF WriteFile, AtStep
  <2>2. Target \in Files /\ Target \in DOMAIN buf
    BY <1>0, <2>1, AtPlan, ReadBefore DEF Begun
  <2>3. Merged(Target).hook = "ours"
    BY <1>0, <2>2, MergedFile
  <2>4. QED
    BY <1>a, <2>1, <2>2, <2>3 DEF Hooked
<1>4. CASE RemoveFile
  <2>1. AtStep("remove") /\ (fs' = fs \/ fs' = [fs EXCEPT ![Target] = Absent])
    BY <1>4 DEF RemoveFile
  <2>2. Target = "legacy"
    BY <1>0, <2>1, AtPlan, PlanShape
  <2>3. QED
    BY <1>a, <1>1, <1>4, <2>1, <2>2
<1>5. CASE \E g \in Files : HostEdits(g)
  <2>1. PICK g \in Files : HostEdits(g)
    BY <1>5
  <2>2. (fs[g].hook \in {"old", "ours"} => fs[g] # Absent /\ fs'[g].hook = fs[g].hook)
        /\ \A h \in Files \ {g} : fs'[h] = fs[h]
    BY <1>a, <2>1 DEF HostEdits, Absent
  <2>3. QED
    BY <2>2 DEF Hooked
<1>6. QED
  BY <1>2, <1>3, <1>4, <1>5 DEF Next, Install

\* The legacy plugin goes when the new one is in place, and not before.
LEMMA PluginFirst ==
  ASSUME IInv, RemoveFile, fs' # fs
  PROVE  agent = "Opencode" /\ Hooked("plugin")
<1>0. TypeOK /\ PlaceInv /\ TurnInv
  BY DEF IInv
<1>1. AtStep("remove") /\ ~options.dryRun
  BY DEF RemoveFile
<1>2. /\ pc = "install" /\ agent \in Agents /\ step \in DOMAIN Plan[agent] /\ Op(agent, step) = "remove"
  BY <1>0, <1>1, AtPlan
<1>3. PICK j \in DOMAIN Plan[agent] : j < step /\ Op(agent, j) = "write" /\ On(agent, j) = "plugin"
  BY <1>2, PlanShape
<1>4. Ran(j)
  BY <1>3 DEF Ran
<1>5. Ours("plugin")
  BY <1>0, <1>1, <1>2, <1>3, <1>4 DEF TurnInv
<1>6. agent = "Opencode"
  BY <1>2, PlanShape
<1>7. QED
  BY <1>5, <1>6 DEF Ours, Hooked

\* An agent ptuf guards stays guarded at every step of an upgrade but those of a
\* rollback: a crash between two steps of install_one leaves it a hook, and
\* OpenCode has its new plugin before the legacy one goes.
THEOREM GuardTheorem == Spec => GuardKept
<1>1. ASSUME IInv, [Next]_vars, pc # "restore", NEW a \in Agents, Guarded(a)
      PROVE  Guarded(a)'
  <2>1. ~RestoreFile
    BY <1>1 DEF RestoreFile
  <2>2. TargetSet(a) \subseteq Files /\ (a # "Opencode" => "legacy" \notin TargetSet(a))
    BY TargetShape, TargetNames, TargetsApart, AgentNames
  <2>3. CASE a # "Opencode"
    <3>1. \A f \in TargetSet(a) : Hooked(f)
      BY <1>1, <2>3 DEF Guarded, Hooked
    <3>2. \A f \in TargetSet(a) : Hooked(f)'
      BY <1>1, <2>1, <2>2, <2>3, <3>1, HookedKept
    <3>3. QED
      BY <2>3, <3>2 DEF Guarded, Hooked
  <2>4. CASE a = "Opencode"
    <3>1. PICK f \in TargetSet(a) : Hooked(f)
      BY <1>1, <2>4 DEF Guarded, Hooked
    <3>2. "plugin" \in TargetSet(a) /\ "plugin" \in Files
      BY <2>4, TargetNames DEF Files
    <3>3. \E g \in TargetSet(a) : Hooked(g)'
      <4>1. CASE RemoveFile /\ fs' # fs
        <5>1. Hooked("plugin")'
          BY <1>1, <2>1, <3>2, <4>1, PluginFirst, HookedKept
        <5>2. QED
          BY <3>2, <5>1
      <4>2. CASE fs' = fs
        BY <3>1, <4>2 DEF Hooked
      <4>3. CASE ~RemoveFile
        BY <1>1, <2>1, <2>2, <3>1, <4>3, HookedKept
      <4>4. QED
        BY <4>1, <4>2, <4>3
    <3>4. QED
      BY <2>4, <3>3 DEF Guarded, Hooked
  <2>5. QED
    BY <2>3, <2>4
<1>2. IInv /\ [Next]_vars => [pc # "restore" => \A a \in Agents : Guarded(a) => Guarded(a)']_vars
  BY <1>1
<1>3. QED
  BY <1>2, Invariance, PTL DEF Spec, GuardKept
===============================================================================
