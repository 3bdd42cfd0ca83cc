----------------------------- MODULE InitInstall -----------------------------
(***************************************************************************)
(* `ptuf init` (run_init_with and install_one in src/cli/run.rs, capture,  *)
(* restore and the writers in src/init/mod.rs, and the adapters' install   *)
(* functions): for each agent in turn, capture its files, merge ptuf's     *)
(* hook into them one after the other, verify, and roll back when the      *)
(* check fails.  Every read and write may fail, the host may edit its own  *)
(* files at any moment, and the process may be killed between two steps.   *)
(*                                                                         *)
(* A file is what ptuf reads of it: its hook entry, a count of what the    *)
(* host has put in it, and its mode.  One file of the tree stands for each *)
(* target.  Copilot goes the way of Claude Code, Pi that of Cline; Cursor  *)
(* and Kiro v3, which rewrite an entry of ptuf's that is not as they would *)
(* write it, that of Kiro v2 with one file.                                *)
(***************************************************************************)
EXTENDS Integers, Sequences, FiniteSets

CONSTANTS
  Scenarios,  \* [queues, trees, edits, runs]: the lists of agents `ptuf init` may
              \* be run for, the file trees it may find; bounds: the edits of the
              \* host in each file, the runs of ptuf init
  Options     \* [verify, dryRun]

Files == {"settings", "hooks", "config", "agent1", "agent2", "wrapper", "plugin", "legacy"}
\* Files ptuf owns as a whole; the others it merges into.
Managed == {"wrapper", "plugin", "legacy"}

Targets ==
  [ClaudeCode |-> <<"settings">>, Codex |-> <<"hooks", "config">>,
   KiroV2 |-> <<"agent1", "agent2">>, Cline |-> <<"wrapper">>,
   Opencode |-> <<"plugin", "legacy">>]
Agents == DOMAIN Targets
TargetSet(a) == {Targets[a][i] : i \in DOMAIN Targets[a]}

\* "old": an entry of an earlier version, which ptuf rewrites; "bad": what
\* ptuf cannot parse or find its way in; "clash": a value of the host's, one
\* of those that `user` counts, where Codex's table `features` belongs.  For a
\* managed file, "none" is a file of the user's.
Hooks == {"none", "old", "ours", "bad", "clash"}
File == {f \in [hook : Hooks, user : Nat, mode : {"host", "0600", "0700"}] :
           f.hook = "clash" => f.user > 0}
Absent == [hook |-> "absent", user |-> 0, mode |-> "none"]
Content(f) == [hook |-> f.hook, user |-> f.user]

ASSUME InitAssumption ==
  /\ \A s \in Scenarios :
       /\ s.queues \subseteq Seq(Agents)
       /\ \A u \in s.queues :  \* the one asked for, or those detected, each once
            u # <<>> /\ \A i, j \in DOMAIN u : u[i] = u[j] => i = j
       /\ s.trees \subseteq [Files -> File \cup {Absent}]
       /\ \A t \in s.trees, f \in Managed : t[f].hook # "bad" /\ t[f].user = 0
       /\ \A t \in s.trees, f \in Files : t[f].hook = "clash" => f = "config"
       /\ s.edits \in Nat /\ s.runs \in Nat \ {0}
  /\ Options \subseteq {o \in [verify : BOOLEAN, dryRun : BOOLEAN] : ~(o.verify /\ o.dryRun)}

\* What each adapter's install does to its files, in order.  It reads all it
\* needs of a file before it writes that file.
ClaudeCodePlan == <<<<"read", "settings">>, <<"write", "settings">>>>

\* Mutant: Codex gets its hook and not the switch that enables hooks.
CodexPlan_HooksOnly ==
  <<<<"read", "hooks">>, <<"read", "config">>, <<"write", "hooks">>>>

CodexPlan ==
  <<<<"read", "hooks">>, <<"read", "config">>, <<"write", "hooks">>, <<"write", "config">>>>

KiroPlan ==
  <<<<"read", "agent1">>, <<"write", "agent1">>, <<"read", "agent2">>, <<"write", "agent2">>>>

ClinePlan == <<<<"read", "wrapper">>, <<"write", "wrapper">>>>

\* Mutant: the legacy plugin goes first.
OpencodePlan_LegacyFirst ==
  <<<<"read", "legacy">>, <<"remove", "legacy">>, <<"read", "plugin">>, <<"write", "plugin">>>>

OpencodePlan ==
  <<<<"read", "plugin">>, <<"write", "plugin">>, <<"read", "legacy">>, <<"remove", "legacy">>>>

Plan == [ClaudeCode |-> ClaudeCodePlan, Codex |-> CodexPlan, KiroV2 |-> KiroPlan,
         Cline |-> ClinePlan, Opencode |-> OpencodePlan]

-----------------------------------------------------------------------------
VARIABLES
  scene,    \* the scenario
  fs,       \* the tree
  queue, options,
  pc,       \* "next", "capture", "install", "verify", "restore", "done", "crashed"
  q, step,  \* the agent's place in the queue; the step of its plan, or of restore
  snap,     \* what capture read
  buf,      \* what the plan's reads returned
  wrote,    \* the files the plan found in need of a write
  stuck,    \* the files restore could not put back
  result,   \* for each agent: "none", "ok", "error", "failed", "rolled back", "rollback failed"
  exit,     \* `overall`
  runs,     \* runs begun
  start,    \* history: the tree when the agent's turn began, but a file that
            \* ptuf has not yet read in this turn is as the host has left it
  touched,  \* history: files the host has edited since ptuf read them
  earlier   \* history: agents an earlier run has installed

run == <<scene, queue, options, q>>
history == <<start, touched, earlier, runs>>
vars == <<fs, run, pc, step, snap, buf, wrote, stuck, result, exit, history>>

agent == queue[q]

Begin ==
  /\ queue' \in scene.queues /\ options' \in Options
  /\ pc' = "next" /\ q' = 0 /\ step' = 1
  /\ snap' = <<>> /\ buf' = <<>> /\ wrote' = {} /\ stuck' = {}
  /\ result' = [a \in Agents |-> "none"]
  /\ exit' = 0
  /\ touched' = {}

Init ==
  /\ scene \in Scenarios
  /\ fs \in scene.trees /\ start = fs
  /\ queue \in scene.queues /\ options \in Options
  /\ pc = "next" /\ q = 0 /\ step = 1
  /\ snap = <<>> /\ buf = <<>> /\ wrote = {} /\ stuck = {}
  /\ result = [a \in Agents |-> "none"]
  /\ exit = 0 /\ runs = 1
  /\ touched = {} /\ earlier = {}

\* The agent's turn ends.
EndTurn(r) ==
  /\ result' = [result EXCEPT ![agent] = r]
  /\ pc' = "next"

\* Mutant: the exit code is that of the last agent.
FailTurn_LastWins(r) == EndTurn(r) /\ exit' = IF q = Len(queue) THEN 1 ELSE 0

FailTurn(r) == EndTurn(r) /\ exit' = 1

\* The next turn.  When AgentPlan::resolve fails it fails as Capture or the
\* first step of the plan would.
NextAgent ==
  /\ pc = "next" /\ q < Len(queue)
  /\ q' = q + 1
  /\ pc' = IF options.verify THEN "capture" ELSE "install"
  /\ step' = 1 /\ snap' = <<>> /\ buf' = <<>> /\ wrote' = {} /\ stuck' = {}
  /\ start' = fs /\ touched' = {}
  /\ UNCHANGED <<scene, fs, queue, options, result, exit, earlier, runs>>

AllDone ==
  /\ pc = "next" /\ q = Len(queue)
  /\ pc' = "done"
  /\ UNCHANGED <<stuck, fs, run, step, snap, buf, wrote, result, exit, history>>

\* Mutant: only the first target is captured.
Capture_FirstOnly ==
  /\ pc = "capture"
  /\ \/ /\ snap' = [f \in {Targets[agent][1]} |-> Content(fs[f])]
        /\ pc' = "install"
        /\ UNCHANGED <<result, exit>>
     \/ /\ FailTurn("error")
        /\ UNCHANGED snap
  /\ UNCHANGED <<stuck, fs, run, step, buf, wrote, history>>

\* init::capture: the bytes of every target, or an error.
Capture ==
  /\ pc = "capture"
  /\ \/ /\ snap' = [f \in TargetSet(agent) |-> Content(fs[f])]
        /\ pc' = "install"
        /\ UNCHANGED <<result, exit>>
     \/ /\ FailTurn("error")
        /\ UNCHANGED snap
  /\ UNCHANGED <<stuck, fs, run, step, buf, wrote, history>>

-----------------------------------------------------------------------------
\* The adapter's plan.

AtStep(op) == pc = "install" /\ step <= Len(Plan[agent]) /\ Plan[agent][step][1] = op
Target == Plan[agent][step][2]

\* Mutant: whatever is there is ptuf's to replace.
Refused_Never(f) == fs[f].hook = "bad"

\* A document ptuf cannot merge into, or a hook file ptuf did not write.
Refused(f) ==
  \/ fs[f].hook = "bad"
  \/ f \in Managed \ {"legacy"} /\ fs[f].hook = "none"

ReadFile ==
  /\ AtStep("read")
  /\ ~Refused(Target)
  /\ buf' = [f \in DOMAIN buf \cup {Target} |-> IF f = Target THEN fs[f] ELSE buf[f]]
  /\ step' = step + 1
  /\ UNCHANGED <<stuck, fs, run, pc, snap, wrote, result, exit, history>>

\* Mutant: an entry that is already there is not recognised.
NeedsWrite_Always(f) == buf[f].hook \in Hooks

NeedsWrite(f) == buf[f].hook # "ours"

\* What a merge leaves of the host's: ensure_hooks_enabled puts a table in the
\* place of a `features` that is not one.
Kept(c) == IF c.hook = "clash" THEN c.user - 1 ELSE c.user

\* Mutant: the file is written from the default document.
Merged_Fresh(f) ==
  [hook |-> "ours", user |-> 0, mode |-> IF f = "wrapper" THEN "0700" ELSE "0600"]

\* The file a write leaves: what was read, with ptuf's entry.
Merged(f) ==
  [hook |-> "ours", user |-> Kept(buf[f]),
   mode |-> IF f = "wrapper" THEN "0700" ELSE "0600"]

WriteFile ==
  /\ AtStep("write")
  /\ IF NeedsWrite(Target)
     THEN /\ wrote' = wrote \cup {Target}
          /\ fs' = IF options.dryRun THEN fs ELSE [fs EXCEPT ![Target] = Merged(Target)]
     ELSE UNCHANGED <<fs, wrote>>
  /\ step' = step + 1
  /\ UNCHANGED <<stuck, run, pc, snap, buf, result, exit, history>>

\* remove_legacy_managed_plugin.  The status does not hear of it.
RemoveFile ==
  /\ AtStep("remove")
  /\ fs' = IF buf[Target].hook \in {"old", "ours"} /\ ~options.dryRun
           THEN [fs EXCEPT ![Target] = Absent] ELSE fs
  /\ step' = step + 1
  /\ UNCHANGED <<stuck, run, pc, snap, buf, wrote, result, exit, history>>

\* Any step may fail, and a refused file does: `?` leaves install_one.
InstallFails ==
  /\ pc = "install" /\ step <= Len(Plan[agent])
  /\ FailTurn("error")
  /\ UNCHANGED <<stuck, fs, run, step, snap, buf, wrote, history>>

InstallDone ==
  /\ pc = "install" /\ step > Len(Plan[agent])
  /\ IF options.verify
     THEN pc' = "verify" /\ UNCHANGED result
     ELSE EndTurn("ok")
  /\ UNCHANGED <<stuck, fs, run, step, snap, buf, wrote, exit, history>>

-----------------------------------------------------------------------------
\* verify and rollback.

VerifyPasses ==
  /\ pc = "verify"
  /\ EndTurn("ok")
  /\ UNCHANGED <<stuck, fs, run, step, snap, buf, wrote, exit, history>>

\* Only an install that wrote something is rolled back.
VerifyFails ==
  /\ pc = "verify"
  /\ IF wrote # {}
     THEN /\ pc' = "restore" /\ step' = 1 /\ exit' = 1
          /\ UNCHANGED result
     ELSE FailTurn("failed") /\ UNCHANGED step
  /\ UNCHANGED <<stuck, fs, run, snap, buf, wrote, history>>

\* restore_one: remove what was not there, write back what was.
Restored(f) ==
  IF snap[f].hook = "absent" THEN Absent
  ELSE [hook |-> snap[f].hook, user |-> snap[f].user, mode |-> "0600"]

\* init::restore: every captured file is tried, whatever became of the others.
RestoreFile ==
  /\ pc = "restore" /\ step <= Len(Targets[agent])
  /\ LET f == Targets[agent][step] IN
       \/ /\ fs' = IF f \in DOMAIN snap THEN [fs EXCEPT ![f] = Restored(f)] ELSE fs
          /\ UNCHANGED stuck
       \/ /\ stuck' = stuck \cup {f}
          /\ UNCHANGED fs
  /\ step' = step + 1
  /\ UNCHANGED <<run, pc, snap, buf, wrote, result, exit, history>>

RestoreDone ==
  /\ pc = "restore" /\ step > Len(Targets[agent])
  /\ EndTurn(IF stuck = {} THEN "rolled back" ELSE "rollback failed")
  /\ UNCHANGED <<stuck, fs, run, step, snap, buf, wrote, exit, history>>

-----------------------------------------------------------------------------
\* The world.

\* The host rewrites a settings file of its own, keeping the hooks in it.
HostEdits(f) ==
  /\ f \notin Managed
  /\ \E a \in {queue[i] : i \in DOMAIN queue} : f \in TargetSet(a)
  /\ fs[f].hook # "bad" /\ fs[f].user < scene.edits
  /\ fs' = [fs EXCEPT ![f] =
              [hook |-> IF @ = Absent THEN "none" ELSE @.hook, user |-> @.user + 1,
               mode |-> "host"]]
  /\ IF f \in DOMAIN snap \cup DOMAIN buf
     THEN touched' = touched \cup {f} /\ UNCHANGED start
     ELSE start' = [start EXCEPT ![f] = fs'[f]] /\ UNCHANGED touched
  /\ UNCHANGED <<stuck, run, pc, step, snap, buf, wrote, result, exit, earlier, runs>>

Crash ==
  /\ pc \notin {"done", "crashed"}
  /\ pc' = "crashed"
  /\ UNCHANGED <<stuck, fs, run, step, snap, buf, wrote, result, exit, history>>

\* ptuf init is run again.
Rerun ==
  /\ pc \in {"done", "crashed"} /\ runs < scene.runs
  /\ Begin
  /\ runs' = runs + 1
  /\ start' = fs
  /\ earlier' = {a \in Agents : result[a] = "ok" /\ ~options.dryRun}
  /\ UNCHANGED <<scene, fs>>

Install ==
  \/ NextAgent \/ AllDone \/ Capture
  \/ ReadFile \/ WriteFile \/ RemoveFile \/ InstallFails \/ InstallDone
  \/ VerifyPasses \/ VerifyFails \/ RestoreFile \/ RestoreDone

Next == Install \/ (\E f \in Files : HostEdits(f)) \/ Crash \/ Rerun

Spec == Init /\ [][Next]_vars

-----------------------------------------------------------------------------
\* Properties.

TypeOK ==
  /\ fs \in [Files -> File \cup {Absent}] /\ start \in [Files -> File \cup {Absent}]
  /\ scene \in Scenarios /\ queue \in scene.queues /\ options \in Options
  /\ pc \in {"next", "capture", "install", "verify", "restore", "done", "crashed"}
  /\ q \in 0..Len(queue) /\ step \in 1..5
  /\ DOMAIN snap \subseteq Files /\ DOMAIN buf \subseteq Files
  /\ wrote \subseteq Files /\ stuck \subseteq Files /\ touched \subseteq Files
  /\ result \in [Agents -> {"none", "ok", "error", "failed", "rolled back", "rollback failed"}]
  /\ exit \in {0, 1} /\ runs \in 1..scene.runs /\ earlier \subseteq Agents

\* The turn of the current agent ended with r.
Ended(r) == q > 0 /\ pc \in {"next", "done"} /\ result[agent] = r
\* The files hold what they held when ptuf read them, but those the host has
\* edited since.
Untouched ==
  \A f \in TargetSet(agent) \ touched : Content(fs[f]) = Content(start[f])

\* A rollback reported as done is a rollback of every file the install
\* changed, the legacy plugin it removed included.
TreeRestored == Ended("rolled back") => Untouched

\* What ptuf reports is so.  An agent reported as installed has ptuf in every
\* one of its files, and in OpenCode no second plugin, whatever ptuf does for a
\* later agent; and exit code 0 says that of all the agents asked for.
InstalledMeansGuarded ==
  /\ \A a \in Agents : (result[a] = "ok" /\ ~options.dryRun) =>
       \A f \in TargetSet(a) : IF f = "legacy" THEN fs[f].hook \notin {"old", "ours"}
                              ELSE fs[f].hook = "ours"
  /\ pc = "done" => (exit = 0 <=> \A i \in DOMAIN queue : result[queue[i]] = "ok")

\* What the host had in a file when ptuf first read it in the turn, an edit of
\* a moment before included, survives a merge, a failed write, a rollback and a
\* crash, but for a `features` in Codex's config.toml that is not a table; and a
\* file of the user's where ptuf would put its own is neither replaced nor
\* removed.  An edit made after the read may be lost: ptuf takes no lock.
HostContentKept ==
  /\ \A f \in Files : Kept(fs[f]) >= Kept(start[f])
  /\ \A f \in Managed : start[f].hook = "none" => Content(fs[f]) = Content(start[f])

\* Running ptuf init again finds its own work and writes nothing.
RerunIdempotent == (q > 0 /\ agent \in earlier) => wrote = {}

\* The files ptuf is found in: all an agent has, or one of OpenCode's two.
Guarded(a) ==
  IF a = "Opencode" THEN \E f \in TargetSet(a) : fs[f].hook \in {"old", "ours"}
  ELSE \A f \in TargetSet(a) : fs[f].hook \in {"old", "ours"}

\* An agent that is guarded stays guarded at every step of an upgrade, so a
\* crash cannot leave it without a hook (a rollback may, see the README).
GuardKept == [][pc # "restore" => \A a \in Agents : Guarded(a) => Guarded(a)']_vars

\* docs/design/cli-and-hooks.md:306: with verify on, a write that fails in the
\* middle of an install is rolled back.
FailedInstallRestored == (options.verify /\ Ended("error")) => Untouched

\* src/init/mod.rs:265: restore can put the tree back exactly as it was.
RestoredExactly ==
  Ended("rolled back") => \A f \in TargetSet(agent) \ touched : fs[f] = start[f]
=============================================================================
