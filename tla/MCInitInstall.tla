---------------------------- MODULE MCInitInstall ----------------------------
(***************************************************************************)
(* One install of one agent over every tree it may find, the host editing  *)
(* its files (Single); and repeated runs, with two agents in one run or    *)
(* with an agent that upgrades older files (Repeated).                     *)
(***************************************************************************)
EXTENDS InitInstall, TLC

Merging(f) == {Absent} \cup [hook : {"none", "ours", "bad"}, user : {0}, mode : {"host"}]
KiroFile == Merging("agent1") \cup {[hook |-> "old", user |-> 0, mode |-> "host"]}
Owned(f) == {Absent} \cup [hook : {"none", "old", "ours"}, user : {0},
                           mode : {IF f = "wrapper" THEN "0700" ELSE "0600"}]
ConfigFile == Merging("config") \cup {[hook |-> h, user |-> 1, mode |-> "host"] : h \in {"old", "clash"}}
FileSet(f) == IF f \in Managed THEN Owned(f) ELSE IF f = "config" THEN ConfigFile
              ELSE IF f \in {"agent1", "agent2"} THEN KiroFile ELSE Merging(f)

\* Trees in which only the files of the agents in S exist.
TreesFor(S) ==
  LET F == UNION {TargetSet(a) : a \in S}
      G == UNION {FileSet(f) : f \in F}
  IN {[f \in Files |-> IF f \in F THEN t[f] ELSE Absent] :
        t \in {g \in [F -> G] : \A f \in F : g[f] \in FileSet(f)}}

Scene(qs, ts, e, r) == [queues |-> qs, trees |-> ts, edits |-> e, runs |-> r]
Alone(a, e, r) == Scene({<<a>>}, TreesFor({a}), e, r)
PlainTrees(S) == {t \in TreesFor(S) : \A f \in Files : t[f].hook \in {"absent", "none", "ours"}}
Pair(a, b) == Scene({<<a, b>>}, PlainTrees({a, b}), 0, 2)

Single == {Alone(a, 2, 1) : a \in Agents}
Repeated == {Pair("Codex", "Cline"), Pair("Opencode", "Codex"),
             Alone("KiroV2", 0, 2), Alone("Opencode", 0, 2)}
MCScenarios == Single \cup Repeated
OnlyCodex == {Alone("Codex", 0, 1)}
OnlyCline == {Alone("Cline", 0, 1)}

AllOptions == {[verify |-> TRUE, dryRun |-> FALSE], [verify |-> FALSE, dryRun |-> FALSE],
               [verify |-> FALSE, dryRun |-> TRUE]}
Verified == {[verify |-> TRUE, dryRun |-> FALSE]}
=============================================================================
