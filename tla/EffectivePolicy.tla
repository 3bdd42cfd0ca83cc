--------------------------- MODULE EffectivePolicy ---------------------------
(***************************************************************************)
(* What loading a policy promises: it ends with the effective policy of    *)
(* what was read of each scope and a set of rules none of which takes the  *)
(* id of another, of a builtin rule or of the reserved namespace; or it    *)
(* fails, and then there is no policy at all.                              *)
(***************************************************************************)
EXTENDS PolicyFields

CONSTANTS RuleIds, Builtin, Reserved, NoPolicy

VARIABLES
  read,    \* what was read of each scope
  status,  \* "loading", "ready" or "failed"
  policy,  \* the policy in force, or NoPolicy
  rules    \* the ids of the plugin rules in force

vars == <<read, status, policy, rules>>

Init ==
  /\ read = [s \in Scopes |-> Absent]
  /\ status = "loading" /\ policy = NoPolicy /\ rules = <<>>

Read(s) ==
  /\ status = "loading" /\ read[s] = Absent
  /\ read'[s] \in Layer
  /\ read' = [read EXCEPT ![s] = read'[s]]
  /\ UNCHANGED <<status, policy, rules>>

Distinct(ids) ==
  /\ \A i, j \in DOMAIN ids : ids[i] = ids[j] => i = j
  /\ \A i \in DOMAIN ids : ids[i] \notin Builtin \cup Reserved

Ready ==
  /\ status = "loading" /\ status' = "ready"
  /\ policy' = Effective(read)
  /\ rules' \in Seq(RuleIds) /\ Distinct(rules')
  /\ UNCHANGED read

Fail ==
  /\ status = "loading" /\ status' = "failed"
  /\ UNCHANGED <<read, policy, rules>>

Next == Ready \/ Fail \/ \E s \in Scopes : Read(s)

Spec == Init /\ [][Next]_vars
=============================================================================
