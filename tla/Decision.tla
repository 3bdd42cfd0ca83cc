------------------------------ MODULE Decision ------------------------------
(***************************************************************************)
(* The four decisions and their order (src/decision.rs), and which of them *)
(* the audit configuration asks to record (src/engine/mod.rs).             *)
(***************************************************************************)
EXTENDS Integers

Kinds == {"allow", "monitor", "ask", "deny"}
None == "none"
Rank == [k \in Kinds |-> CASE k = "allow" -> 0 [] k = "monitor" -> 1
                           [] k = "ask" -> 2 [] k = "deny" -> 3]
Stricter(a, b) == Rank[a] > Rank[b]
AtLeast(a, b) == Rank[a] >= Rank[b]

\* Mutant: what monitor mode demoted counts as denied.
should_record_AllStrict(k, c) ==
  IF k = "allow" THEN c.includeAllowed ELSE c.includeDenied

should_record(k, c) ==
  CASE k = "allow" -> c.includeAllowed
    [] k = "deny" -> c.includeDenied
    [] OTHER -> TRUE
=============================================================================
