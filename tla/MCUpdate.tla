------------------------------ MODULE MCUpdate ------------------------------
(***************************************************************************)
(* Two updates at once, two directory names, releases 0 and 1 and the      *)
(* pre-release 2.                                                          *)
(***************************************************************************)
EXTENDS Update, TLC

CONSTANTS u1, u2, a, b

Opt(c, f, k, v) == [check |-> c, force |-> f, skip |-> k, version |-> v]
MCOptions == {Opt(FALSE, FALSE, FALSE, Latest), Opt(TRUE, FALSE, FALSE, Latest),
              Opt(FALSE, FALSE, FALSE, 0), Opt(FALSE, FALSE, TRUE, 1),
              Opt(FALSE, TRUE, FALSE, 0), Opt(FALSE, FALSE, FALSE, BadTag)}
MCForeign == {[tag |-> 0, attested |-> FALSE]}
Symmetry == Permutations({u1, u2}) \cup Permutations({a, b})
=============================================================================
