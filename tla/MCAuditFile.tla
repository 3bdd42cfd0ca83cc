----------------------------- MODULE MCAuditFile -----------------------------
(***************************************************************************)
(* Process p1 with threads t1 (two records) and t2, process p2 with        *)
(* thread t3.                                                              *)
(***************************************************************************)
EXTENDS AuditFile, TLC

CONSTANTS p1, p2, t1, t2, t3, r1

TwoThreads == (t1 :> p1 @@ t2 :> p1 @@ t3 :> p2)
MCQuota == (t1 :> 2 @@ t2 :> 1 @@ t3 :> 1)
=============================================================================
