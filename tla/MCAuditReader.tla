---------------------------- MODULE MCAuditReader ----------------------------
(***************************************************************************)
(* Every snapshot of at most five bytes, cut in every way, with records of  *)
(* at most two bytes: a line may be blank, fit, just fit, or be too long   *)
(* within a chunk, across chunks and at the end of the file.               *)
(***************************************************************************)
EXTENDS AuditReader, TLC

ShortSnapshots == UNION {[1..n -> Bytes] : n \in 0..5}
MCFilters == {{"a", "b"}, {"a"}}
MCLimits == {0, 1}
=============================================================================
