----------------------------- MODULE AuditReader -----------------------------
(***************************************************************************)
(* `ptuf audit`'s reader (scan_into and read_filtered in                   *)
(* src/audit/read.rs): the snapshot arrives in chunks cut anywhere, lines  *)
(* are put together in a buffer of bounded size, a line that is too long   *)
(* is passed over without being kept, and the last `limit` records that    *)
(* match the filter are returned with five counters.                       *)
(*                                                                         *)
(* A byte is a newline, a space or one of the letters of which a line is   *)
(* made; a line with the one letter "a" or "b" is a valid record of that   *)
(* kind, with the one letter "u" a record of another schema version, and   *)
(* any other line is invalid.                                              *)
(***************************************************************************)
EXTENDS Integers, Sequences, FiniteSets

CONSTANTS
  Snapshots,         \* what a file may hold up to its snapshot length
  Filters, Limits,   \* the kinds a filter lets through; 0 is no limit
  MaxRecordBytes,    \* MAX_AUDIT_RECORD_BYTES
  ChunkSize          \* the length of scan_into's tmp

NL == "nl"
Space == "sp"
Bytes == {NL, Space, "a", "b", "u"}

ASSUME ReaderAssumption ==
  /\ Snapshots \subseteq Seq(Bytes)
  /\ \A f \in Filters : f \subseteq {"a", "b"}
  /\ Limits \subseteq Nat /\ MaxRecordBytes \in Nat /\ ChunkSize \in Nat \ {0}

VARIABLES
  snapshot, filter, limit,
  pos,        \* bytes read
  rest,       \* what is left of the chunk
  buf,        \* the line so far
  oversized,  \* the line is being passed over
  counters,   \* lines_read, valid_records, matched, skipped_invalid, ...
  items,      \* the records kept
  rpc         \* "scan", "done" or "error"

given == <<snapshot, filter, limit>>
vars == <<given, pos, rest, buf, oversized, counters, items, rpc>>

Zero == [lines_read |-> 0, valid_records |-> 0, matched |-> 0, skipped_invalid |-> 0,
         skipped_unsupported_schema |-> 0, incomplete_tail |-> FALSE]

Init ==
  /\ snapshot \in Snapshots /\ filter \in Filters /\ limit \in Limits
  /\ pos = 0 /\ rest = <<>> /\ buf = <<>> /\ oversized = FALSE
  /\ counters = Zero /\ items = <<>> /\ rpc = "scan"

IsBlank(line) == \A i \in DOMAIN line : line[i] = Space
classify(line) ==
  LET letters == {i \in DOMAIN line : line[i] # Space}
  IN IF Cardinality(letters) = 1 THEN line[CHOOSE i \in letters : TRUE] ELSE "invalid"

\* Mutant: the window keeps the first records.
Accept_KeepsFirst(kind) ==
  IF limit > 0 /\ Len(items) = limit THEN items ELSE Append(items, kind)

Accept(kind) ==
  IF limit > 0 /\ Len(items) = limit THEN Append(Tail(items), kind) ELSE Append(items, kind)

\* apply_line.
Applied(c, line) ==
  LET kind == classify(line) IN
  IF kind = "invalid" THEN [c EXCEPT !.skipped_invalid = @ + 1]
  ELSE IF kind = "u" THEN [c EXCEPT !.skipped_unsupported_schema = @ + 1]
  ELSE [c EXCEPT !.valid_records = @ + 1,
                 !.matched = IF kind \in filter THEN @ + 1 ELSE @]

\* The position of the first newline of the chunk; 0 when there is none.
Newline == LET N == {i \in DOMAIN rest : rest[i] = NL}
           IN IF N = {} THEN 0 ELSE CHOOSE i \in N : \A j \in N : i <= j
AfterNewline == SubSeq(rest, Newline + 1, Len(rest))

ReadChunk ==
  /\ rpc = "scan" /\ rest = <<>> /\ pos < Len(snapshot)
  /\ \E n \in 1..ChunkSize :
       /\ pos + n <= Len(snapshot)
       /\ rest' = SubSeq(snapshot, pos + 1, pos + n)
       /\ pos' = pos + n
  /\ UNCHANGED <<given, buf, oversized, counters, items, rpc>>

ReadFails ==
  /\ rpc = "scan" /\ rest = <<>>
  /\ rpc' = "error"
  /\ UNCHANGED <<given, pos, rest, buf, oversized, counters, items>>

\* The end of a line that was too long, or a chunk without it.
PassOver ==
  /\ rpc = "scan" /\ rest # <<>> /\ oversized
  /\ IF Newline # 0
     THEN /\ oversized' = FALSE
          /\ counters' = [counters EXCEPT !.lines_read = @ + 1, !.skipped_invalid = @ + 1]
          /\ rest' = AfterNewline
     ELSE /\ rest' = <<>>
          /\ UNCHANGED <<oversized, counters>>
  /\ UNCHANGED <<given, pos, buf, items, rpc>>

\* Mutant: a line that ends in this chunk is taken whatever its length.
FinishLine_AnyLength ==
  /\ rpc = "scan" /\ rest # <<>> /\ ~oversized /\ Newline # 0
  /\ LET line == buf \o SubSeq(rest, 1, Newline - 1)
         c == [counters EXCEPT !.lines_read = @ + 1]
     IN IF IsBlank(line) THEN counters' = c /\ UNCHANGED items
        ELSE /\ counters' = Applied(c, line)
             /\ items' = IF classify(line) \in filter THEN Accept(classify(line)) ELSE items
  /\ buf' = <<>>
  /\ rest' = AfterNewline
  /\ UNCHANGED <<given, pos, oversized, rpc>>

\* A newline: the line is complete.
FinishLine ==
  /\ rpc = "scan" /\ rest # <<>> /\ ~oversized /\ Newline # 0
  /\ LET line == buf \o SubSeq(rest, 1, Newline - 1)
         c == [counters EXCEPT !.lines_read = @ + 1]
     IN IF Len(line) > MaxRecordBytes
        THEN counters' = [c EXCEPT !.skipped_invalid = @ + 1] /\ UNCHANGED items
        ELSE IF IsBlank(line) THEN counters' = c /\ UNCHANGED items
        ELSE /\ counters' = Applied(c, line)
             /\ items' = IF classify(line) \in filter THEN Accept(classify(line)) ELSE items
  /\ buf' = <<>>
  /\ rest' = AfterNewline
  /\ UNCHANGED <<given, pos, oversized, rpc>>

\* No newline: the buffer takes what it has room for, and one byte more
\* makes the line too long.
Buffer ==
  /\ rpc = "scan" /\ rest # <<>> /\ ~oversized /\ Newline = 0
  /\ LET room == MaxRecordBytes + 1 - Len(buf)
         take == IF Len(rest) < room THEN Len(rest) ELSE room
         longer == buf \o SubSeq(rest, 1, take)
     IN IF Len(longer) > MaxRecordBytes
        THEN /\ buf' = <<>> /\ oversized' = TRUE
             /\ rest' = SubSeq(rest, take + 1, Len(rest))
        ELSE /\ buf' = longer /\ rest' = <<>>
             /\ UNCHANGED oversized
  /\ UNCHANGED <<given, pos, counters, items, rpc>>

\* The end of the snapshot.
Finish ==
  /\ rpc = "scan" /\ rest = <<>> /\ pos = Len(snapshot)
  /\ counters' = IF oversized
                 THEN [counters EXCEPT !.lines_read = @ + 1, !.skipped_invalid = @ + 1,
                                       !.incomplete_tail = TRUE]
                 ELSE [counters EXCEPT !.incomplete_tail = (buf # <<>>)]
  /\ rpc' = "done"
  /\ UNCHANGED <<given, pos, rest, buf, oversized, items>>

Next == ReadChunk \/ ReadFails \/ PassOver \/ FinishLine \/ Buffer \/ Finish

Spec == Init /\ [][Next]_vars

-----------------------------------------------------------------------------
\* The same file read at once.

Ends == {i \in DOMAIN snapshot : snapshot[i] = NL}
Before(e) == {j \in Ends : j < e} \cup {0}
LineStart(e) == (CHOOSE j \in Before(e) : \A k \in Before(e) : k <= j) + 1
LineAt(e) == SubSeq(snapshot, LineStart(e), e - 1)
\* The bytes after the last newline.
TornTail == LineAt(Len(snapshot) + 1)
TooLong(line) == Len(line) > MaxRecordBytes
EndsOf(Kinds) == {e \in Ends : ~TooLong(LineAt(e)) /\ ~IsBlank(LineAt(e))
                               /\ classify(LineAt(e)) \in Kinds}
Bit(b) == IF b THEN 1 ELSE 0

Expected ==
  [lines_read |-> Cardinality(Ends) + Bit(TooLong(TornTail)),
   valid_records |-> Cardinality(EndsOf({"a", "b"})),
   matched |-> Cardinality(EndsOf(filter)),
   skipped_invalid |-> Cardinality(EndsOf({"invalid"}))
                       + Cardinality({e \in Ends : TooLong(LineAt(e))})
                       + Bit(TooLong(TornTail)),
   skipped_unsupported_schema |-> Cardinality(EndsOf({"u"})),
   incomplete_tail |-> TornTail # <<>>]

-----------------------------------------------------------------------------
\* Properties.

ReaderTypeOK ==
  /\ snapshot \in Snapshots /\ filter \in Filters /\ limit \in Limits
  /\ pos \in 0..Len(snapshot)
  /\ rest \in Seq(Bytes) /\ buf \in Seq(Bytes \ {NL})
  /\ oversized \in BOOLEAN
  /\ counters \in [lines_read : Nat, valid_records : Nat, matched : Nat,
                   skipped_invalid : Nat, skipped_unsupported_schema : Nat,
                   incomplete_tail : BOOLEAN]
  /\ items \in Seq({"a", "b"})
  /\ rpc \in {"scan", "done", "error"}

\* Wherever the chunks are cut, the counters are those of the file split at
\* its newlines: no line is counted twice, joined to its neighbour or missed.
CountersExact == rpc = "done" => counters = Expected

\* The records returned are the newest `limit` that match, in file order, none
\* of them twice: what is left out is older than all of them, and only for a limit.
NewestReturned ==
  rpc = "done" =>
    /\ limit # 0 => Len(items) <= limit
    /\ \E at \in [DOMAIN items -> EndsOf(filter)] :
         /\ \A i, j \in DOMAIN items : i < j => at[i] < at[j]
         /\ \A i \in DOMAIN items : items[i] = classify(LineAt(at[i]))
         /\ \A e \in EndsOf(filter) :
              (\A i \in DOMAIN items : at[i] # e) =>
                limit # 0 /\ Len(items) = limit /\ \A i \in DOMAIN items : e < at[i]

\* However long a line, at most MaxRecordBytes of it are kept between reads.
MemoryBounded == Len(buf) <= MaxRecordBytes /\ (oversized => buf = <<>>)
=============================================================================
