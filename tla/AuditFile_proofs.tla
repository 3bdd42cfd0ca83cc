--------------------------- MODULE AuditFile_proofs ---------------------------
(***************************************************************************)
(* Proofs about AuditFile, for any processes, threads, readers, pieces and *)
(* bounds.  Two inductive invariants, the second relative to the first:    *)
(* Locks says who is where in `record` and holds what; Content says what   *)
(* the file then holds.                                                    *)
(***************************************************************************)
EXTENDS AuditFile, FiniteSetTheorems, SequenceTheorems, TLAPS

\* The Mutex and the file lock are held by whom the program counters say,
\* and a reader and a writer never hold the file lock together.
Locks ==
  /\ TypeOK
  /\ \A t \in Threads : pc[t] \in Inside =>
       mutex[ProcOf[t]] = t /\ count[t] \in 1..MaxRecords
  /\ \A t \in Threads : pc[t] \in Critical => flock = ProcOf[t]
  /\ \A r \in Readers : rpc[r] = "locked" => r \in shared
  /\ shared = {} \/ flock = Nobody

LEMMA LocksInit == Init => Locks
<1> SUFFICES ASSUME Init PROVE Locks
    OBVIOUS
<1> USE ProcOfAssumption, NobodyAssumption, PiecesAssumption, RecordBoundAssumption
<1>1. TypeOK
    BY DEF Init, TypeOK, Line, Records
<1> QED
    BY <1>1 DEF Init, Locks, Inside, Critical

LEMMA CurrentIsRecord ==
  ASSUME Locks, NEW t \in Threads, pc[t] \in Inside
  PROVE  Current(t) \in Records /\ Current(t) \in Started
BY DEF Locks, TypeOK, Current, Records, Started

\* Ending the last line keeps the file a sequence of lines.
LEMMA EndLineFacts ==
  ASSUME NEW ls \in Seq(Line), ls # <<>>
  PROVE  /\ EndLine(ls) \in Seq(Line)
         /\ Len(EndLine(ls)) = Len(ls)
         /\ \A i \in 1..Len(ls) :
              /\ EndLine(ls)[i].recs = ls[i].recs
              /\ EndLine(ls)[i].size = ls[i].size
              /\ i # Len(ls) => EndLine(ls)[i] = ls[i]
         /\ EndLine(ls)[Len(ls)].nl = TRUE
<1> DEFINE last == ls[Len(ls)]
<1>1. Len(ls) \in 1..Len(ls) /\ last \in Line
    OBVIOUS
<1>3. [recs |-> last.recs, size |-> last.size, nl |-> TRUE] \in Line
    BY <1>1 DEF Line
<1>4. EndLine(ls) = [ls EXCEPT ![Len(ls)] = [recs |-> last.recs, size |-> last.size, nl |-> TRUE]]
    BY <1>1 DEF EndLine
<1>5. EndLine(ls) \in Seq(Line) /\ Len(EndLine(ls)) = Len(ls)
    BY <1>1, <1>3, <1>4, ExceptSeq
<1> QED
    BY <1>1, <1>4, <1>5

LEMMA EndLineType == ASSUME NEW ls \in Seq(Line) PROVE EndLine(ls) \in Seq(Line)
<1>1. CASE ls = <<>>
    <2>1. DOMAIN EndLine(ls) = 1..0 /\ Len(ls) = 0
        BY <1>1 DEF EndLine
    <2>2. EndLine(ls) = [i \in 1..0 |-> ls[i]]
        BY <1>1, <2>1 DEF EndLine
    <2> QED
        BY <2>2
<1>2. CASE ls # <<>>
    BY <1>2, EndLineFacts
<1> QED
    BY <1>1, <1>2

\* One more piece of rec: in the last line when it is torn, else in a new one.
LEMMA AppendPieceFacts ==
  ASSUME NEW ls \in Seq(Line), NEW rec \in Records
  PROVE  /\ AppendPiece(ls, rec) \in Seq(Line)
         /\ AppendPiece(ls, rec) # <<>>
         /\ (ls # <<>> /\ ~ls[Len(ls)].nl)
              => /\ Len(AppendPiece(ls, rec)) = Len(ls)
                 /\ \A i \in 1..Len(ls) : i # Len(ls) => AppendPiece(ls, rec)[i] = ls[i]
                 /\ AppendPiece(ls, rec)[Len(ls)].recs = ls[Len(ls)].recs \cup {rec}
                 /\ AppendPiece(ls, rec)[Len(ls)].size = ls[Len(ls)].size + 1
                 /\ AppendPiece(ls, rec)[Len(ls)].nl = FALSE
         /\ ~(ls # <<>> /\ ~ls[Len(ls)].nl)
              => /\ Len(AppendPiece(ls, rec)) = Len(ls) + 1
                 /\ \A i \in 1..Len(ls) : AppendPiece(ls, rec)[i] = ls[i]
                 /\ AppendPiece(ls, rec)[Len(ls) + 1].recs = {rec}
                 /\ AppendPiece(ls, rec)[Len(ls) + 1].size = 1
                 /\ AppendPiece(ls, rec)[Len(ls) + 1].nl = FALSE
<1>1. CASE ls # <<>> /\ ~ls[Len(ls)].nl
    <2> DEFINE last == ls[Len(ls)]
               more == [recs |-> last.recs \cup {rec}, size |-> last.size + 1, nl |-> FALSE]
    <2>1. Len(ls) \in 1..Len(ls) /\ last \in Line
        BY <1>1
    <2>2. more \in Line
        BY <2>1 DEF Line
    <2>3. AppendPiece(ls, rec) = [ls EXCEPT ![Len(ls)] = more]
        BY <1>1, <2>1 DEF AppendPiece
    <2> HIDE DEF more
    <2>4. AppendPiece(ls, rec) \in Seq(Line) /\ Len(AppendPiece(ls, rec)) = Len(ls)
        BY <2>1, <2>2, <2>3, ExceptSeq
    <2>5. AppendPiece(ls, rec)[Len(ls)] = more
        BY <2>1, <2>2, <2>3, ExceptSeq
    <2>6. \A i \in 1..Len(ls) : i # Len(ls) => AppendPiece(ls, rec)[i] = ls[i]
        BY <2>1, <2>2, <2>3, ExceptSeq
    <2> QED
        BY <1>1, <2>4, <2>5, <2>6 DEF more
<1>2. CASE ~(ls # <<>> /\ ~ls[Len(ls)].nl)
    <2> DEFINE new == [recs |-> {rec}, size |-> 1, nl |-> FALSE]
    <2>1. new \in Line
        BY DEF Line
    <2>2. AppendPiece(ls, rec) = Append(ls, new)
        BY <1>2 DEF AppendPiece
    <2> QED
        BY <1>2, <2>1, <2>2
<1> QED
    BY <1>1, <1>2

\* A step that ends processes or attempts, or moves one thread forward in
\* `record`, keeps the type invariant.
LEMMA TypeStep == Locks /\ [Next]_vars => TypeOK'
<1> SUFFICES ASSUME Locks, [Next]_vars PROVE TypeOK'
    OBVIOUS
<1> USE ProcOfAssumption, NobodyAssumption, PiecesAssumption, RecordBoundAssumption
<1>0. TypeOK
    BY DEF Locks
<1>1. ASSUME NEW t \in Threads, TakeMutex(t) PROVE TypeOK'
    <2>1. count[t] \in 0..MaxRecords /\ Quota[t] \in 0..MaxRecords /\ count[t] < Quota[t]
        BY <1>0, <1>1, QuotaAssumption DEF TypeOK, TakeMutex
    <2>2. count[t] + 1 \in 0..MaxRecords
        BY <2>1
    <2> QED
        BY <1>0, <1>1, <2>2 DEF TypeOK, TakeMutex, Inside
<1>2. ASSUME NEW t \in Threads, Flock(t) PROVE TypeOK'
    BY <1>0, <1>2 DEF TypeOK, Flock, Inside
<1>3. ASSUME NEW t \in Threads, FlockFails(t) PROVE TypeOK'
    <2>1. Current(t) \in Records
        BY <1>3, CurrentIsRecord DEF FlockFails, Inside
    <2> QED
        BY <1>0, <1>3, <2>1 DEF TypeOK, FlockFails, Inside
<1>4. ASSUME NEW t \in Threads, TerminateTornTail(t) PROVE TypeOK'
    <2>1. lines' \in Seq(Line)
        BY <1>0, <1>4, EndLineType DEF TypeOK, TerminateTornTail
    <2> QED
        BY <1>0, <1>4, <2>1 DEF TypeOK, TerminateTornTail, Inside
<1>5. ASSUME NEW t \in Threads, WritePiece(t) PROVE TypeOK'
    <2>1. Current(t) \in Records
        BY <1>5, CurrentIsRecord DEF WritePiece, Inside
    <2>2. lines' \in Seq(Line)
        BY <1>0, <1>5, <2>1, AppendPieceFacts DEF TypeOK, WritePiece
    <2> QED
        BY <1>0, <1>5, <2>2 DEF TypeOK, WritePiece
<1>6. ASSUME NEW t \in Threads, WriteNewline(t) PROVE TypeOK'
    <2>1. lines' \in Seq(Line)
        BY <1>0, <1>6, EndLineType DEF TypeOK, WriteNewline
    <2> QED
        BY <1>0, <1>6, <2>1 DEF TypeOK, WriteNewline, Inside
<1>7. ASSUME NEW t \in Threads, WriteFails(t) PROVE TypeOK'
    BY <1>0, <1>7 DEF TypeOK, WriteFails, Inside
<1>8. ASSUME NEW t \in Threads, Unlock(t) PROVE TypeOK'
    <2>1. Current(t) \in Records
        BY <1>8, CurrentIsRecord DEF Unlock, Inside
    <2> QED
        BY <1>0, <1>8, <2>1 DEF TypeOK, Unlock, Return, Inside
<1>9. ASSUME NEW t \in Threads, UnlockFails(t) PROVE TypeOK'
    <2>1. Current(t) \in Records
        BY <1>9, CurrentIsRecord DEF UnlockFails, Inside
    <2> QED
        BY <1>0, <1>9, <2>1 DEF TypeOK, UnlockFails, Return, Inside
<1>10. ASSUME NEW p \in Procs, Exit(p) PROVE TypeOK'
    BY <1>0, <1>10 DEF TypeOK, Exit, Close, Inside
<1>11. ASSUME NEW p \in Procs, Kill(p) PROVE TypeOK'
    BY <1>0, <1>11 DEF TypeOK, Kill, Close, Inside
<1>12. ASSUME NEW p \in Procs, Open(p) PROVE TypeOK'
    BY <1>0, <1>12 DEF TypeOK, Open
<1>13. ASSUME NEW r \in Readers, LockShared(r) PROVE TypeOK'
    BY <1>0, <1>13 DEF TypeOK, LockShared
<1>14. ASSUME NEW r \in Readers, TakeLength(r) PROVE TypeOK'
    BY <1>0, <1>14 DEF TypeOK, TakeLength
<1>15. ASSUME NEW r \in Readers, TakeLengthUnlocked(r) PROVE TypeOK'
    BY <1>0, <1>15 DEF TypeOK, TakeLengthUnlocked
<1>16. ASSUME NEW r \in Readers, TakeLengthKeepsLock(r) PROVE TypeOK'
    BY <1>0, <1>16 DEF TypeOK, TakeLengthKeepsLock
<1>17. ASSUME NEW r \in Readers, LengthFails(r) \/ CloseSnapshot(r) PROVE TypeOK'
    <2>1. CASE LengthFails(r)
        BY <1>0, <2>1 DEF TypeOK, LengthFails
    <2>2. CASE CloseSnapshot(r)
        BY <1>0, <2>2 DEF TypeOK, CloseSnapshot
    <2> QED
        BY <1>17, <2>1, <2>2
<1>18. CASE UNCHANGED vars
    BY <1>0, <1>18 DEF TypeOK, vars
<1> QED
    BY <1>1, <1>2, <1>3, <1>4, <1>5, <1>6, <1>7, <1>8, <1>9, <1>10, <1>11, <1>12,
       <1>13, <1>14, <1>15, <1>16, <1>17, <1>18 DEF Next, ThreadStep, ReaderStep

LEMMA LocksStep == Locks /\ [Next]_vars => Locks'
<1> SUFFICES ASSUME Locks, [Next]_vars PROVE Locks'
    OBVIOUS
<1> USE ProcOfAssumption, NobodyAssumption, PiecesAssumption, RecordBoundAssumption
<1>0. TypeOK /\ TypeOK'
    BY TypeStep DEF Locks
<1> USE DEF Locks, TypeOK, Inside, Critical
<1>1. ASSUME NEW t \in Threads, TakeMutex(t) PROVE Locks'
    BY <1>0, <1>1 DEF TakeMutex
<1>2. ASSUME NEW t \in Threads, Flock(t) PROVE Locks'
    BY <1>0, <1>2 DEF Flock, CanLock
<1>3. ASSUME NEW t \in Threads, FlockFails(t) PROVE Locks'
    BY <1>0, <1>3 DEF FlockFails
<1>4. ASSUME NEW t \in Threads, TerminateTornTail(t) PROVE Locks'
    BY <1>0, <1>4 DEF TerminateTornTail
<1>5. ASSUME NEW t \in Threads, WritePiece(t) PROVE Locks'
    BY <1>0, <1>5 DEF WritePiece
<1>6. ASSUME NEW t \in Threads, WriteNewline(t) PROVE Locks'
    BY <1>0, <1>6 DEF WriteNewline
<1>7. ASSUME NEW t \in Threads, WriteFails(t) PROVE Locks'
    BY <1>0, <1>7 DEF WriteFails
<1>8. ASSUME NEW t \in Threads, Unlock(t) PROVE Locks'
    BY <1>0, <1>8 DEF Unlock, Return
<1>9. ASSUME NEW t \in Threads, UnlockFails(t) PROVE Locks'
    BY <1>0, <1>9 DEF UnlockFails, Return
<1>10. ASSUME NEW p \in Procs, Exit(p) PROVE Locks'
    BY <1>0, <1>10 DEF Exit, Close
<1>11. ASSUME NEW p \in Procs, Kill(p) PROVE Locks'
    BY <1>0, <1>11 DEF Kill, Close
<1>12. ASSUME NEW p \in Procs, Open(p) PROVE Locks'
    BY <1>0, <1>12 DEF Open
<1>13. ASSUME NEW r \in Readers, LockShared(r) PROVE Locks'
    BY <1>0, <1>13 DEF LockShared
<1>14. ASSUME NEW r \in Readers, TakeLength(r) PROVE Locks'
    BY <1>0, <1>14 DEF TakeLength
<1>15. ASSUME NEW r \in Readers, TakeLengthUnlocked(r) PROVE Locks'
    BY <1>0, <1>15 DEF TakeLengthUnlocked
<1>16. ASSUME NEW r \in Readers, TakeLengthKeepsLock(r) PROVE Locks'
    BY <1>0, <1>16 DEF TakeLengthKeepsLock
<1>17. ASSUME NEW r \in Readers, LengthFails(r) \/ CloseSnapshot(r) PROVE Locks'
    BY <1>0, <1>17 DEF LengthFails, CloseSnapshot
<1>18. CASE UNCHANGED vars
    BY <1>0, <1>18 DEF vars
<1> QED
    BY <1>1, <1>2, <1>3, <1>4, <1>5, <1>6, <1>7, <1>8, <1>9, <1>10, <1>11, <1>12,
       <1>13, <1>14, <1>15, <1>16, <1>17, <1>18 DEF Next, ThreadStep, ReaderStep

\* Locks holds in every reachable state.
LEMMA LocksHold == Spec => []Locks
<1> QED
    BY LocksInit, LocksStep, PTL DEF Spec

LEMMA LocksExclude == Locks => MutualExclusion
BY DEF Locks, MutualExclusion, Critical, Inside

\* The state stays well formed for every instance of the constants.
THEOREM TypeCorrect == Spec => []TypeOK
<1>1. Locks => TypeOK
    BY DEF Locks
<1> QED
    BY <1>1, LocksHold, PTL

\* Any number of processes and threads: one writer between lock and unlock
\* at a time (JsonlSink::record), across kills and failed unlocks.
THEOREM ExclusionCorrect == Spec => []MutualExclusion
<1> QED
    BY LocksHold, LocksExclude, PTL

-----------------------------------------------------------------------------
\* What the file holds.

IsWhole(line, rec) == line.recs = {rec} /\ line.size = Pieces /\ line.nl = TRUE
InFile(rec) == \E i \in 1..Len(lines) : IsWhole(lines[i], rec)

\* Nothing of the current record of t is written yet.
Fresh(t) == pc[t] \in {"lock", "tail"} \/ (pc[t] = "write" /\ written[t] = 0)

\* Every line is of one record begun, and only the last may be unterminated.
LinesInv ==
  /\ \A i \in 1..Len(lines) : \E rec \in Records :
       lines[i].recs = {rec} /\ rec[2] <= count[rec[1]]
  /\ \A i \in 1..Len(lines) : i < Len(lines) => lines[i].nl = TRUE

FreshInv ==
  \A t \in Threads :
    /\ pc[t] \in {"lock", "tail"} => written[t] = 0
    /\ Fresh(t) => \A i \in 1..Len(lines) : Current(t) \notin lines[i].recs

\* The writer's own fragment is the last line, and is as long as it thinks.
TailInv ==
  \A t \in Threads : pc[t] = "write" =>
    \/ written[t] = 0 /\ ~Torn
    \/ /\ written[t] # 0
       /\ lines # <<>>
       /\ lines[Len(lines)].recs = {Current(t)}
       /\ lines[Len(lines)].size = written[t]
       /\ lines[Len(lines)].nl = FALSE

DoneInv ==
  /\ \A t \in Threads : pc[t] = "unlock" /\ result[t] = "ok" => InFile(Current(t))
  /\ \A rec \in acked : InFile(rec)

Content == LinesInv /\ FreshInv /\ TailInv /\ DoneInv

LEMMA ContentInit == Init => Content
BY DEF Init, Content, LinesInv, FreshInv, Fresh, TailInv, DoneInv

\* The actions that leave the file and the attempts under way alone, up to
\* ending some of them.
Quiet ==
  /\ lines' = lines
  /\ UNCHANGED <<count, written, result>>
  /\ \A t \in Threads : pc'[t] \in {pc[t], "idle"}

\* The actions that are not Quiet.
LEMMA StepKinds ==
  ASSUME Locks, [Next]_vars
  PROVE  \/ \E t \in Threads : \/ TakeMutex(t) \/ Flock(t) \/ TerminateTornTail(t)
                               \/ WritePiece(t) \/ WriteNewline(t) \/ WriteFails(t)
                               \/ Unlock(t) \/ UnlockFails(t)
         \/ Quiet /\ acked' = acked
<1>0. TypeOK
    BY DEF Locks
<1>1. ASSUME NEW t \in Threads, FlockFails(t) PROVE Quiet /\ acked' = acked
    BY <1>0, <1>1 DEF FlockFails, Quiet, TypeOK
<1>2. ASSUME NEW p \in Procs, Exit(p) \/ Kill(p) \/ Open(p) PROVE Quiet /\ acked' = acked
    BY <1>0, <1>2 DEF Exit, Kill, Open, Close, Quiet, TypeOK
<1>3. ASSUME NEW r \in Readers, ReaderStep(r) PROVE Quiet /\ acked' = acked
    BY <1>3 DEF ReaderStep, LockShared, TakeLength, TakeLengthKeepsLock, LengthFails,
                CloseSnapshot, TakeLengthUnlocked, Quiet
<1>4. CASE UNCHANGED vars
    BY <1>4 DEF vars, Quiet
<1> QED
    BY <1>1, <1>2, <1>3, <1>4 DEF Next, ThreadStep

\* The same about a WritePiece step, in terms of the primed file.
LEMMA PieceJoins ==
  ASSUME Locks, NEW t \in Threads, WritePiece(t), Torn
  PROVE  /\ Len(lines) \in Nat /\ Len(lines') = Len(lines)
         /\ \A i \in 1..Len(lines) : i # Len(lines) => lines'[i] = lines[i]
         /\ lines'[Len(lines)].recs = lines[Len(lines)].recs \cup {Current(t)}
         /\ lines'[Len(lines)].size = lines[Len(lines)].size + 1
         /\ lines'[Len(lines)].nl = FALSE
<1> DEFINE more == AppendPiece(lines, Current(t))
<1>0. lines \in Seq(Line) /\ Current(t) \in Records /\ lines' = more
    BY CurrentIsRecord DEF Locks, TypeOK, WritePiece, Inside
<1>1. Len(more) = Len(lines)
    BY <1>0, AppendPieceFacts DEF Torn
<1>2. \A i \in 1..Len(lines) : i # Len(lines) => more[i] = lines[i]
    BY <1>0, AppendPieceFacts DEF Torn
<1>3. more[Len(lines)].recs = lines[Len(lines)].recs \cup {Current(t)}
    BY <1>0, AppendPieceFacts DEF Torn
<1>4. more[Len(lines)].size = lines[Len(lines)].size + 1
    BY <1>0, AppendPieceFacts DEF Torn
<1>5. more[Len(lines)].nl = FALSE
    BY <1>0, AppendPieceFacts DEF Torn
<1> QED
    BY <1>0, <1>1, <1>2, <1>3, <1>4, <1>5

LEMMA PieceStarts ==
  ASSUME Locks, NEW t \in Threads, WritePiece(t), ~Torn
  PROVE  /\ Len(lines) \in Nat /\ Len(lines') = Len(lines) + 1
         /\ \A i \in 1..Len(lines) : lines'[i] = lines[i]
         /\ lines'[Len(lines) + 1].recs = {Current(t)}
         /\ lines'[Len(lines) + 1].size = 1
         /\ lines'[Len(lines) + 1].nl = FALSE
         /\ \A i \in 1..Len(lines') : i = Len(lines) + 1 \/ i \in 1..Len(lines)
<1> DEFINE more == AppendPiece(lines, Current(t))
<1>0. lines \in Seq(Line) /\ Current(t) \in Records /\ lines' = more
    BY CurrentIsRecord DEF Locks, TypeOK, WritePiece, Inside
<1>1. Len(more) = Len(lines) + 1
    BY <1>0, AppendPieceFacts DEF Torn
<1>2. \A i \in 1..Len(lines) : more[i] = lines[i]
    BY <1>0, AppendPieceFacts DEF Torn
<1>3. more[Len(lines) + 1].recs = {Current(t)}
    BY <1>0, AppendPieceFacts DEF Torn
<1>4. more[Len(lines) + 1].size = 1
    BY <1>0, AppendPieceFacts DEF Torn
<1>5. more[Len(lines) + 1].nl = FALSE
    BY <1>0, AppendPieceFacts DEF Torn
<1>6. \A i \in 1..(Len(lines) + 1) : i = Len(lines) + 1 \/ i \in 1..Len(lines)
    BY <1>0
<1> QED
    BY <1>0, <1>1, <1>2, <1>3, <1>4, <1>5, <1>6

\* A newline at the end of a file that is not empty.
LEMMA NewlineEnds ==
  ASSUME Locks, lines # <<>>, lines' = EndLine(lines)
  PROVE  /\ Len(lines) \in Nat /\ Len(lines') = Len(lines)
         /\ \A i \in 1..Len(lines) :
              /\ lines'[i].recs = lines[i].recs
              /\ lines'[i].size = lines[i].size
              /\ i # Len(lines) => lines'[i] = lines[i]
         /\ lines'[Len(lines)].nl = TRUE
<1> DEFINE ended == EndLine(lines)
<1>0. lines \in Seq(Line) /\ lines # <<>> /\ lines' = ended
    BY DEF Locks, TypeOK
<1>1. Len(ended) = Len(lines)
    BY <1>0, EndLineFacts
<1>2. \A i \in 1..Len(lines) :
        /\ ended[i].recs = lines[i].recs
        /\ ended[i].size = lines[i].size
        /\ i # Len(lines) => ended[i] = lines[i]
    BY <1>0, EndLineFacts
<1>3. ended[Len(lines)].nl = TRUE
    BY <1>0, EndLineFacts
<1>4. Len(lines) \in Nat
    BY <1>0
<1> HIDE DEF ended
<1> QED
    BY <1>0, <1>4, <1>1, <1>2, <1>3

LEMMA LinesStep == Locks /\ Content /\ [Next]_vars => LinesInv'
<1> SUFFICES ASSUME Locks, Content, [Next]_vars PROVE LinesInv'
    OBVIOUS
<1>0. TypeOK /\ lines \in Seq(Line)
    BY DEF Locks, TypeOK
<1>1. ASSUME lines' = lines, \A t \in Threads : count'[t] >= count[t] PROVE LinesInv'
    <2>1. \A rec \in Records : rec[2] <= count[rec[1]] => rec[2] <= count'[rec[1]]
        <3>1. count \in [Threads -> Int] /\ count' \in [Threads -> Int]
            BY LocksStep, RecordBoundAssumption DEF Locks, TypeOK
        <3> QED
            BY <1>1, <3>1, RecordBoundAssumption DEF Records
    <2> QED
        BY <1>1, <2>1 DEF Content, LinesInv
<1>2. ASSUME NEW t \in Threads, TakeMutex(t) PROVE LinesInv'
    BY <1>0, <1>1, <1>2, RecordBoundAssumption DEF TakeMutex, TypeOK
<1>3. ASSUME lines' = EndLine(lines), count' = count, lines # <<>> PROVE LinesInv'
    BY <1>3, NewlineEnds DEF Content, LinesInv
<1>4. ASSUME NEW t \in Threads, TerminateTornTail(t) PROVE LinesInv'
    <2>1. CASE Torn
        BY <1>3, <1>4, <2>1 DEF TerminateTornTail, Torn
    <2>2. CASE ~Torn
        BY <1>0, <1>1, <1>4, <2>2, RecordBoundAssumption DEF TerminateTornTail, TypeOK
    <2> QED
        BY <2>1, <2>2
<1>5. ASSUME NEW t \in Threads, WriteNewline(t) PROVE LinesInv'
    BY <1>3, <1>5, PiecesAssumption DEF WriteNewline, Content, TailInv
<1>6. ASSUME NEW t \in Threads, WritePiece(t) PROVE LinesInv'
    <2>1. Current(t) \in Records /\ count' = count
        BY <1>6, CurrentIsRecord DEF WritePiece, Inside
    <2>2. Current(t)[1] = t /\ Current(t)[2] = count[t] /\ count[t] \in Int
        BY <1>0, RecordBoundAssumption DEF Current, TypeOK
    <2>3. CASE Torn
        <3>1. lines[Len(lines)].recs = {Current(t)}
            BY <1>6, <2>3 DEF WritePiece, Content, TailInv
        <3>2. \A i \in 1..Len(lines) : lines'[i].recs = lines[i].recs
            BY <1>6, <2>3, <3>1, PieceJoins
        <3>3. Len(lines') = Len(lines) /\ Len(lines) \in Nat
            BY <1>6, <2>3, PieceJoins
        <3>4. \A i \in 1..Len(lines) : i # Len(lines) => lines'[i] = lines[i]
            BY <1>6, <2>3, PieceJoins
        <3> QED
            BY <2>1, <3>2, <3>3, <3>4 DEF Content, LinesInv
    <2>4. CASE ~Torn
        <3>1. \A i \in 1..Len(lines) : lines[i].nl = TRUE
            BY <1>0, <2>4 DEF Torn, Content, LinesInv, Line
        <3>2. /\ Len(lines') = Len(lines) + 1 /\ Len(lines) \in Nat
              /\ \A i \in 1..Len(lines') : i = Len(lines) + 1 \/ i \in 1..Len(lines)
            BY <1>6, <2>4, PieceStarts
        <3>3. \A i \in 1..Len(lines) : lines'[i] = lines[i]
            BY <1>6, <2>4, PieceStarts
        <3>4. lines'[Len(lines) + 1].recs = {Current(t)}
            BY <1>6, <2>4, PieceStarts
        <3>5. ASSUME NEW i \in 1..Len(lines')
              PROVE  \E rec \in Records : lines'[i].recs = {rec} /\ rec[2] <= count[rec[1]]
            <4>1. CASE i = Len(lines) + 1
                BY <2>1, <2>2, <3>4, <4>1
            <4>2. CASE i \in 1..Len(lines)
                BY <3>3, <4>2 DEF Content, LinesInv
            <4> QED
                BY <3>2, <4>1, <4>2
        <3>6. ASSUME NEW i \in 1..Len(lines'), i < Len(lines') PROVE lines'[i].nl = TRUE
            <4>1. i \in 1..Len(lines)
                BY <3>2, <3>6
            <4> QED
                BY <3>1, <3>3, <4>1
        <3> QED
            BY <2>1, <3>5, <3>6 DEF LinesInv
    <2> QED
        BY <2>3, <2>4
<1>7. ASSUME NEW t \in Threads,
             Flock(t) \/ WriteFails(t) \/ Unlock(t) \/ UnlockFails(t)
      PROVE LinesInv'
    BY <1>0, <1>1, <1>7, RecordBoundAssumption
       DEF Flock, WriteFails, Unlock, UnlockFails, TypeOK
<1>8. ASSUME Quiet PROVE LinesInv'
    BY <1>0, <1>1, <1>8, RecordBoundAssumption DEF Quiet, TypeOK
<1> QED
    BY <1>2, <1>4, <1>5, <1>6, <1>7, <1>8, StepKinds

\* A record that is a whole line stays one.
LEMMA WholeStays ==
  ASSUME Locks, NEW rec \in Records, InFile(rec),
         \/ lines' = lines
         \/ lines' = EndLine(lines)
         \/ \E t \in Threads : WritePiece(t)
  PROVE  InFile(rec)'
<1>1. PICK i \in 1..Len(lines) : IsWhole(lines[i], rec)
    BY DEF InFile
<1>2. lines # <<>> /\ Len(lines) \in Nat
    BY <1>1 DEF Locks, TypeOK
<1>3. CASE lines' = lines
    BY <1>1, <1>3 DEF InFile, IsWhole
<1>4. CASE lines' = EndLine(lines)
    BY <1>1, <1>2, <1>4, NewlineEnds DEF InFile, IsWhole
<1>5. ASSUME NEW t \in Threads, WritePiece(t) PROVE InFile(rec)'
    <2>1. CASE Torn
        <3>1. i # Len(lines)
            BY <1>1, <2>1 DEF Torn, IsWhole
        <3>2. Len(lines') = Len(lines) /\ lines'[i] = lines[i]
            BY <1>5, <2>1, <3>1, PieceJoins
        <3> QED
            BY <1>1, <3>2 DEF InFile, IsWhole
    <2>2. CASE ~Torn
        <3>1. Len(lines') = Len(lines) + 1 /\ lines'[i] = lines[i]
            BY <1>5, <2>2, PieceStarts
        <3> QED
            BY <1>1, <1>2, <3>1 DEF InFile, IsWhole
    <2> QED
        BY <2>1, <2>2
<1> QED
    BY <1>3, <1>4, <1>5

LEMMA FreshStep == Locks /\ Content /\ [Next]_vars => FreshInv'
<1> SUFFICES ASSUME Locks, Content, [Next]_vars PROVE FreshInv'
    OBVIOUS
<1>0. /\ lines \in Seq(Line) /\ count \in [Threads -> 0..MaxRecords]
      /\ pc \in [Threads -> Inside \cup {"idle"}] /\ written \in [Threads -> 0..Pieces]
    BY DEF Locks, TypeOK
<1>1. ASSUME NEW t \in Threads, TakeMutex(t) PROVE FreshInv'
    <2>1. lines' = lines /\ count' = [count EXCEPT ![t] = @ + 1]
          /\ pc' = [pc EXCEPT ![t] = "lock"] /\ written' = [written EXCEPT ![t] = 0]
        BY <1>1 DEF TakeMutex
    <2>2. \A i \in 1..Len(lines) : <<t, count[t] + 1>> \notin lines[i].recs
        BY <1>0, RecordBoundAssumption DEF Content, LinesInv, Records
    <2>3. Current(t)' = <<t, count[t] + 1>>
        BY <1>0, <2>1 DEF Current
    <2>4. ASSUME NEW u \in Threads, u # t
          PROVE  pc'[u] = pc[u] /\ written'[u] = written[u] /\ Current(u)' = Current(u)
        BY <1>0, <2>1, <2>4 DEF Current
    <2>5. pc'[t] = "lock" /\ written'[t] = 0
        BY <1>0, <2>1
    <2> QED
        BY <2>1, <2>2, <2>3, <2>4, <2>5 DEF Content, FreshInv, Fresh
<1>2. ASSUME \A i \in 1..Len(lines') : i \in 1..Len(lines) /\ lines'[i].recs = lines[i].recs,
             count' = count, written' = written,
             \A t \in Threads : pc'[t] \in {"lock", "tail"} => pc[t] \in {"lock", "tail"},
             \A t \in Threads : Fresh(t)' => Fresh(t)
      PROVE  FreshInv'
    BY <1>2 DEF Content, FreshInv, Current
<1>3. ASSUME NEW t \in Threads, Flock(t) PROVE FreshInv'
    BY <1>0, <1>2, <1>3 DEF Flock, Fresh
<1>4. ASSUME NEW t \in Threads, TerminateTornTail(t) PROVE FreshInv'
    <2>1. \A i \in 1..Len(lines') : i \in 1..Len(lines) /\ lines'[i].recs = lines[i].recs
        <3>1. CASE Torn
            BY <1>4, <3>1, NewlineEnds DEF TerminateTornTail, Torn
        <3>2. CASE ~Torn
            BY <1>4, <3>2 DEF TerminateTornTail
        <3> QED
            BY <3>1, <3>2
    <2> QED
        BY <1>0, <1>2, <1>4, <2>1 DEF TerminateTornTail, Fresh
<1>5. ASSUME NEW t \in Threads, WritePiece(t) PROVE FreshInv'
    <2>1. count' = count /\ pc' = pc /\ written' = [written EXCEPT ![t] = @ + 1]
          /\ pc[t] = "write"
        BY <1>5 DEF WritePiece
    <2>2. \A rec : (\E i \in 1..Len(lines') : rec \in lines'[i].recs)
              => rec = Current(t) \/ \E i \in 1..Len(lines) : rec \in lines[i].recs
        <3>1. CASE Torn
            BY <1>5, <3>1, PieceJoins
        <3>2. CASE ~Torn
            BY <1>5, <3>2, PieceStarts
        <3> QED
            BY <3>1, <3>2
    <2>3. ASSUME NEW u \in Threads, u # t
          PROVE  Current(u)' = Current(u) /\ Current(u) # Current(t) /\ written'[u] = written[u]
        BY <1>0, <2>1, <2>3 DEF Current
    <2>4. ~Fresh(t)' /\ pc'[t] = "write"
        BY <1>0, <2>1, PiecesAssumption DEF Fresh
    <2> QED
        BY <2>1, <2>2, <2>3, <2>4 DEF Content, FreshInv, Fresh
<1>6. ASSUME NEW t \in Threads, WriteNewline(t) PROVE FreshInv'
    <2>1. lines # <<>> /\ lines' = EndLine(lines)
        BY <1>6, PiecesAssumption DEF WriteNewline, Content, TailInv
    <2>2. \A i \in 1..Len(lines') : i \in 1..Len(lines) /\ lines'[i].recs = lines[i].recs
        BY <2>1, NewlineEnds
    <2> QED
        BY <1>0, <1>2, <1>6, <2>2 DEF WriteNewline, Fresh
<1>7. ASSUME NEW t \in Threads, WriteFails(t) \/ Unlock(t) \/ UnlockFails(t)
      PROVE FreshInv'
    BY <1>0, <1>2, <1>7 DEF WriteFails, Unlock, UnlockFails, Return, Fresh
<1>8. ASSUME Quiet PROVE FreshInv'
    BY <1>0, <1>2, <1>8 DEF Quiet, Fresh
<1> QED
    BY <1>1, <1>3, <1>4, <1>5, <1>6, <1>7, <1>8, StepKinds

LEMMA TailStep == Locks /\ Content /\ [Next]_vars => TailInv'
<1> SUFFICES ASSUME Locks, Content, [Next]_vars, NEW u \in Threads, pc'[u] = "write"
             PROVE  \/ written'[u] = 0 /\ ~Torn'
                    \/ /\ written'[u] # 0
                       /\ lines' # <<>>
                       /\ lines'[Len(lines')].recs = {Current(u)'}
                       /\ lines'[Len(lines')].size = written'[u]
                       /\ lines'[Len(lines')].nl = FALSE
    BY DEF TailInv
<1> DEFINE Goal == \/ written'[u] = 0 /\ ~Torn'
                   \/ /\ written'[u] # 0
                      /\ lines' # <<>>
                      /\ lines'[Len(lines')].recs = {Current(u)'}
                      /\ lines'[Len(lines')].size = written'[u]
                      /\ lines'[Len(lines')].nl = FALSE
<1>0. /\ lines \in Seq(Line) /\ count \in [Threads -> 0..MaxRecords]
      /\ pc \in [Threads -> Inside \cup {"idle"}] /\ written \in [Threads -> 0..Pieces]
    BY DEF Locks, TypeOK
<1>01. lines' \in Seq(Line)
    BY TypeStep DEF TypeOK
<1>1. ASSUME lines' = lines, count'[u] = count[u], written'[u] = written[u], pc[u] = "write"
      PROVE  Goal
    BY <1>1 DEF Content, TailInv, Torn, Current
<1>2. ASSUME NEW t \in Threads, t # u, pc[t] \in Critical, pc[u] = "write" PROVE FALSE
    BY <1>2, LocksExclude DEF MutualExclusion, Critical
<1>3. ASSUME NEW t \in Threads, TakeMutex(t) PROVE Goal
    BY <1>0, <1>1, <1>3 DEF TakeMutex
<1>4. ASSUME NEW t \in Threads, Flock(t) PROVE Goal
    BY <1>0, <1>1, <1>4 DEF Flock
<1>5. ASSUME NEW t \in Threads, TerminateTornTail(t) PROVE Goal
    <2>1. t = u
        BY <1>0, <1>2, <1>5 DEF TerminateTornTail, Critical
    <2>2. written'[u] = 0
        BY <1>5, <2>1 DEF TerminateTornTail, Content, FreshInv
    <2>3. CASE Torn
        BY <1>5, <2>2, <2>3, NewlineEnds DEF TerminateTornTail, Torn
    <2>4. CASE ~Torn
        BY <1>5, <2>2, <2>4 DEF TerminateTornTail, Torn
    <2> QED
        BY <2>3, <2>4
<1>6. ASSUME NEW t \in Threads, WritePiece(t) PROVE Goal
    <2>1. t = u
        BY <1>0, <1>2, <1>6 DEF WritePiece, Critical
    <2>2. written'[u] = written[u] + 1 /\ written[u] \in Nat /\ Current(u)' = Current(u)
        BY <1>0, <1>6, <2>1, PiecesAssumption DEF WritePiece, Current
    <2>3. CASE Torn
        <3>1. /\ lines[Len(lines)].recs = {Current(u)}
              /\ lines[Len(lines)].size = written[u] /\ lines # <<>>
            BY <1>6, <2>1, <2>3 DEF WritePiece, Content, TailInv
        <3>2. Len(lines') = Len(lines)
            BY <1>6, <2>3, PieceJoins
        <3>4. lines' # <<>>
            BY <1>0, <1>01, <3>1, <3>2
        <3>3. /\ lines'[Len(lines)].recs = lines[Len(lines)].recs \cup {Current(u)}
              /\ lines'[Len(lines)].size = lines[Len(lines)].size + 1
              /\ lines'[Len(lines)].nl = FALSE
            BY <1>6, <2>1, <2>3, PieceJoins
        <3> QED
            BY <2>2, <3>1, <3>2, <3>3, <3>4
    <2>4. CASE ~Torn
        <3>1. written[u] = 0
            BY <1>6, <2>1, <2>4 DEF WritePiece, Content, TailInv, Torn
        <3>2. Len(lines') = Len(lines) + 1
            BY <1>6, <2>4, PieceStarts
        <3>4. lines' # <<>>
            BY <1>0, <1>01, <3>2
        <3>3. /\ lines'[Len(lines) + 1].recs = {Current(u)}
              /\ lines'[Len(lines) + 1].size = 1
              /\ lines'[Len(lines) + 1].nl = FALSE
            BY <1>6, <2>1, <2>4, PieceStarts
        <3> QED
            BY <2>2, <3>1, <3>2, <3>3, <3>4
    <2> QED
        BY <2>3, <2>4
<1>7. ASSUME NEW t \in Threads, WriteNewline(t) PROVE Goal
    BY <1>0, <1>2, <1>7 DEF WriteNewline, Critical
<1>8. ASSUME NEW t \in Threads, WriteFails(t) \/ Unlock(t) \/ UnlockFails(t) PROVE Goal
    BY <1>0, <1>1, <1>8 DEF WriteFails, Unlock, UnlockFails, Return
<1>9. ASSUME Quiet PROVE Goal
    BY <1>0, <1>1, <1>9 DEF Quiet
<1> QED
    BY <1>3, <1>4, <1>5, <1>6, <1>7, <1>8, <1>9, StepKinds

LEMMA DoneStep == Locks /\ Content /\ [Next]_vars => DoneInv'
<1> SUFFICES ASSUME Locks, Content, [Next]_vars PROVE DoneInv'
    OBVIOUS
<1>0. /\ lines \in Seq(Line) /\ count \in [Threads -> 0..MaxRecords]
      /\ pc \in [Threads -> Inside \cup {"idle"}] /\ acked \subseteq Records
      /\ result \in [Threads -> {"ok", "err"}]
    BY DEF Locks, TypeOK
<1>1. ASSUME NEW rec \in Records, InFile(rec) PROVE InFile(rec)'
    <2>1. ASSUME NEW t \in Threads, TerminateTornTail(t) \/ WriteNewline(t)
          PROVE  lines' = lines \/ lines' = EndLine(lines)
        BY <2>1 DEF TerminateTornTail, WriteNewline
    <2>2. ASSUME NEW t \in Threads,
                 \/ TakeMutex(t) \/ Flock(t) \/ WriteFails(t)
                 \/ Unlock(t) \/ UnlockFails(t)
          PROVE  lines' = lines
        BY <2>2 DEF TakeMutex, Flock, WriteFails, Unlock, UnlockFails
    <2>3. ASSUME Quiet PROVE lines' = lines
        BY <2>3 DEF Quiet
    <2> QED
        BY <1>1, <2>1, <2>2, <2>3, WholeStays, StepKinds
\* A step that completes no record: what was done stays done.
<1>2. ASSUME acked' = acked,
             \A t \in Threads : (pc'[t] = "unlock" /\ result'[t] = "ok")
               => /\ pc[t] = "unlock" /\ result[t] = "ok"
                  /\ Current(t)' = Current(t)
      PROVE  DoneInv'
    <2>1. ASSUME NEW t \in Threads, pc'[t] = "unlock", result'[t] = "ok"
          PROVE  InFile(Current(t))'
        <3>1. InFile(Current(t)) /\ Current(t) \in Records /\ Current(t)' = Current(t)
            BY <1>2, <2>1, CurrentIsRecord DEF Content, DoneInv, Inside
        <3>2. InFile(Current(t))'
            BY <1>1, <3>1 DEF InFile
        <3> QED
            BY <3>2
    <2>2. ASSUME NEW rec \in acked' PROVE InFile(rec)'
        BY <1>0, <1>1, <1>2, <2>2 DEF Content, DoneInv
    <2> QED
        BY <2>1, <2>2 DEF DoneInv
<1>3. ASSUME NEW t \in Threads,
             TakeMutex(t) \/ Flock(t) \/ TerminateTornTail(t) \/ WritePiece(t)
      PROVE  DoneInv'
    BY <1>0, <1>2, <1>3
       DEF TakeMutex, Flock, TerminateTornTail, WritePiece, Current
<1>4. ASSUME NEW t \in Threads, WriteFails(t) PROVE DoneInv'
    BY <1>0, <1>2, <1>4 DEF WriteFails, Current
<1>5. ASSUME Quiet, acked' = acked PROVE DoneInv'
    BY <1>0, <1>2, <1>5 DEF Quiet, Current
<1>6. ASSUME NEW t \in Threads, WriteNewline(t) PROVE DoneInv'
    <2>1. /\ lines # <<>> /\ lines[Len(lines)].recs = {Current(t)}
          /\ lines[Len(lines)].size = Pieces
        BY <1>6, PiecesAssumption DEF WriteNewline, Content, TailInv
    <2>2. lines' = EndLine(lines) /\ count' = count /\ acked' = acked
          /\ pc' = [pc EXCEPT ![t] = "unlock"] /\ result' = [result EXCEPT ![t] = "ok"]
        BY <1>6 DEF WriteNewline
    <2>3. Current(t)' = Current(t) /\ Len(lines) \in 1..Len(lines)
        BY <1>0, <2>1, <2>2 DEF Current
    <2>4. Len(lines') = Len(lines) /\ IsWhole(lines'[Len(lines)], Current(t))
        BY <2>1, <2>2, <2>3, NewlineEnds DEF IsWhole
    <2>5. InFile(Current(t))'
        BY <2>3, <2>4 DEF InFile, IsWhole
    <2>6. ASSUME NEW u \in Threads, u # t, pc'[u] = "unlock", result'[u] = "ok"
          PROVE  InFile(Current(u))'
        <3>1. pc[u] = "unlock"
            BY <1>0, <2>2, <2>6
        <3> QED
            BY <1>6, <2>6, <3>1, LocksExclude DEF WriteNewline, MutualExclusion, Critical
    <2>7. ASSUME NEW rec \in acked' PROVE InFile(rec)'
        BY <1>0, <1>1, <2>2, <2>7 DEF Content, DoneInv
    <2> QED
        BY <2>5, <2>6, <2>7 DEF DoneInv
<1>7. ASSUME NEW t \in Threads, Unlock(t) \/ UnlockFails(t) PROVE DoneInv'
    <2>1. /\ pc[t] = "unlock" /\ count' = count /\ result' = result
          /\ pc' = [pc EXCEPT ![t] = "idle"]
          /\ acked' = IF result[t] = "ok" THEN acked \cup {Current(t)} ELSE acked
        BY <1>7 DEF Unlock, UnlockFails, Return
    <2>2. ASSUME NEW u \in Threads, pc'[u] = "unlock" PROVE FALSE
        <3>1. pc[u] = "unlock" /\ u # t
            BY <1>0, <2>1, <2>2
        <3> QED
            BY <2>1, <3>1, LocksExclude DEF MutualExclusion, Critical
    <2>3. ASSUME NEW rec \in acked' PROVE InFile(rec)'
        <3>1. CASE rec \in acked
            BY <1>0, <1>1, <3>1 DEF Content, DoneInv
        <3>2. CASE rec = Current(t) /\ result[t] = "ok"
            <4>1. rec \in Records /\ InFile(rec)
                BY <2>1, <3>2, CurrentIsRecord DEF Content, DoneInv, Inside
            <4> QED
                BY <1>1, <4>1
        <3> QED
            BY <2>1, <2>3, <3>1, <3>2
    <2> QED
        BY <2>2, <2>3 DEF DoneInv
<1> QED
    BY <1>3, <1>4, <1>5, <1>6, <1>7, StepKinds

LEMMA ContentHolds == Spec => [](Locks /\ Content)
<1>1. Init => Locks /\ Content
    BY LocksInit, ContentInit
<1>2. Locks /\ Content /\ [Next]_vars => (Locks /\ Content)'
    BY LocksStep, LinesStep, FreshStep, TailStep, DoneStep DEF Content
<1> QED
    BY <1>1, <1>2, PTL DEF Spec

\* No line ever mixes the bytes of two records, however many processes append
\* and die (terminate_torn_tail under the lock).
THEOREM OneRecordCorrect == Spec => []OneRecordPerLine
<1>1. Locks /\ Content => OneRecordPerLine
    <2> SUFFICES ASSUME Locks, Content, NEW i \in DOMAIN lines
                 PROVE  Cardinality(lines[i].recs) = 1
        BY DEF OneRecordPerLine
    <2>1. i \in 1..Len(lines)
        BY DEF Locks, TypeOK
    <2>2. PICK rec \in Records : lines[i].recs = {rec}
        BY <2>1 DEF Content, LinesInv
    <2> QED
        BY <2>2, FS_Singleton
<1> QED
    BY <1>1, ContentHolds, PTL

\* An acknowledged record is a line of its own for ever after.
THEOREM AckedReadableCorrect == Spec => []AckedReadable
<1>1. Locks /\ Content => AckedReadable
    <2> SUFFICES ASSUME Locks, Content, NEW rec \in acked
                 PROVE  \E i \in DOMAIN lines : Whole(lines[i]) /\ lines[i].recs = {rec}
        BY DEF AckedReadable
    <2>1. PICK i \in 1..Len(lines) : IsWhole(lines[i], rec)
        BY DEF Content, DoneInv, InFile
    <2>2. i \in DOMAIN lines
        BY <2>1 DEF Locks, TypeOK
    <2>3. Cardinality({rec}) = 1
        BY FS_Singleton
    <2> QED
        BY <2>1, <2>2, <2>3 DEF IsWhole, Whole
<1> QED
    BY <1>1, ContentHolds, PTL

-----------------------------------------------------------------------------
\* What a reader was shown.

\* A snapshot holds records begun before it; a locked one ends in none that
\* is still under way.
Shown ==
  /\ \A r \in Readers : \A i \in 1..Len(snap[r]) : \A rec \in snap[r][i].recs :
       rec \in Records /\ rec[2] <= count[rec[1]]
  /\ LockedSnapshotTail

\* Only TakeMutex puts a record under way, and one never begun before.
LEMMA ProgressStep ==
  ASSUME Locks, [Next]_vars, NEW rec \in Records, rec[2] <= count[rec[1]]
  PROVE  /\ rec[2] <= count'[rec[1]]
         /\ InProgress(rec)' => InProgress(rec)
<1> DEFINE u == rec[1]
<1>0. /\ u \in Threads /\ count \in [Threads -> 0..MaxRecords]
      /\ pc \in [Threads -> Inside \cup {"idle"}] /\ rec[2] \in Int /\ count[u] \in Int
    BY RecordBoundAssumption DEF Locks, TypeOK, Records
<1>1. ASSUME count'[u] = count[u], pc'[u] \in Inside => pc[u] \in Inside
      PROVE  rec[2] <= count'[rec[1]] /\ (InProgress(rec)' => InProgress(rec))
    BY <1>1 DEF InProgress, Current
<1>2. ASSUME NEW t \in Threads, TakeMutex(t)
      PROVE  rec[2] <= count'[rec[1]] /\ (InProgress(rec)' => InProgress(rec))
    <2>1. CASE t = u
        <3>1. count'[u] = count[u] + 1
            BY <1>0, <1>2, <2>1 DEF TakeMutex
        <3>2. Current(u)' = <<u, count[u] + 1>>
            BY <3>1 DEF Current
        <3>3. rec # Current(u)'
            BY <1>0, <3>2
        <3> QED
            BY <1>0, <3>1, <3>3 DEF InProgress
    <2>2. CASE t # u
        BY <1>0, <1>1, <1>2, <2>2 DEF TakeMutex
    <2> QED
        BY <2>1, <2>2
<1>3. ASSUME NEW t \in Threads,
             \/ Flock(t) \/ TerminateTornTail(t) \/ WritePiece(t) \/ WriteNewline(t)
             \/ WriteFails(t) \/ Unlock(t) \/ UnlockFails(t)
      PROVE  count' = count /\ (pc'[u] \in Inside => pc[u] \in Inside)
    BY <1>0, <1>3 DEF Flock, TerminateTornTail, WritePiece, WriteNewline, WriteFails,
                      Unlock, UnlockFails, Return, Inside
<1>4. ASSUME Quiet PROVE count' = count /\ (pc'[u] \in Inside => pc[u] \in Inside)
    BY <1>0, <1>4 DEF Quiet, Inside
<1> QED
    BY <1>1, <1>2, <1>3, <1>4, StepKinds

LEMMA ShownStep == Locks /\ Content /\ Shown /\ [Next]_vars => Shown'
<1> SUFFICES ASSUME Locks, Content, Shown, [Next]_vars PROVE Shown'
    OBVIOUS
<1>0. TypeOK
    BY DEF Locks
\* Snapshots already taken.
<1>1. ASSUME NEW r \in Readers, snap'[r] = snap[r], rpc'[r] = "read" => rpc[r] = "read"
      PROVE  /\ \A i \in 1..Len(snap'[r]) : \A rec \in snap'[r][i].recs :
                  rec \in Records /\ rec[2] <= count'[rec[1]]
             /\ (rpc'[r] = "read" /\ snap'[r] # <<>> /\ ~Last(snap'[r]).nl)
                  => \A rec \in Last(snap'[r]).recs : ~InProgress(rec)'
    <2>1. \A i \in 1..Len(snap[r]) : \A rec \in snap[r][i].recs :
            rec \in Records /\ rec[2] <= count[rec[1]]
        BY DEF Shown
    <2>2. \A i \in 1..Len(snap[r]) : \A rec \in snap[r][i].recs :
            rec[2] <= count'[rec[1]] /\ (InProgress(rec)' => InProgress(rec))
        BY <2>1, ProgressStep
    <2>3. snap[r] # <<>> => Len(snap[r]) \in 1..Len(snap[r])
        BY <1>0 DEF TypeOK
    <2>4. (rpc[r] = "read" /\ snap[r] # <<>> /\ ~Last(snap[r]).nl)
             => \A rec \in Last(snap[r]).recs : ~InProgress(rec)
        BY DEF Shown, LockedSnapshotTail
    <2> QED
        BY <1>1, <2>1, <2>2, <2>3, <2>4 DEF Last
\* A snapshot being taken.
<1>2. ASSUME NEW r \in Readers, lines' = lines, count' = count, pc' = pc, snap'[r] = lines,
             rpc'[r] = "read" => flock = Nobody
      PROVE  /\ \A i \in 1..Len(snap'[r]) : \A rec \in snap'[r][i].recs :
                  rec \in Records /\ rec[2] <= count'[rec[1]]
             /\ (rpc'[r] = "read" /\ snap'[r] # <<>> /\ ~Last(snap'[r]).nl)
                  => \A rec \in Last(snap'[r]).recs : ~InProgress(rec)'
    <2>1. \A i \in 1..Len(lines) : \A rec \in lines[i].recs :
            rec \in Records /\ rec[2] <= count[rec[1]]
        BY DEF Content, LinesInv
    <2>2. ASSUME rpc'[r] = "read", lines # <<>>, NEW rec \in lines[Len(lines)].recs,
                 InProgress(rec)
          PROVE  FALSE
        <3>1. Len(lines) \in 1..Len(lines) /\ rec[1] \in Threads
            BY <1>0, <2>1, <2>2 DEF TypeOK, Records
        <3>2. pc[rec[1]] \notin Critical
            BY <1>2, <2>2, <3>1, ProcOfAssumption, NobodyAssumption DEF Locks
        <3>3. Fresh(rec[1]) /\ rec = Current(rec[1])
            BY <2>2, <3>2 DEF InProgress, Inside, Critical, Fresh
        <3> QED
            BY <2>2, <3>1, <3>3 DEF Content, FreshInv
    <2>3. \A rec : InProgress(rec)' => InProgress(rec)
        BY <1>2 DEF InProgress, Current
    <2> QED
        BY <1>2, <2>1, <2>2, <2>3 DEF Last
<1>3. ASSUME NEW r \in Readers, TakeLength(r) \/ TakeLengthKeepsLock(r) PROVE Shown'
    <2>1. flock = Nobody
        BY <1>3 DEF TakeLength, TakeLengthKeepsLock, Locks
    <2>2. lines' = lines /\ count' = count /\ pc' = pc /\ snap'[r] = lines
        BY <1>0, <1>3 DEF TakeLength, TakeLengthKeepsLock, TypeOK
    <2>3. \A q \in Readers : q # r => snap'[q] = snap[q] /\ rpc'[q] = rpc[q]
        BY <1>0, <1>3 DEF TakeLength, TakeLengthKeepsLock, TypeOK
    <2> QED
        BY <1>1, <1>2, <2>1, <2>2, <2>3 DEF Shown, LockedSnapshotTail
<1>4. ASSUME NEW r \in Readers, TakeLengthUnlocked(r) PROVE Shown'
    <2>1. lines' = lines /\ count' = count /\ pc' = pc /\ snap'[r] = lines
          /\ rpc'[r] = "read_unlocked"
        BY <1>0, <1>4 DEF TakeLengthUnlocked, TypeOK
    <2>2. \A q \in Readers : q # r => snap'[q] = snap[q] /\ rpc'[q] = rpc[q]
        BY <1>0, <1>4 DEF TakeLengthUnlocked, TypeOK
    <2> QED
        BY <1>1, <1>2, <2>1, <2>2 DEF Shown, LockedSnapshotTail
<1>5. ASSUME snap' = snap, \A r \in Readers : rpc'[r] = "read" => rpc[r] = "read"
      PROVE  Shown'
    BY <1>1, <1>5 DEF Shown, LockedSnapshotTail
<1>6. ASSUME NEW r \in Readers, LockShared(r) \/ LengthFails(r) \/ CloseSnapshot(r)
      PROVE  Shown'
    BY <1>0, <1>5, <1>6 DEF LockShared, LengthFails, CloseSnapshot, TypeOK
<1>7. ASSUME NEW t \in Threads, ThreadStep(t) PROVE Shown'
    BY <1>5, <1>7 DEF ThreadStep, TakeMutex, Flock, FlockFails, TerminateTornTail,
       WritePiece, WriteNewline, WriteFails, Unlock, UnlockFails
<1>8. ASSUME NEW p \in Procs, Exit(p) \/ Kill(p) \/ Open(p) PROVE Shown'
    BY <1>5, <1>8 DEF Exit, Kill, Open
<1>9. CASE UNCHANGED vars
    BY <1>5, <1>9 DEF vars
<1> QED
    BY <1>3, <1>4, <1>6, <1>7, <1>8, <1>9 DEF Next, ReaderStep

\* A reader that took its length under the shared lock is never shown the
\* beginning of a record still being written (open_snapshot).
THEOREM SnapshotCorrect == Spec => []LockedSnapshotTail
<1>1. Init => Locks /\ Content /\ Shown
    BY LocksInit, ContentInit DEF Init, Shown, LockedSnapshotTail
<1>2. Locks /\ Content /\ Shown /\ [Next]_vars => (Locks /\ Content /\ Shown)'
    BY LocksStep, LinesStep, FreshStep, TailStep, DoneStep, ShownStep DEF Content
<1>3. Shown => LockedSnapshotTail
    BY DEF Shown
<1> QED
    BY <1>1, <1>2, <1>3, PTL DEF Spec

-----------------------------------------------------------------------------
\* What a kill costs.

\* Only a kill leaves a record without an answer, and only the one whose writer
\* was inside the Mutex of the process killed.
LEMMA LossStep ==
  ASSUME Locks, [Next]_vars
  PROVE  \/ Lost' \subseteq Lost /\ kills' \in Nat /\ kills' >= kills
         \/ kills' = kills + 1 /\ \E rec : Lost' \subseteq Lost \cup {rec}
<1>0. TypeOK /\ kills \in Nat
    BY RecordBoundAssumption DEF Locks, TypeOK
\* A record that is Lost after the step and was not before.
<1>1. ASSUME NEW rec \in Lost', rec \notin Lost
      PROVE  /\ rec[1] \in Threads /\ rec \in Records
             /\ rec[2] <= count'[rec[1]] /\ ~InProgress(rec)'
             /\ rec \notin acked' /\ rec \notin refused'
    BY <1>1 DEF Lost, Started, Records
<1>2. acked \subseteq acked' /\ refused \subseteq refused'
    <2>1. ASSUME NEW t \in Threads, ThreadStep(t)
          PROVE  acked \subseteq acked' /\ refused \subseteq refused'
        BY <2>1 DEF ThreadStep, TakeMutex, Flock, FlockFails, TerminateTornTail, WritePiece,
           WriteNewline, WriteFails, Unlock, UnlockFails, Return
    <2> QED
        BY <2>1 DEF Next, Exit, Kill, Open, ReaderStep, LockShared, TakeLength,
           TakeLengthKeepsLock, LengthFails, CloseSnapshot, TakeLengthUnlocked, vars
<1>3. ASSUME NEW rec \in Lost', rec \notin Lost, rec[2] <= count[rec[1]] PROVE InProgress(rec)
    BY <1>1, <1>2, <1>3 DEF Lost, Started
\* The program counter of the thread decides.
<1>4. ASSUME count' = count,
             \A t \in Threads : (pc[t] \in Inside /\ pc'[t] \notin Inside)
                                   => Current(t) \in acked' \cup refused'
      PROVE  Lost' \subseteq Lost
    <2> SUFFICES ASSUME NEW rec \in Lost', rec \notin Lost PROVE FALSE
        OBVIOUS
    <2>1. InProgress(rec) /\ ~InProgress(rec)' /\ rec[1] \in Threads
        BY <1>1, <1>3, <1>4
    <2>2. rec = Current(rec[1]) /\ Current(rec[1])' = Current(rec[1])
        BY <1>4, <2>1 DEF InProgress, Current
    <2> QED
        BY <1>1, <1>4, <2>1, <2>2 DEF InProgress
<1>5. ASSUME NEW t \in Threads, TakeMutex(t) PROVE Lost' \subseteq Lost /\ kills' = kills
    <2> SUFFICES ASSUME NEW rec \in Lost', rec \notin Lost PROVE FALSE
        BY <1>5 DEF TakeMutex
    <2>1. /\ rec[1] \in Threads /\ rec \in Records /\ rec[2] <= count'[rec[1]]
          /\ ~InProgress(rec)'
        BY <1>1
    <2>2. /\ pc[t] = "idle" /\ pc' = [pc EXCEPT ![t] = "lock"]
          /\ count' = [count EXCEPT ![t] = @ + 1] /\ count \in [Threads -> Int]
          /\ pc \in [Threads -> Inside \cup {"idle"}] /\ rec = <<rec[1], rec[2]>> /\ rec[2] \in Int
        BY <1>0, <1>5, <2>1, RecordBoundAssumption DEF TakeMutex, TypeOK, Records
    <2>3. CASE rec[1] = t
        <3>1. rec[2] # count[t] + 1
            BY <2>1, <2>2, <2>3 DEF InProgress, Current, Inside
        <3>2. InProgress(rec)
            BY <1>3, <2>1, <2>2, <2>3, <3>1
        <3> QED
            BY <2>2, <2>3, <3>2 DEF InProgress, Inside
    <2>4. CASE rec[1] # t
        <3>1. InProgress(rec)
            BY <1>3, <2>1, <2>2, <2>4
        <3> QED
            BY <2>1, <2>2, <2>4, <3>1 DEF InProgress, Current
    <2> QED
        BY <2>3, <2>4
<1>6. ASSUME NEW t \in Threads, ThreadStep(t), ~TakeMutex(t)
      PROVE  Lost' \subseteq Lost /\ kills' = kills
    <2>1. count' = count /\ kills' = kills
        BY <1>6 DEF ThreadStep, Flock, FlockFails, TerminateTornTail, WritePiece,
           WriteNewline, WriteFails, Unlock, UnlockFails
    <2>2. ASSUME NEW u \in Threads, pc[u] \in Inside, pc'[u] \notin Inside
          PROVE  Current(u) \in acked' \cup refused'
        BY <1>0, <1>6, <2>2 DEF TypeOK, ThreadStep, Flock, FlockFails, TerminateTornTail,
           WritePiece, WriteNewline, WriteFails, Unlock, UnlockFails, Return, Inside
    <2> QED
        BY <1>4, <2>1, <2>2
<1>7. ASSUME NEW p \in Procs, Exit(p) PROVE Lost' \subseteq Lost /\ kills' = kills
    <2>1. \A t \in Threads : ~(pc[t] \in Inside /\ pc'[t] \notin Inside)
        BY <1>0, <1>7 DEF TypeOK, Exit, Close, Inside
    <2> QED
        BY <1>4, <1>7, <2>1 DEF Exit
<1>8. ASSUME NEW p \in Procs, Kill(p)
      PROVE  kills' = kills + 1 /\ \E rec : Lost' \subseteq Lost \cup {rec}
    <2>1. kills' = kills + 1 /\ count' = count
          /\ \A t \in Threads : pc'[t] # pc[t] => ProcOf[t] = p
        BY <1>0, <1>8 DEF Kill, Close, TypeOK
    <2>2. ASSUME NEW rec \in Lost', rec \notin Lost PROVE rec = Current(mutex[p])
        <3>1. InProgress(rec) /\ ~InProgress(rec)' /\ rec[1] \in Threads
            BY <1>1, <1>3, <2>1, <2>2
        <3>2. rec = Current(rec[1]) /\ pc[rec[1]] \in Inside /\ pc'[rec[1]] # pc[rec[1]]
            BY <2>1, <3>1 DEF InProgress, Current
        <3> QED
            BY <2>1, <3>1, <3>2 DEF Locks
    <2>3. Lost' \subseteq Lost \cup {Current(mutex[p])}
        BY <2>2
    <2> QED
        BY <2>1, <2>3
<1>9. ASSUME \/ \E p \in Procs : Open(p)
             \/ \E r \in Readers : ReaderStep(r)
             \/ UNCHANGED vars
      PROVE  Lost' \subseteq Lost /\ kills' = kills
    <2>1. UNCHANGED <<count, pc, kills>>
        BY <1>9 DEF Open, ReaderStep, LockShared, TakeLength, TakeLengthKeepsLock,
           LengthFails, CloseSnapshot, TakeLengthUnlocked, vars
    <2> QED
        BY <1>4, <2>1
<1> QED
    BY <1>0, <1>5, <1>6, <1>7, <1>8, <1>9 DEF Next

\* However many processes and threads, a kill takes at most one record with it.
THEOREM OneLossCorrect == Spec => []OneLossPerKill
<1> DEFINE Bound == IsFiniteSet(Lost) /\ kills \in Nat /\ Cardinality(Lost) <= kills
<1>1. Init => Bound
    <2> SUFFICES ASSUME Init PROVE Bound
        OBVIOUS
    <2>1. Lost = {}
        BY RecordBoundAssumption DEF Init, Lost, Started, Records
    <2> QED
        BY <2>1, FS_EmptySet DEF Init
<1>2. Locks /\ Bound /\ [Next]_vars => Bound'
    <2> SUFFICES ASSUME Locks, Bound, [Next]_vars PROVE Bound'
        OBVIOUS
    <2>1. CASE Lost' \subseteq Lost /\ kills' \in Nat /\ kills' >= kills
        <3>1. IsFiniteSet(Lost') /\ Cardinality(Lost') <= Cardinality(Lost)
            BY <2>1, FS_Subset
        <3>2. Cardinality(Lost') \in Nat /\ Cardinality(Lost) \in Nat
            BY <3>1, FS_CardinalityType
        <3> QED
            BY <2>1, <3>1, <3>2
    <2>2. ASSUME kills' = kills + 1, NEW rec, Lost' \subseteq Lost \cup {rec} PROVE Bound'
        <3>1. /\ IsFiniteSet(Lost \cup {rec})
              /\ Cardinality(Lost \cup {rec}) <= Cardinality(Lost) + 1
            BY FS_AddElement, FS_CardinalityType
        <3>2. IsFiniteSet(Lost') /\ Cardinality(Lost') <= Cardinality(Lost \cup {rec})
            BY <2>2, <3>1, FS_Subset
        <3>3. /\ Cardinality(Lost') \in Nat /\ Cardinality(Lost) \in Nat
              /\ Cardinality(Lost \cup {rec}) \in Nat
            BY <3>1, <3>2, FS_CardinalityType
        <3> QED
            BY <2>2, <3>1, <3>2, <3>3
    <2> QED
        BY <2>1, <2>2, LossStep
<1>3. Bound => OneLossPerKill
    BY DEF OneLossPerKill
<1> QED
    BY <1>1, <1>2, <1>3, LocksHold, PTL DEF Spec

-----------------------------------------------------------------------------
\* The file is an append-only log.

\* No record has bytes in two lines.
Once ==
  \A i, j \in 1..Len(lines) : i # j => lines[i].recs \cap lines[j].recs = {}

LEMMA OnceStep == Locks /\ Content /\ Once /\ [Next]_vars => Once'
<1> SUFFICES ASSUME Locks, Content, Once, [Next]_vars PROVE Once'
    OBVIOUS
<1>1. ASSUME lines' = lines PROVE Once'
    BY <1>1 DEF Once
<1>2. ASSUME lines # <<>>, lines' = EndLine(lines) PROVE Once'
    BY <1>2, NewlineEnds DEF Once
<1>3. ASSUME NEW t \in Threads, WritePiece(t) PROVE Once'
    <2>1. CASE Torn
        <3>1. lines[Len(lines)].recs = {Current(t)}
            BY <1>3, <2>1 DEF WritePiece, Content, TailInv
        <3>2. Len(lines') = Len(lines) /\ \A i \in 1..Len(lines) : lines'[i].recs = lines[i].recs
            BY <1>3, <2>1, <3>1, PieceJoins
        <3> QED
            BY <3>2 DEF Once
    <2>2. CASE ~Torn
        <3>1. written[t] = 0
            BY <1>3, <2>2 DEF WritePiece, Content, TailInv, Torn
        <3>2. \A i \in 1..Len(lines) : Current(t) \notin lines[i].recs
            BY <1>3, <3>1 DEF WritePiece, Content, FreshInv, Fresh
        <3>3. /\ \A i \in 1..Len(lines) : lines'[i] = lines[i]
              /\ lines'[Len(lines) + 1].recs = {Current(t)}
            BY <1>3, <2>2, PieceStarts
        <3>4. \A i \in 1..Len(lines') : i = Len(lines) + 1 \/ i \in 1..Len(lines)
            BY <1>3, <2>2, PieceStarts
        <3> QED
            BY <3>2, <3>3, <3>4 DEF Once
    <2> QED
        BY <2>1, <2>2
<1>4. ASSUME NEW t \in Threads, TerminateTornTail(t) PROVE Once'
    BY <1>1, <1>2, <1>4 DEF TerminateTornTail, Torn
<1>5. ASSUME NEW t \in Threads, WriteNewline(t) PROVE Once'
    BY <1>2, <1>5, PiecesAssumption DEF WriteNewline, Content, TailInv
<1>6. ASSUME NEW t \in Threads,
             TakeMutex(t) \/ Flock(t) \/ WriteFails(t) \/ Unlock(t) \/ UnlockFails(t)
      PROVE Once'
    BY <1>1, <1>6 DEF TakeMutex, Flock, WriteFails, Unlock, UnlockFails
<1>7. ASSUME Quiet PROVE Once'
    BY <1>1, <1>7 DEF Quiet
<1> QED
    BY <1>3, <1>4, <1>5, <1>6, <1>7, StepKinds

FileInv == Locks /\ Content /\ Once

LEMMA FileHolds == Spec => []FileInv
<1>1. Init => Once
    BY DEF Init, Once
<1>2. FileInv /\ [Next]_vars => FileInv'
    BY LocksStep, LinesStep, FreshStep, TailStep, DoneStep, OnceStep DEF Content, FileInv
<1> QED
    BY <1>1, <1>2, LocksInit, ContentInit, PTL DEF Spec, FileInv

\* A line of one record is whole when all its pieces and its newline are there.
LEMMA WholeLine ==
  ASSUME NEW line, NEW rec, line.recs = {rec}
  PROVE  Sole(line) = rec /\ (Whole(line) <=> line.nl /\ line.size = Pieces)
<1>1. Cardinality({rec}) = 1
    BY FS_Singleton
<1> QED
    BY <1>1 DEF Sole, Whole

\* The entries of a file, by its lines.
LEMMA EntriesOf ==
  ASSUME NEW ls \in Seq(Line)
  PROVE  /\ \A e \in RecordsOf(ls) : e.at \in 1..Len(ls) /\ Whole(ls[e.at]) /\ e.rec = Sole(ls[e.at])
         /\ \A i \in 1..Len(ls) : Whole(ls[i]) => [at |-> i, rec |-> Sole(ls[i])] \in RecordsOf(ls)
BY DEF RecordsOf

LEMMA SameEntries ==
  ASSUME Locks, Locks', Len(lines') = Len(lines),
         \A i \in 1..Len(lines) :
           Sole(lines'[i]) = Sole(lines[i]) /\ (Whole(lines'[i]) <=> Whole(lines[i]))
  PROVE  RecordsOf(lines)' = RecordsOf(lines)
<1>1. DOMAIN lines = 1..Len(lines) /\ DOMAIN lines' = 1..Len(lines)
    BY DEF Locks, TypeOK
<1>2. {j \in DOMAIN lines : Whole(lines[j])} = {j \in DOMAIN lines' : Whole(lines'[j])}
    BY <1>1
<1> QED
    BY <1>1, <1>2 DEF RecordsOf

LEMMA LastPlace ==
  ASSUME NEW ls \in Seq(Line), ls # <<>>
  PROVE  Len(ls) \in 1..Len(ls) /\ Len(ls) \in Nat
OBVIOUS

\* Ending a line enters its record when all of it is there, and nothing else.
LEMMA NewlineEnters ==
  ASSUME FileInv, FileInv', Torn, lines' = EndLine(lines),
         count' = count, UNCHANGED <<acked, snap>>
  PROVE  [Log!ANext]_(Log!avars)
<1> DEFINE n == Len(lines)
<1>00. lines # <<>> /\ lines \in Seq(Line) /\ lines[n].nl # TRUE
    BY DEF FileInv, Locks, TypeOK, Torn
<1>0. n \in 1..n /\ n \in Nat /\ lines # <<>> /\ lines \in Seq(Line) /\ lines[n].nl # TRUE
    BY <1>00, LastPlace
<1>1. PICK rec \in Records : lines[n].recs = {rec} /\ rec[2] <= count[rec[1]]
    BY <1>0 DEF FileInv, Content, LinesInv
<1>2. /\ Len(lines') = n /\ lines'[n].recs = lines[n].recs
      /\ lines'[n].size = lines[n].size /\ lines'[n].nl = TRUE
    BY <1>0, NewlineEnds DEF FileInv
<1>3. \A i \in 1..n : i # n => lines'[i] = lines[i]
    BY <1>0, NewlineEnds DEF FileInv
<1>4. ~Whole(lines[n]) /\ Sole(lines[n]) = rec /\ Sole(lines'[n]) = rec
      /\ (Whole(lines'[n]) <=> lines[n].size = Pieces)
    BY <1>0, <1>1, <1>2, WholeLine
<1>5. Started' = Started
    BY DEF Started
<1>6. CASE lines[n].size # Pieces
    <2>1. RecordsOf(lines)' = RecordsOf(lines)
        BY <1>2, <1>3, <1>4, <1>6, SameEntries DEF FileInv
    <2> QED
        BY <1>5, <2>1 DEF Log!avars
<1>7. CASE lines[n].size = Pieces
    <2> DEFINE e == [at |-> n, rec |-> rec]
    <2>1. DOMAIN lines = 1..n /\ DOMAIN lines' = 1..n
        BY <1>0, <1>2 DEF FileInv, Locks, TypeOK
    <2>2. {j \in DOMAIN lines' : Whole(lines'[j])} = {j \in DOMAIN lines : Whole(lines[j])} \cup {n}
        BY <1>0, <1>3, <1>4, <1>7, <2>1
    <2>3. RecordsOf(lines)' = RecordsOf(lines) \cup {e}
        <3>1. \A i \in {j \in DOMAIN lines : Whole(lines[j])} : Sole(lines'[i]) = Sole(lines[i])
            BY <1>3, <1>4, <2>1
        <3> QED
            BY <1>4, <2>2, <3>1 DEF RecordsOf
    <2>4. \A d \in RecordsOf(lines) : d.at < e.at /\ d.rec # rec
        <3> SUFFICES ASSUME NEW d \in RecordsOf(lines) PROVE d.at < n /\ d.rec # rec
            OBVIOUS
        <3>1. d.at \in 1..n /\ Whole(lines[d.at]) /\ d.rec = Sole(lines[d.at]) /\ d.at # n
            BY <1>0, <1>4, EntriesOf
        <3>2. PICK other \in Records : lines[d.at].recs = {other}
            BY <3>1 DEF FileInv, Content, LinesInv
        <3>3. d.rec = other
            BY <3>1, <3>2, WholeLine
        <3>4. other # rec
            BY <1>0, <1>1, <3>1, <3>2 DEF FileInv, Once
        <3> QED
            BY <1>0, <3>1, <3>3, <3>4
    <2>5. rec \in Started /\ e.rec = rec /\ e.at \in Nat /\ e \in RecordsOf(lines)'
        BY <1>0, <1>1, <2>3 DEF Started
    <2> HIDE DEF e
    <2>6. Log!Enter(rec)
        BY <1>5, <2>3, <2>4, <2>5 DEF Log!Enter, Log!InLog
    <2> QED
        BY <2>6 DEF Log!ANext
<1> QED
    BY <1>6, <1>7

\* A piece of a record that has no newline yet is not in the log.
LEMMA PieceEntersNothing ==
  ASSUME FileInv, FileInv', NEW t \in Threads, WritePiece(t)
  PROVE  RecordsOf(lines)' = RecordsOf(lines)
<1>0. lines \in Seq(Line) /\ lines' \in Seq(Line)
    BY DEF FileInv, Locks, TypeOK
<1>1. CASE Torn
    <2>1. /\ Len(lines') = Len(lines) /\ \A i \in 1..Len(lines) : i # Len(lines) => lines'[i] = lines[i]
          /\ lines'[Len(lines)].recs = lines[Len(lines)].recs \cup {Current(t)}
          /\ lines'[Len(lines)].nl = FALSE
        BY <1>1, PieceJoins DEF FileInv
    <2>2. lines[Len(lines)].recs = {Current(t)}
        BY <1>1 DEF WritePiece, FileInv, Content, TailInv
    <2>3. lines[Len(lines)].nl # TRUE
        BY <1>1 DEF Torn
    <2>4. \A i \in 1..Len(lines) :
            Sole(lines'[i]) = Sole(lines[i]) /\ (Whole(lines'[i]) <=> Whole(lines[i]))
        BY <2>1, <2>2, <2>3 DEF Sole, Whole
    <2> QED
        BY <2>1, <2>4, SameEntries DEF FileInv
<1>2. CASE ~Torn
    <2>1. /\ Len(lines') = Len(lines) + 1 /\ Len(lines) \in Nat
          /\ \A i \in 1..Len(lines) : lines'[i] = lines[i]
          /\ lines'[Len(lines) + 1].nl = FALSE
        BY <1>2, PieceStarts DEF FileInv
    <2>2. DOMAIN lines = 1..Len(lines) /\ DOMAIN lines' = 1..(Len(lines) + 1)
        BY <1>0, <2>1
    <2>3. {j \in DOMAIN lines : Whole(lines[j])} = {j \in DOMAIN lines' : Whole(lines'[j])}
        BY <2>1, <2>2 DEF Whole
    <2>4. \A i \in {j \in DOMAIN lines : Whole(lines[j])} : lines'[i] = lines[i]
        BY <2>1, <2>2
    <2> QED
        BY <2>3, <2>4 DEF RecordsOf
<1> QED
    BY <1>1, <1>2

\* Every behaviour of the file is one of an append-only log of whole records.
THEOREM LogRefinement == Spec => ImplementsAppendLog
<1>1. Init => Log!AInit
    <2> SUFFICES ASSUME Init PROVE Log!AInit
        OBVIOUS
    <2>1. RecordsOf(<<>>) = {}
        BY DEF RecordsOf
    <2>2. Started = {}
        BY RecordBoundAssumption DEF Init, Started, Records
    <2>3. [r \in Readers |-> RecordsOf(snap[r])] = [r \in Readers |-> {}]
        BY <2>1 DEF Init
    <2> QED
        BY <2>1, <2>2, <2>3 DEF Init, Log!AInit
<1>2. FileInv /\ [Next]_vars /\ FileInv' => [Log!ANext]_(Log!avars)
    <2> SUFFICES ASSUME FileInv, [Next]_vars, FileInv' PROVE [Log!ANext]_(Log!avars)
        OBVIOUS
    <2>0. TypeOK /\ TypeOK' /\ Locks
        BY DEF FileInv, Locks
    <2>1. ASSUME UNCHANGED <<lines, count, acked, snap>> PROVE [Log!ANext]_(Log!avars)
        BY <2>1 DEF Log!avars, Started
    <2>2. ASSUME NEW t \in Threads, TakeMutex(t) PROVE Log!ANext
        <3> DEFINE rec == <<t, count[t] + 1>>
        <3>1. /\ count[t] \in Nat /\ count' = [count EXCEPT ![t] = @ + 1]
              /\ count'[t] \in 0..MaxRecords /\ UNCHANGED <<lines, acked, snap>>
              /\ count \in [Threads -> Int]
            BY <2>0, <2>2, RecordBoundAssumption DEF TakeMutex, TypeOK
        <3>2. rec \in Records
            BY <3>1, RecordBoundAssumption DEF Records
        <3>3. rec \notin Started
            BY <3>1 DEF Started
        <3>4. Started' = Started \cup {rec}
            <4>1. ASSUME NEW r \in Records
                  PROVE  r[2] <= count'[r[1]] <=> r[2] <= count[r[1]] \/ r = rec
                <5>1. r = <<r[1], r[2]>> /\ r[1] \in Threads /\ r[2] \in Int
                    BY RecordBoundAssumption DEF Records
                <5>2. CASE r[1] = t
                    BY <3>1, <5>1, <5>2
                <5>3. CASE r[1] # t
                    BY <3>1, <5>1, <5>3
                <5> QED
                    BY <5>2, <5>3
            <4> QED
                BY <3>2, <4>1 DEF Started
        <3> HIDE DEF rec
        <3>5. Log!Start(rec)
            BY <3>1, <3>3, <3>4 DEF Log!Start
        <3> QED
            BY <3>2, <3>5 DEF Log!ANext
    <2>3. ASSUME NEW t \in Threads, TerminateTornTail(t) PROVE [Log!ANext]_(Log!avars)
        BY <2>1, <2>3, NewlineEnters DEF TerminateTornTail
    <2>4. ASSUME NEW t \in Threads, WriteNewline(t) PROVE [Log!ANext]_(Log!avars)
        <3>1. Torn
            BY <2>4, PiecesAssumption DEF WriteNewline, FileInv, Content, TailInv, Torn
        <3> QED
            BY <2>4, <3>1, NewlineEnters DEF WriteNewline
    <2>5. ASSUME NEW t \in Threads, WritePiece(t) PROVE [Log!ANext]_(Log!avars)
        BY <2>5, PieceEntersNothing DEF WritePiece, Log!avars, Started
    <2>6. ASSUME NEW t \in Threads, Unlock(t) \/ UnlockFails(t) PROVE [Log!ANext]_(Log!avars)
        <3>1. /\ pc[t] = "unlock" /\ UNCHANGED <<lines, count, snap>>
              /\ acked' = IF result[t] = "ok" THEN acked \cup {Current(t)} ELSE acked
            BY <2>6 DEF Unlock, UnlockFails, Return
        <3>2. CASE result[t] # "ok"
            BY <2>1, <3>1, <3>2
        <3>3. CASE result[t] = "ok"
            <4>1. PICK i \in 1..Len(lines) : IsWhole(lines[i], Current(t))
                BY <3>1, <3>3 DEF FileInv, Content, DoneInv, InFile
            <4>2. Whole(lines[i]) /\ Sole(lines[i]) = Current(t)
                BY <4>1, WholeLine DEF IsWhole
            <4>3. [at |-> i, rec |-> Current(t)] \in RecordsOf(lines)
                BY <2>0, <4>2, EntriesOf DEF TypeOK
            <4>4. Log!Acknowledge(Current(t))
                BY <3>1, <3>3, <4>3 DEF Log!Acknowledge, Log!InLog, Started
            <4>5. Current(t) \in Records
                BY <2>0, <3>1, CurrentIsRecord DEF Inside
            <4> QED
                BY <4>4, <4>5 DEF Log!ANext
        <3> QED
            BY <3>2, <3>3
    <2>7. ASSUME NEW r \in Readers,
                 TakeLength(r) \/ TakeLengthKeepsLock(r) \/ TakeLengthUnlocked(r)
          PROVE  Log!ANext
        <3>1. UNCHANGED <<lines, count, acked>> /\ snap' = [snap EXCEPT ![r] = lines]
            BY <2>7 DEF TakeLength, TakeLengthKeepsLock, TakeLengthUnlocked
        <3>2. [q \in Readers |-> RecordsOf(snap[q])]'
                = [[q \in Readers |-> RecordsOf(snap[q])] EXCEPT ![r] = RecordsOf(lines)]
            BY <2>0, <3>1 DEF TypeOK
        <3>3. Log!View(r)
            BY <3>1, <3>2 DEF Log!View, Started
        <3> QED
            BY <3>3 DEF Log!ANext
    <2>8. ASSUME NEW t \in Threads, Flock(t) \/ FlockFails(t) \/ WriteFails(t)
          PROVE  [Log!ANext]_(Log!avars)
        BY <2>1, <2>8 DEF Flock, FlockFails, WriteFails
    <2>9. ASSUME \/ \E p \in Procs : Exit(p) \/ Kill(p) \/ Open(p)
                 \/ \E r \in Readers : LockShared(r) \/ LengthFails(r) \/ CloseSnapshot(r)
                 \/ UNCHANGED vars
          PROVE  [Log!ANext]_(Log!avars)
        BY <2>1, <2>9 DEF Exit, Kill, Open, LockShared, LengthFails, CloseSnapshot, vars
    <2> QED
        BY <2>2, <2>3, <2>4, <2>5, <2>6, <2>7, <2>8, <2>9 DEF Next, ThreadStep, ReaderStep
<1> QED
    BY <1>1, <1>2, FileHolds, PTL DEF Spec, ImplementsAppendLog, Log!ASpec

==============================================================================
