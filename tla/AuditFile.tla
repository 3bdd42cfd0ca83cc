------------------------------ MODULE AuditFile ------------------------------
(***************************************************************************)
(* The audit JSONL file, the ptuf processes that append to it and the      *)
(* `ptuf audit` processes that read it (src/audit/mod.rs, writer.rs,       *)
(* read.rs).                                                               *)
(*                                                                         *)
(* A process opens the file once.  Its threads share the sink: `record`    *)
(* takes the sink's Mutex, then the advisory lock of the open file, ends a *)
(* torn last line, writes the record and its newline with one `write_all`, *)
(* which the kernel may split, and unlocks.  Any system call may fail, and *)
(* a process may be killed between any two of them (an agent kills a hook  *)
(* that runs over its timeout); the kernel then drops its lock.            *)
(*                                                                         *)
(* The file is a sequence of lines, the last one perhaps unterminated.  Of *)
(* a line we keep which records have bytes in it and how many pieces it    *)
(* has: a line of one record with all its pieces is that record.           *)
(***************************************************************************)
EXTENDS Integers, Sequences, FiniteSets, SequencesExt

CONSTANTS
  Procs,       \* ptuf processes
  Threads,     \* their threads
  ProcOf,      \* ProcOf[t]: the process of thread t
  Readers,     \* `ptuf audit` processes
  Pieces,      \* pieces of a record's body; its newline is one more write
  MaxRecords,  \* bound: records of any thread
  Quota,       \* Quota[t]: how many of them are thread t's
  MaxKills,    \* bound: processes killed
  MaxErrors,   \* bound: system calls that fail
  Nobody

ASSUME ProcOfAssumption == ProcOf \in [Threads -> Procs]
ASSUME NobodyAssumption == Nobody \notin Procs /\ Nobody \notin Threads
ASSUME PiecesAssumption == Pieces \in Nat \ {0}
ASSUME RecordBoundAssumption ==
  MaxRecords \in Nat /\ MaxKills \in Nat /\ MaxErrors \in Nat
ASSUME QuotaAssumption == Quota \in [Threads -> 0..MaxRecords]

\* The n-th record of thread t.
Records == Threads \X (1..MaxRecords)
Line == [recs : SUBSET Records, size : Nat, nl : BOOLEAN]

VARIABLES
  lines,    \* the file
  flock,    \* process holding the exclusive advisory lock, or Nobody
  shared,   \* readers holding the shared lock
  mutex,    \* mutex[p]: thread inside p's sink, or Nobody
  alive,    \* processes running, with the file open
  pc,       \* pc[t]: where in `record` thread t is
  count,    \* count[t]: records thread t has begun
  written,  \* written[t]: pieces of the current record written so far
  result,   \* result[t]: what `record` will return, "ok" or "err"
  acked,    \* records whose `record` returned Ok
  refused,  \* records whose `record` returned Err: audit write warnings
  rpc,      \* rpc[r]: "idle", "locked", "read", "read_unlocked" or "failed"
  snap,     \* snap[r]: the lines up to the length reader r took
  kills, errors

vars == <<lines, flock, shared, mutex, alive, pc, count, written, result, acked,
          refused, rpc, snap, kills, errors>>

Current(t) == <<t, count[t]>>
\* The file ls with a newline at its end.
EndLine(ls) ==
  [ls EXCEPT ![Len(ls)] = [recs |-> @.recs, size |-> @.size, nl |-> TRUE]]
Torn == lines # <<>> /\ ~lines[Len(lines)].nl

Init ==
  /\ lines = <<>>
  /\ flock = Nobody
  /\ shared = {}
  /\ mutex = [p \in Procs |-> Nobody]
  /\ alive = Procs
  /\ pc = [t \in Threads |-> "idle"]
  /\ count = [t \in Threads |-> 0]
  /\ written = [t \in Threads |-> 0]
  /\ result = [t \in Threads |-> "ok"]
  /\ acked = {}
  /\ refused = {}
  /\ rpc = [r \in Readers |-> "idle"]
  /\ snap = [r \in Readers |-> <<>>]
  /\ kills = 0
  /\ errors = 0

-----------------------------------------------------------------------------
\* JsonlSink::record, thread t.

\* Mutant: two threads of a process inside `record` at once.
TakeMutex_NoWait(t) ==
  /\ pc[t] = "idle" /\ ProcOf[t] \in alive
  /\ count[t] < Quota[t]
  /\ mutex' = [mutex EXCEPT ![ProcOf[t]] = t]
  /\ pc' = [pc EXCEPT ![t] = "lock"]
  /\ count' = [count EXCEPT ![t] = @ + 1]
  /\ written' = [written EXCEPT ![t] = 0]
  /\ UNCHANGED <<lines, flock, shared, alive, result, acked, refused, rpc, snap,
                 kills, errors>>

\* `self.file.lock()`: waits for the thread inside.
TakeMutex(t) ==
  /\ pc[t] = "idle" /\ ProcOf[t] \in alive
  /\ count[t] < Quota[t]
  /\ mutex[ProcOf[t]] = Nobody
  /\ mutex' = [mutex EXCEPT ![ProcOf[t]] = t]
  /\ pc' = [pc EXCEPT ![t] = "lock"]
  /\ count' = [count EXCEPT ![t] = @ + 1]
  /\ written' = [written EXCEPT ![t] = 0]
  /\ UNCHANGED <<lines, flock, shared, alive, result, acked, refused, rpc, snap,
                 kills, errors>>

\* A lock the process still holds (an earlier unlock failed) is granted again.
CanLock(p) == flock \in {Nobody, p} /\ shared = {}

\* `File::lock`: waits for every other process's lock.
Flock(t) ==
  /\ pc[t] = "lock"
  /\ CanLock(ProcOf[t])
  /\ flock' = ProcOf[t]
  /\ pc' = [pc EXCEPT ![t] = "tail"]
  /\ UNCHANGED <<lines, shared, mutex, alive, count, written, result, acked,
                 refused, rpc, snap, kills, errors>>

\* `File::lock` fails: `record` returns the error at once.
FlockFails(t) ==
  /\ pc[t] = "lock"
  /\ errors < MaxErrors
  /\ errors' = errors + 1
  /\ pc' = [pc EXCEPT ![t] = "idle"]
  /\ mutex' = [mutex EXCEPT ![ProcOf[t]] = Nobody]
  /\ refused' = refused \cup {Current(t)}
  /\ UNCHANGED <<lines, flock, shared, alive, count, written, result, acked, rpc,
                 snap, kills>>

\* Mutant: the torn last line is left as it is.
TerminateTornTail_Missing(t) ==
  /\ pc[t] = "tail"
  /\ pc' = [pc EXCEPT ![t] = "write"]
  /\ UNCHANGED <<lines, flock, shared, mutex, alive, count, written, result,
                 acked, refused, rpc, snap, kills, errors>>

\* terminate_torn_tail: the newline it writes when the last byte is not one.
TerminateTornTail(t) ==
  /\ pc[t] = "tail"
  /\ pc' = [pc EXCEPT ![t] = "write"]
  /\ lines' = IF Torn THEN EndLine(lines) ELSE lines
  /\ UNCHANGED <<flock, shared, mutex, alive, count, written, result, acked,
                 refused, rpc, snap, kills, errors>>

\* What one more body piece of rec makes of the file.
AppendPiece(ls, rec) ==
  IF ls # <<>> /\ ~ls[Len(ls)].nl
  THEN [ls EXCEPT ![Len(ls)] =
          [recs |-> @.recs \cup {rec}, size |-> @.size + 1, nl |-> FALSE]]
  ELSE Append(ls, [recs |-> {rec}, size |-> 1, nl |-> FALSE])

\* append_record: `write_all` writes the next piece of the body ...
WritePiece(t) ==
  /\ pc[t] = "write"
  /\ written[t] < Pieces
  /\ lines' = AppendPiece(lines, Current(t))
  /\ written' = [written EXCEPT ![t] = @ + 1]
  /\ UNCHANGED <<flock, shared, mutex, alive, pc, count, result, acked, refused,
                 rpc, snap, kills, errors>>

\* Mutant: the newline is not part of the record's write.
WriteNewline_Missing(t) ==
  /\ pc[t] = "write"
  /\ written[t] = Pieces
  /\ pc' = [pc EXCEPT ![t] = "unlock"]
  /\ result' = [result EXCEPT ![t] = "ok"]
  /\ UNCHANGED <<lines, flock, shared, mutex, alive, count, written, acked,
                 refused, rpc, snap, kills, errors>>

\* ... and the newline last.
WriteNewline(t) ==
  /\ pc[t] = "write"
  /\ written[t] = Pieces
  /\ lines' = EndLine(lines)
  /\ pc' = [pc EXCEPT ![t] = "unlock"]
  /\ result' = [result EXCEPT ![t] = "ok"]
  /\ UNCHANGED <<flock, shared, mutex, alive, count, written, acked, refused, rpc,
                 snap, kills, errors>>

\* Mutant: the write's error is dropped.
WriteFails_Ok(t) ==
  /\ pc[t] \in {"tail", "write"}
  /\ errors < MaxErrors
  /\ errors' = errors + 1
  /\ pc' = [pc EXCEPT ![t] = "unlock"]
  /\ result' = [result EXCEPT ![t] = "ok"]
  /\ UNCHANGED <<lines, flock, shared, mutex, alive, count, written, acked,
                 refused, rpc, snap, kills>>

\* A read or write inside the lock fails (disk full, I/O error): what was
\* written stays, the rest of the record is given up.
WriteFails(t) ==
  /\ pc[t] \in {"tail", "write"}
  /\ errors < MaxErrors
  /\ errors' = errors + 1
  /\ pc' = [pc EXCEPT ![t] = "unlock"]
  /\ result' = [result EXCEPT ![t] = "err"]
  /\ UNCHANGED <<lines, flock, shared, mutex, alive, count, written, acked,
                 refused, rpc, snap, kills>>

\* `record` returns; the Mutex guard goes with it.
Return(t) ==
  /\ pc' = [pc EXCEPT ![t] = "idle"]
  /\ mutex' = [mutex EXCEPT ![ProcOf[t]] = Nobody]
  /\ IF result[t] = "ok"
     THEN acked' = acked \cup {Current(t)} /\ UNCHANGED refused
     ELSE refused' = refused \cup {Current(t)} /\ UNCHANGED acked

Unlock(t) ==
  /\ pc[t] = "unlock"
  /\ flock' = Nobody
  /\ Return(t)
  /\ UNCHANGED <<lines, shared, alive, count, written, result, rpc, snap, kills,
                 errors>>

\* `File::unlock` fails and is ignored: the open file keeps the lock.
UnlockFails(t) ==
  /\ pc[t] = "unlock"
  /\ errors < MaxErrors
  /\ errors' = errors + 1
  /\ Return(t)
  /\ UNCHANGED <<lines, flock, shared, alive, count, written, result, rpc, snap,
                 kills>>

-----------------------------------------------------------------------------
\* Processes.  Closing the file drops the lock whatever unlock did.

\* Mutant: a lock that outlives its process (a lock file).
Close_KeepsLock(p) ==
  /\ alive' = alive \ {p}
  /\ mutex' = [mutex EXCEPT ![p] = Nobody]
  /\ pc' = [t \in Threads |-> IF ProcOf[t] = p THEN "idle" ELSE pc[t]]
  /\ UNCHANGED flock

Close(p) ==
  /\ alive' = alive \ {p}
  /\ flock' = IF flock = p THEN Nobody ELSE flock
  /\ mutex' = [mutex EXCEPT ![p] = Nobody]
  /\ pc' = [t \in Threads |-> IF ProcOf[t] = p THEN "idle" ELSE pc[t]]

\* A hook process ends once no thread of it is in `record`.
Exit(p) ==
  /\ p \in alive
  /\ \A t \in Threads : ProcOf[t] = p => pc[t] = "idle"
  /\ Close(p)
  /\ UNCHANGED <<lines, shared, count, written, result, acked, refused, rpc, snap,
                 kills, errors>>

\* SIGKILL, wherever its threads are.
Kill(p) ==
  /\ p \in alive
  /\ kills < MaxKills
  /\ kills' = kills + 1
  /\ Close(p)
  /\ UNCHANGED <<lines, shared, count, written, result, acked, refused, rpc, snap,
                 errors>>

\* The next hook call of the host: `open_append` on the same path.
Open(p) ==
  /\ p \notin alive
  /\ \E t \in Threads : ProcOf[t] = p /\ count[t] < Quota[t]
  /\ alive' = alive \cup {p}
  /\ UNCHANGED <<lines, flock, shared, mutex, pc, count, written, result, acked,
                 refused, rpc, snap, kills, errors>>

-----------------------------------------------------------------------------
\* audit/read.rs: open_snapshot.

\* Mutant: the reader does not wait.
LockShared_NoWait(r) ==
  /\ rpc[r] = "idle"
  /\ shared' = shared \cup {r}
  /\ rpc' = [rpc EXCEPT ![r] = "locked"]
  /\ UNCHANGED <<lines, flock, mutex, alive, pc, count, written, result, acked,
                 refused, snap, kills, errors>>

\* `lock_shared`: waits for a writer.
LockShared(r) ==
  /\ rpc[r] = "idle"
  /\ flock = Nobody
  /\ shared' = shared \cup {r}
  /\ rpc' = [rpc EXCEPT ![r] = "locked"]
  /\ UNCHANGED <<lines, flock, mutex, alive, pc, count, written, result, acked,
                 refused, snap, kills, errors>>

\* The length under the lock, then unlock.  The file only grows, so what is
\* read up to that length later is what is there now.
TakeLength(r) ==
  /\ rpc[r] = "locked"
  /\ snap' = [snap EXCEPT ![r] = lines]
  /\ rpc' = [rpc EXCEPT ![r] = "read"]
  /\ shared' = shared \ {r}
  /\ UNCHANGED <<lines, flock, mutex, alive, pc, count, written, result, acked,
                 refused, kills, errors>>

\* The unlock fails, which is ignored: the lock stays until the file is closed.
TakeLengthKeepsLock(r) ==
  /\ rpc[r] = "locked"
  /\ errors < MaxErrors
  /\ errors' = errors + 1
  /\ snap' = [snap EXCEPT ![r] = lines]
  /\ rpc' = [rpc EXCEPT ![r] = "read"]
  /\ UNCHANGED <<lines, flock, shared, mutex, alive, pc, count, written, result,
                 acked, refused, kills>>

\* The length cannot be taken: the reader unlocks and gives up.
LengthFails(r) ==
  /\ rpc[r] = "locked"
  /\ errors < MaxErrors
  /\ errors' = errors + 1
  /\ rpc' = [rpc EXCEPT ![r] = "failed"]
  /\ shared' = shared \ {r}
  /\ UNCHANGED <<lines, flock, mutex, alive, pc, count, written, result, acked,
                 refused, snap, kills>>

\* The snapshot is dropped: the file is closed, and a lock left on it goes.
CloseSnapshot(r) ==
  /\ rpc[r] = "read" /\ r \in shared
  /\ shared' = shared \ {r}
  /\ UNCHANGED <<lines, flock, mutex, alive, pc, count, written, result, acked,
                 refused, rpc, snap, kills, errors>>

\* `lock_shared` fails: the length is taken without it.
TakeLengthUnlocked(r) ==
  /\ rpc[r] = "idle"
  /\ errors < MaxErrors
  /\ errors' = errors + 1
  /\ snap' = [snap EXCEPT ![r] = lines]
  /\ rpc' = [rpc EXCEPT ![r] = "read_unlocked"]
  /\ UNCHANGED <<lines, flock, shared, mutex, alive, pc, count, written, result,
                 acked, refused, kills>>

-----------------------------------------------------------------------------
ThreadStep(t) ==
  \/ TakeMutex(t) \/ Flock(t) \/ FlockFails(t) \/ TerminateTornTail(t)
  \/ WritePiece(t) \/ WriteNewline(t) \/ WriteFails(t)
  \/ Unlock(t) \/ UnlockFails(t)

ReaderStep(r) ==
  \/ LockShared(r) \/ TakeLength(r) \/ TakeLengthKeepsLock(r) \/ LengthFails(r)
  \/ CloseSnapshot(r) \/ TakeLengthUnlocked(r)

Next ==
  \/ \E t \in Threads : ThreadStep(t)
  \/ \E p \in Procs : Exit(p) \/ Kill(p) \/ Open(p)
  \/ \E r \in Readers : ReaderStep(r)

Spec == Init /\ [][Next]_vars

\* A thread inside `record` is running straight-line code; the kernel grants
\* a lock that stays free; a hook process ends when its work is done; a
\* reader goes on to unlock, or to close the file.
Fairness ==
  /\ \A t \in Threads :
       /\ WF_vars(Flock(t)) /\ WF_vars(TerminateTornTail(t))
       /\ WF_vars(WritePiece(t)) /\ WF_vars(WriteNewline(t)) /\ WF_vars(Unlock(t))
  /\ \A p \in Procs : WF_vars(Exit(p))
  /\ \A r \in Readers : WF_vars(TakeLength(r)) /\ WF_vars(CloseSnapshot(r))
FairSpec == Spec /\ Fairness
-----------------------------------------------------------------------------
\* Properties.

Inside == {"lock", "tail", "write", "unlock"}   \* between the Mutex and return
Critical == {"tail", "write", "unlock"}         \* between lock and unlock
Started == {rec \in Records : rec[2] <= count[rec[1]]}
InProgress(rec) == rec = Current(rec[1]) /\ pc[rec[1]] \in Inside
\* Started, over, and its writer was told neither Ok nor Err.
Lost == {rec \in Started : ~InProgress(rec)} \ (acked \cup refused)

\* A line the reader parses as a record: all of one, and nothing else.
Whole(line) == line.nl /\ Cardinality(line.recs) = 1 /\ line.size = Pieces
Sole(line) == CHOOSE rec \in line.recs : TRUE
RecordsOf(ls) ==
  {[at |-> i, rec |-> Sole(ls[i])] : i \in {j \in DOMAIN ls : Whole(ls[j])}}

TypeOK ==
  /\ lines \in Seq(Line)
  /\ flock \in Procs \cup {Nobody}
  /\ shared \in SUBSET Readers
  /\ mutex \in [Procs -> Threads \cup {Nobody}]
  /\ alive \in SUBSET Procs
  /\ pc \in [Threads -> Inside \cup {"idle"}]
  /\ count \in [Threads -> 0..MaxRecords]
  /\ written \in [Threads -> 0..Pieces]
  /\ result \in [Threads -> {"ok", "err"}]
  /\ acked \in SUBSET Records
  /\ refused \in SUBSET Records
  /\ rpc \in [Readers -> {"idle", "locked", "read", "read_unlocked", "failed"}]
  /\ snap \in [Readers -> Seq(Line)]
  /\ kills \in 0..MaxKills
  /\ errors \in 0..MaxErrors

\* At most one thread of all processes is between lock and unlock, whatever
\* unlocks failed and whichever processes were killed (JsonlSink::record).
MutualExclusion ==
  \A t, u \in Threads : pc[t] \in Critical /\ pc[u] \in Critical => t = u

\* No line holds bytes of two records: a fragment left by a dead or failed
\* writer is ended before the next record starts (terminate_torn_tail).
OneRecordPerLine ==
  \A i \in DOMAIN lines : Cardinality(lines[i].recs) = 1

\* A record acknowledged to its writer stays in the file as a line of its
\* own that `ptuf audit` parses.
AckedReadable ==
  \A rec \in acked : \E i \in DOMAIN lines : Whole(lines[i]) /\ lines[i].recs = {rec}

\* A process killed in the middle of `record` takes at most one record with
\* it without an answer, however many threads it runs: the Mutex lets one of
\* them in at a time.
OneLossPerKill == Cardinality(Lost) <= kills

\* A snapshot whose length was taken under the shared lock never ends inside
\* a record that is still being written: the `incomplete tail` it reports is
\* a record that was given up (open_snapshot).
LockedSnapshotTail ==
  \A r \in Readers :
    rpc[r] = "read" /\ snap[r] # <<>> /\ ~Last(snap[r]).nl
      => \A rec \in Last(snap[r]).recs : ~InProgress(rec)

\* The file, read the way `ptuf audit` reads it, is an append-only log of
\* whole records, each entering at most once, and an acknowledged record is
\* in it.
Log ==
  INSTANCE AppendLog WITH
    log <- RecordsOf(lines),
    started <- Started,
    view <- [r \in Readers |-> RecordsOf(snap[r])]
ImplementsAppendLog == Log!ASpec

\* No thread waits for the file lock for ever: a killed process, one whose
\* unlock failed or a reader does not keep the others out.
NoWriterStuck == \A t \in Threads : pc[t] = "lock" ~> pc[t] # "lock"
=============================================================================
