------------------------------ MODULE AppendLog ------------------------------
(***************************************************************************)
(* What writers and readers of the audit log may rely on: records enter    *)
(* the log whole, one at a time and at most once, each behind those that   *)
(* are there; an acknowledged record is in it; a record whose write        *)
(* failed, or whose process died, may or may not be, and may enter late; a *)
(* reader sees the log as it was at one moment.                            *)
(***************************************************************************)
EXTENDS Integers

CONSTANTS Records, Readers

VARIABLES
  log,       \* the records, each with the place at which a reader meets it
  started,   \* records some writer has begun to append
  acked,     \* records acknowledged to their writer
  view       \* view[r]: the log reader r was given

avars == <<log, started, acked, view>>

AInit ==
  /\ log = {}
  /\ started = {}
  /\ acked = {}
  /\ view = [r \in Readers |-> {}]

Start(rec) ==
  /\ rec \notin started
  /\ started' = started \cup {rec}
  /\ UNCHANGED <<log, acked, view>>

InLog(rec) == \E e \in log : e.rec = rec

Enter(rec) ==
  /\ rec \in started
  /\ ~InLog(rec)
  /\ \E e \in log' :
       /\ log' = log \cup {e}
       /\ e.rec = rec
       /\ e.at \in Nat /\ \A d \in log : d.at < e.at
  /\ UNCHANGED <<started, acked, view>>

Acknowledge(rec) ==
  /\ InLog(rec)
  /\ acked' = acked \cup {rec}
  /\ UNCHANGED <<log, started, view>>

View(r) ==
  /\ view' = [view EXCEPT ![r] = log]
  /\ UNCHANGED <<log, started, acked>>

ANext ==
  \/ \E rec \in Records : Start(rec) \/ Enter(rec) \/ Acknowledge(rec)
  \/ \E r \in Readers : View(r)

ASpec == AInit /\ [][ANext]_avars
=============================================================================
