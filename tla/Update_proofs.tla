---------------------------- MODULE Update_proofs ----------------------------
(***************************************************************************)
(* Proofs about Update, for any number of runs, releases, options and      *)
(* directory names.  The inductive invariant says of each run what it has  *)
(* established so far; it survives the steps of the others because a       *)
(* directory has one owner.                                                *)
(***************************************************************************)
EXTENDS Update, TLAPS

-----------------------------------------------------------------------------
(* Type correctness. *)

LEMMA TypeInit == Init => TypeOK
BY DEF Init, TypeOK, Labels, Tags, File

LEMMA HereType ==
  ASSUME TypeOK, NEW p \in Procs, NEW d \in Dir, NEW f \in File
  PROVE  [d EXCEPT !.file = f] \in Dir
BY DEF Dir

LEMMA ExitType ==
  ASSUME TypeOK, NEW p \in Procs, NEW code \in {0, 1}, Exit(p, code)
  PROVE  pc' \in [Procs -> Labels] /\ exit' \in [Procs -> {0, 1, None}]
BY DEF TypeOK, Exit, Labels

LEMMA GoToType ==
  ASSUME TypeOK, NEW p \in Procs, NEW l \in Labels, GoTo(p, l)
  PROVE  pc' \in [Procs -> Labels] /\ exit' \in [Procs -> {0, 1, None}]
BY DEF TypeOK, GoTo

\* What a run has made of its directory.
Owns(p) == dir[p] \in Names /\ dirs[dir[p]] \in Dir /\ dirs[dir[p]].owner = p
HasScript(p) == Owns(p) /\ Here(p).file \in Script /\ Here(p).file.tag = tag[p]

Started == {"download", "verify", "execute", "cleanup"}
Installing == {"cargo", "dir"} \cup Started

\* What a run knows once it has decided to install.
Chosen(p) == tag[p] \in Versions /\ ~Refuses(p) /\ home # "npm"

RanScript(p) == ran[p] \in Script /\ ran[p].tag = tag[p] /\ (ran[p].attested \/ opts[p].skip)
Installed(p) ==
  /\ tag[p] \in Versions /\ ~Refuses(p) /\ home # "npm"
  /\ (IF ran[p] = NoFile THEN Pinned(p) ELSE ran[p].attested) => done[p] = tag[p]

RunInv(p) ==
  /\ (pc[p] \in {"tag", "decide"} /\ ~opts[p].check) => home # "npm"
  /\ pc[p] = "decide" => tag[p] \in Versions
  /\ pc[p] \in Installing => Chosen(p)
  /\ pc[p] \in Started => Owns(p)
  /\ pc[p] \in {"verify", "execute", "cleanup"} => HasScript(p)
  /\ pc[p] = "execute" => Here(p).file.attested \/ opts[p].skip
  /\ pc[p] = "cleanup" => done[p] # None
  /\ pc[p] \notin {"cleanup", "exited", "killed"} => ran[p] = NoFile /\ done[p] = None
  /\ pc[p] \notin {"verify", "execute", "cleanup", "exited", "killed"} => p \notin fetched
  /\ ran[p] # NoFile => RanScript(p)
  /\ done[p] # None => Installed(p)
  /\ exit[p] # None => pc[p] = "exited"
  /\ (exit[p] = 1 /\ p \in fetched) => HasScript(p)
  /\ (exit[p] = 0 /\ ~opts[p].check) =>
       home # "npm" /\ (done[p] = None => ~opts[p].force /\ tag[p] = current[p])

UpdateInv == TypeOK /\ \A p \in Procs : RunInv(p)

LEMMA TypeStep == UpdateInv /\ [Next]_vars => TypeOK'
<1> SUFFICES ASSUME UpdateInv, [Next]_vars PROVE TypeOK'
    OBVIOUS
<1>0. TypeOK
    BY DEF UpdateInv
<1>1. ASSUME NEW p \in Procs, Start(p) PROVE TypeOK'
    <2>1. pc' \in [Procs -> Labels] /\ exit' \in [Procs -> {0, 1, None}]
        BY <1>0, <1>1, GoToType DEF Start, Labels
    <2> QED
        BY <1>0, <1>1, <2>1 DEF TypeOK, Start
<1>2. ASSUME NEW p \in Procs, SelectStrategy(p) PROVE TypeOK'
    <2>1. pc' \in [Procs -> Labels] /\ exit' \in [Procs -> {0, 1, None}]
        BY <1>0, <1>2, GoToType, ExitType DEF SelectStrategy, Labels
    <2> QED
        BY <1>0, <1>2, <2>1 DEF TypeOK, SelectStrategy
<1>3. ASSUME NEW p \in Procs, ResolveTag(p) PROVE TypeOK'
    <2>1. pc' \in [Procs -> Labels] /\ exit' \in [Procs -> {0, 1, None}]
        BY <1>0, <1>3, GoToType, ExitType DEF ResolveTag, Labels
    <2>2. Pinned(p) => opts[p].version \in Tags
        BY <1>0, OptionsAssumption DEF TypeOK, Pinned, Option
    <2> QED
        BY <1>0, <1>3, <2>1, <2>2 DEF TypeOK, ResolveTag
<1>4. ASSUME NEW p \in Procs, Decide(p) PROVE TypeOK'
    <2>1. pc' \in [Procs -> Labels] /\ exit' \in [Procs -> {0, 1, None}]
        BY <1>0, <1>4, GoToType, ExitType DEF Decide, Labels
    <2> QED
        BY <1>0, <1>4, <2>1 DEF TypeOK, Decide
<1>5. ASSUME NEW p \in Procs, CargoInstall(p) PROVE TypeOK'
    <2>1. pc' \in [Procs -> Labels] /\ exit' \in [Procs -> {0, 1, None}]
        BY <1>0, <1>5, ExitType DEF CargoInstall
    <2>2. tag[p] \in Versions
        BY <1>5 DEF UpdateInv, RunInv, Chosen, Installing, CargoInstall
    <2> QED
        BY <1>0, <1>5, <2>1, <2>2 DEF TypeOK, CargoInstall
<1>6. ASSUME NEW p \in Procs, MakeDir(p) PROVE TypeOK'
    <2>1. pc' \in [Procs -> Labels] /\ exit' \in [Procs -> {0, 1, None}]
        BY <1>0, <1>6, GoToType, ExitType DEF MakeDir, Labels
    <2>2. [owner |-> p, file |-> NoFile] \in Dir
        BY DEF Dir, File
    <2> QED
        BY <1>0, <1>6, <2>1, <2>2 DEF TypeOK, MakeDir
<1>7. ASSUME NEW p \in Procs, Download(p) PROVE TypeOK'
    <2>1. pc' \in [Procs -> Labels] /\ exit' \in [Procs -> {0, 1, None}]
        BY <1>0, <1>7, GoToType, ExitType DEF Download, Labels
    <2>2. Owns(p) /\ tag[p] \in Versions
        BY <1>7 DEF UpdateInv, RunInv, Chosen, Installing, Started, Download
    <2>3. Here(p).file \in File /\ Partial \in File
          /\ \A a \in BOOLEAN : [tag |-> tag[p], attested |-> a] \in File
        BY <2>2 DEF Owns, Here, Dir, File, Script
    <2>4. \A f \in File : [Here(p) EXCEPT !.file = f] \in Dir
        BY <1>0, <2>2, HereType DEF Owns, Here
    <2>5. dirs' \in [Names -> Dir \cup {None}]
        BY <1>0, <1>7, <2>2, <2>3, <2>4 DEF TypeOK, Download, Owns, Here
    <2> QED
        BY <1>0, <1>7, <2>1, <2>5 DEF TypeOK, Download
<1>8. ASSUME NEW p \in Procs, Verify(p) PROVE TypeOK'
    <2>1. pc' \in [Procs -> Labels] /\ exit' \in [Procs -> {0, 1, None}]
        BY <1>0, <1>8, GoToType, ExitType DEF Verify, Labels
    <2> QED
        BY <1>0, <1>8, <2>1 DEF TypeOK, Verify
<1>9. ASSUME NEW p \in Procs, Execute(p) PROVE TypeOK'
    <2>1. pc' \in [Procs -> Labels] /\ exit' \in [Procs -> {0, 1, None}]
        BY <1>0, <1>9, GoToType, ExitType DEF Execute, Labels
    <2>2. Here(p).file \in Script
        BY <1>9 DEF UpdateInv, RunInv, HasScript, Execute
    <2>3. Installs(Here(p).file) \subseteq Versions
        BY <2>2 DEF Installs, Script
    <2>4. ran' \in [Procs -> File]
        BY <1>0, <1>9, <2>2 DEF TypeOK, Execute, File
    <2>5. installed' \in Versions /\ done' \in [Procs -> Versions \cup {None}]
        BY <1>0, <1>9, <2>3 DEF TypeOK, Execute
    <2> QED
        BY <1>0, <1>9, <2>1, <2>4, <2>5 DEF TypeOK, Execute
<1>10. ASSUME NEW p \in Procs, Cleanup(p) PROVE TypeOK'
    <2>1. pc' \in [Procs -> Labels] /\ exit' \in [Procs -> {0, 1, None}]
        BY <1>0, <1>10, ExitType DEF Cleanup
    <2>2. Owns(p)
        BY <1>10 DEF UpdateInv, RunInv, Started, Cleanup
    <2>3. Here(p) \in Dir /\ [Here(p) EXCEPT !.file = NoFile] \in Dir
        BY <1>0, <2>2, HereType DEF Owns, Here, File
    <2> QED
        BY <1>0, <1>10, <2>1, <2>2, <2>3 DEF TypeOK, Cleanup, Owns
<1>11. ASSUME NEW p \in Procs, Kill(p) PROVE TypeOK'
    BY <1>0, <1>11 DEF TypeOK, Kill, own, Labels
<1>12. ASSUME NEW n \in Names, OtherUser(n) PROVE TypeOK'
    <2>1. [owner : {Nobody}, file : Foreign] \subseteq Dir
        BY NoneAssumption DEF Dir
    <2>2. dirs' \in [Names -> Dir \cup {None}]
        BY <1>0, <1>12, <2>1 DEF TypeOK, OtherUser
    <2> QED
        BY <1>0, <1>12, <2>2 DEF TypeOK, OtherUser, own
<1>13. CASE UNCHANGED vars
    BY <1>0, <1>13 DEF TypeOK, vars, own
<1> QED
    BY <1>1, <1>2, <1>3, <1>4, <1>5, <1>6, <1>7, <1>8, <1>9, <1>10, <1>11, <1>12, <1>13
    DEF Next, Step

-----------------------------------------------------------------------------
(* A run keeps what it has established while others take their steps. *)

Apart(p) ==
  /\ pc'[p] = pc[p] /\ opts'[p] = opts[p] /\ current'[p] = current[p]
  /\ strategy'[p] = strategy[p] /\ tag'[p] = tag[p] /\ dir'[p] = dir[p] /\ exit'[p] = exit[p]
  /\ (p \in fetched' <=> p \in fetched) /\ ran'[p] = ran[p] /\ done'[p] = done[p]
  /\ home' = home
  /\ Owns(p) => dirs'[dir[p]] = dirs[dir[p]]

LEMMA ApartKeeps ==
  ASSUME NEW p \in Procs, RunInv(p), Apart(p)
  PROVE  RunInv(p)'
BY DEF RunInv, Apart, Owns, HasScript, Here, Chosen, Refuses, Pinned, RanScript, Installed

\* The steps that leave the directories alone.
LEMMA QuietApart ==
  ASSUME TypeOK, NEW q \in Procs, NEW p \in Procs, p # q,
         \/ Start(q) \/ SelectStrategy(q) \/ ResolveTag(q) \/ Decide(q) \/ CargoInstall(q)
         \/ Verify(q) \/ Execute(q) \/ Kill(q)
  PROVE  Apart(p)
<1> USE DEF TypeOK, Apart, Exit, GoTo
<1>1. CASE Start(q)
    BY <1>1 DEF Start
<1>2. CASE SelectStrategy(q)
    BY <1>2 DEF SelectStrategy
<1>3. CASE ResolveTag(q)
    BY <1>3 DEF ResolveTag
<1>4. CASE Decide(q)
    BY <1>4 DEF Decide
<1>5. CASE CargoInstall(q)
    BY <1>5 DEF CargoInstall
<1>6. CASE Verify(q)
    BY <1>6 DEF Verify
<1>7. CASE Execute(q)
    BY <1>7 DEF Execute
<1>8. CASE Kill(q)
    BY <1>8 DEF Kill, own
<1> QED
    BY <1>1, <1>2, <1>3, <1>4, <1>5, <1>6, <1>7, <1>8

\* Those that change a directory change one of another owner.
LEMMA DirApart ==
  ASSUME UpdateInv, NEW q \in Procs, NEW p \in Procs, p # q,
         MakeDir(q) \/ Download(q) \/ Cleanup(q)
  PROVE  Apart(p)
<1>0. TypeOK
    BY DEF UpdateInv
<1>1. CASE MakeDir(q)
    <2>1. Owns(p) => dirs'[dir[p]] = dirs[dir[p]]
        BY <1>0, <1>1, NoneAssumption DEF MakeDir, Owns, TypeOK
    <2> QED
        BY <1>0, <1>1, <2>1 DEF MakeDir, TypeOK, Apart, Exit, GoTo
<1>2. CASE Download(q)
    <2>1. Owns(q)
        BY <1>2 DEF UpdateInv, RunInv, Started, Download
    <2>2. Owns(p) => dirs'[dir[p]] = dirs[dir[p]]
        BY <1>0, <1>2, <2>1 DEF Download, Owns, TypeOK
    <2> QED
        BY <1>0, <1>2, <2>2 DEF Download, TypeOK, Apart, Exit, GoTo
<1>3. CASE Cleanup(q)
    <2>1. Owns(q)
        BY <1>3 DEF UpdateInv, RunInv, Started, Cleanup
    <2>2. Owns(p) => dirs'[dir[p]] = dirs[dir[p]]
        BY <1>0, <1>3, <2>1 DEF Cleanup, Owns, TypeOK
    <2> QED
        BY <1>0, <1>3, <2>2 DEF Cleanup, TypeOK, Apart, Exit
<1> QED
    BY <1>1, <1>2, <1>3

LEMMA OtherUserApart ==
  ASSUME TypeOK, NEW n \in Names, OtherUser(n), NEW p \in Procs
  PROVE  Apart(p)
<1>1. Owns(p) => dirs'[dir[p]] = dirs[dir[p]]
    BY NoneAssumption DEF OtherUser, Owns, TypeOK
<1> QED
    BY <1>1 DEF OtherUser, own, Apart

-----------------------------------------------------------------------------
(* A run's own steps. *)

LEMMA OwnStep ==
  ASSUME UpdateInv, NEW p \in Procs, Step(p)
  PROVE  RunInv(p)'
<1>0. TypeOK /\ RunInv(p)
    BY DEF UpdateInv
<1>00. opts' = opts /\ home' = home
    BY DEF Step, Start, SelectStrategy, ResolveTag, Decide, CargoInstall, MakeDir, Download,
           Verify, Execute, Cleanup, Kill, own
<1>1. CASE Start(p)
    <2>1. exit[p] \notin {0, 1} /\ p \notin fetched
        BY <1>0, <1>1, NoneAssumption DEF Start, RunInv
    <2> QED
        BY <1>0, <1>00, <1>1, <2>1 DEF Start, GoTo, RunInv, TypeOK, Installing, Started
<1>2. CASE SelectStrategy(p)
    <2>1. pc[p] = "strategy" /\ exit[p] = None /\ p \notin fetched
        BY <1>0, <1>2 DEF SelectStrategy, RunInv, TypeOK
    <2> QED
        BY <1>0, <1>00, <1>2, <2>1
        DEF SelectStrategy, Exit, GoTo, RunInv, TypeOK, Installing, Started
<1>3. CASE ResolveTag(p)
    <2>1. Pinned(p) => opts[p].version \in Tags
        BY <1>0, OptionsAssumption DEF TypeOK, Pinned, Option
    <2>2. exit[p] \notin {0, 1} /\ p \notin fetched
        BY <1>0, <1>3, NoneAssumption DEF ResolveTag, RunInv
    <2> QED
        BY <1>0, <1>00, <1>3, <2>1, <2>2
        DEF ResolveTag, Exit, GoTo, RunInv, TypeOK, Installing, Started, Tags
<1>4. CASE Decide(p)
    BY <1>0, <1>00, <1>4
    DEF Decide, Exit, GoTo, RunInv, TypeOK, Installing, Started, Chosen, Refuses, Pinned
<1>5. CASE CargoInstall(p)
    BY <1>0, <1>00, <1>5, NoneAssumption
    DEF CargoInstall, Exit, RunInv, TypeOK, Installing, Started, Chosen, Refuses, Pinned, Installed
<1>6. CASE MakeDir(p)
    BY <1>0, <1>00, <1>6
    DEF MakeDir, Exit, GoTo, RunInv, TypeOK, Installing, Started, Chosen, Refuses, Pinned, Owns, Dir, File
<1>7. CASE Download(p)
    BY <1>0, <1>00, <1>7
    DEF Download, Exit, GoTo, RunInv, TypeOK, Installing, Started, Chosen, Refuses, Pinned, Owns, Dir, File,
        HasScript, Here, Script
<1>8. CASE Verify(p)
    BY <1>0, <1>00, <1>8
    DEF Verify, Accepted, Exit, GoTo, RunInv, TypeOK, Installing, Started, Chosen, Refuses, Pinned, Owns,
        HasScript, Here
<1>9. CASE Execute(p)
    BY <1>0, <1>00, <1>9, NoneAssumption
    DEF Execute, Exit, GoTo, RunInv, TypeOK, Installing, Started, Chosen, Refuses, Pinned, Owns,
        HasScript, Here, RanScript, Installed, Installs
<1>10. CASE Cleanup(p)
    BY <1>0, <1>00, <1>10
    DEF Cleanup, Exit, RunInv, TypeOK, Installing, Started, Chosen, Refuses, Pinned, RanScript, Installed
<1>11. CASE Kill(p)
    BY <1>0, <1>00, <1>11
    DEF Kill, own, RunInv, TypeOK, Installing, Started, HasScript, Owns, Here, RanScript, Installed, Refuses, Pinned
<1> QED
    BY <1>1, <1>2, <1>3, <1>4, <1>5, <1>6, <1>7, <1>8, <1>9, <1>10, <1>11 DEF Step

LEMMA UpdateInit == Init => UpdateInv
<1> SUFFICES ASSUME Init PROVE UpdateInv
    OBVIOUS
<1>1. ASSUME NEW p \in Procs PROVE RunInv(p)
    BY NoneAssumption DEF Init, RunInv, Installing, Started
<1> QED
    BY <1>1, TypeInit DEF UpdateInv

LEMMA UpdateStep == UpdateInv /\ [Next]_vars => UpdateInv'
<1> SUFFICES ASSUME UpdateInv, [Next]_vars PROVE UpdateInv'
    OBVIOUS
<1>1. TypeOK /\ TypeOK' /\ \A p \in Procs : RunInv(p)
    BY TypeStep DEF UpdateInv
<1>2. ASSUME NEW q \in Procs, Step(q), NEW p \in Procs PROVE RunInv(p)'
    <2>1. CASE p = q
        BY <1>2, <2>1, OwnStep
    <2>2. CASE p # q
        <3>1. Apart(p)
            BY <1>1, <1>2, <2>2, QuietApart, DirApart DEF Step
        <3> QED
            BY <1>1, <3>1, ApartKeeps
    <2> QED
        BY <2>1, <2>2
<1>3. ASSUME NEW n \in Names, OtherUser(n), NEW p \in Procs PROVE RunInv(p)'
    BY <1>1, <1>3, OtherUserApart, ApartKeeps
<1>4. ASSUME UNCHANGED vars, NEW p \in Procs PROVE RunInv(p)'
    <2>1. Apart(p)
        BY <1>4 DEF vars, own, Apart
    <2> QED
        BY <1>1, <2>1, ApartKeeps
<1> QED
    BY <1>1, <1>2, <1>3, <1>4 DEF Next, UpdateInv

LEMMA UpdateInvariant == Spec => []UpdateInv
BY UpdateInit, UpdateStep, PTL DEF Spec

-----------------------------------------------------------------------------
(* The theorems. *)

\* Every variable of Update keeps its type.
THEOREM UpdateTypes == Spec => []TypeOK
<1>1. UpdateInv => TypeOK
    BY DEF UpdateInv
<1> QED
    BY <1>1, UpdateInvariant, PTL

\* Whatever the others do, what a run executes is its own download, accepted.
THEOREM VerifiedIsExecuted == Spec => []ExecutedAsVerified
<1>1. UpdateInv => ExecutedAsVerified
    BY DEF UpdateInv, RunInv, RanScript, ExecutedAsVerified
<1> QED
    BY <1>1, UpdateInvariant, PTL

\* Exit code 0 is given for the outcomes the caller may rely on, and no others.
THEOREM ExitCodeHonest == Spec => []ExitHonest
<1>1. UpdateInv => ExitHonest
    BY DEF UpdateInv, RunInv, Installed, ExitHonest
<1> QED
    BY <1>1, UpdateInvariant, PTL

\* The script of a failed update stays for the user to look at.
THEOREM ScriptKept == Spec => []KeptForInspection
<1>1. UpdateInv => KeptForInspection
    <2> SUFFICES ASSUME UpdateInv, NEW p \in Procs, exit[p] = 1, p \in fetched
                 PROVE  /\ dirs[dir[p]] # None /\ dirs[dir[p]].owner = p
                        /\ dirs[dir[p]].file \in Script /\ dirs[dir[p]].file.tag = tag[p]
        BY DEF KeptForInspection
    <2>1. HasScript(p)
        BY DEF UpdateInv, RunInv
    <2> QED
        BY <2>1, NoneAssumption DEF HasScript, Owns, Here
<1> QED
    BY <1>1, UpdateInvariant, PTL

\* No pinned update goes back in time unasked.
THEOREM NoDowngrade == Spec => []NoSilentDowngrade
<1>1. UpdateInv => NoSilentDowngrade
    BY DEF UpdateInv, RunInv, Installed, Refuses, NoSilentDowngrade
<1> QED
    BY <1>1, UpdateInvariant, PTL
=============================================================================
