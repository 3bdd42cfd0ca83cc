------------------------------- MODULE Update -------------------------------
(***************************************************************************)
(* `ptuf update` (src/update): find out how ptuf was installed and which   *)
(* release is asked for, then let cargo install it, or download the        *)
(* installer of the release into a fresh directory, have gh attest it, and *)
(* run it.  The programs it starts may fail in every way; the process may  *)
(* be killed between two of them; other updates run at the same time, and  *)
(* other users share the temporary directory.                              *)
(*                                                                         *)
(* curl, gh, cargo and the installer are modelled by what update relies    *)
(* on: gh accepts only what the repository has attested, an attested       *)
(* installer installs the release it was published with, and a program     *)
(* that fails may have done its work or not.                               *)
(***************************************************************************)
EXTENDS Integers, FiniteSets

CONSTANTS
  Procs,     \* runs of `ptuf update`
  Versions,  \* the versions released
  Pre,       \* those with a pre-release suffix
  BadTag,    \* what is not a release tag
  Latest,    \* no --version: the latest release
  Options,   \* [check, force, skip, version]
  Names,     \* directory names a run may come up with
  Foreign,   \* what other users put in a directory
  NoFile, Partial,  \* a directory without the installer, or with a part of it
  Nobody, None

Tags == Versions \cup {BadTag}
Option == [check : BOOLEAN, force : BOOLEAN, skip : BOOLEAN, version : Tags \cup {Latest}]

ASSUME VersionsAssumption == Versions \subseteq Nat /\ Pre \subseteq Versions
ASSUME OptionsAssumption == Options \subseteq Option
ASSUME DistinctAssumption ==
  /\ BadTag \notin Versions /\ Latest \notin Tags
\* An installer script: the release it is of, and whether it is attested.
Script == [tag : Versions, attested : BOOLEAN]
\* A directory in the temporary directory: whose it is, and the installer in it.
File == Script \cup {NoFile, Partial}
Dir == [owner : Procs \cup {Nobody}, file : File]

ASSUME NoneAssumption ==
  /\ Nobody \notin Procs /\ None \notin Names /\ None \notin Versions /\ None \notin Dir
  /\ None \notin {0, 1}
  /\ NoFile \notin Script /\ Partial \notin Script \cup {NoFile}
  /\ Foreign \subseteq File

VARIABLES
  home,       \* where the running executable is
  installed,  \* the version an updater has put in place
  dirs,       \* dirs[n]: a directory of the temporary directory, or None
  pc,         \* pc[p]: the step of run p
  opts,       \* opts[p]
  current,    \* current[p]: the version of the executable that runs as p
  strategy,   \* strategy[p]: "cargo" or "prebuilt", once selected
  tag,        \* tag[p]: the release it updates to
  dir,        \* dir[p]: the name of its directory
  exit,       \* exit[p]: its exit code, or None
  fetched,    \* history: runs whose download was complete
  ran,        \* history: ran[p]: the script p has executed
  done        \* history: done[p]: the version its updater reported installed

own == <<opts, current, strategy, tag, dir, exit>>
vars == <<home, installed, dirs, pc, own, fetched, ran, done>>

Init ==
  /\ home \in {"npm", "cargo", "other", "unknown"}
  /\ installed \in Versions
  /\ dirs = [n \in Names |-> None]
  /\ pc = [p \in Procs |-> "start"]
  /\ opts \in [Procs -> Options]
  /\ current = [p \in Procs |-> installed]
  /\ strategy = [p \in Procs |-> "none"]
  /\ tag = [p \in Procs |-> BadTag]
  /\ dir = [p \in Procs |-> None]
  /\ exit = [p \in Procs |-> None]
  /\ fetched = {}
  /\ ran = [p \in Procs |-> NoFile]
  /\ done = [p \in Procs |-> None]

GoTo(p, l) == pc' = [pc EXCEPT ![p] = l] /\ UNCHANGED exit
Exit(p, code) == pc' = [pc EXCEPT ![p] = "exited"] /\ exit' = [exit EXCEPT ![p] = code]

-----------------------------------------------------------------------------
\* run_with_platform.

\* The version is compiled in: that of the executable when it was started.
Start(p) ==
  /\ pc[p] = "start"
  /\ current' = [current EXCEPT ![p] = installed]
  /\ GoTo(p, IF opts[p].check THEN "tag" ELSE "strategy")
  /\ UNCHANGED <<home, installed, dirs, opts, strategy, tag, dir, fetched, ran, done>>

\* select_strategy; an executable that cannot be found is nobody's, and cargo
\* may not be there.
SelectStrategy(p) ==
  /\ pc[p] = "strategy"
  /\ IF home = "npm" THEN Exit(p, 1) /\ UNCHANGED strategy
     ELSE /\ \E s \in IF home = "cargo" THEN {"cargo", "prebuilt"} ELSE {"prebuilt"} :
               strategy' = [strategy EXCEPT ![p] = s]
          /\ GoTo(p, "tag")
  /\ UNCHANGED <<home, installed, dirs, opts, current, tag, dir, fetched, ran, done>>

Pinned(p) == opts[p].version # Latest

\* --version, or fetch_latest_tag; then is_release_tag.
ResolveTag(p) ==
  /\ pc[p] = "tag"
  /\ \/ \E t \in IF Pinned(p) THEN {opts[p].version} ELSE Tags :
          /\ tag' = [tag EXCEPT ![p] = t]
          /\ IF t = BadTag THEN Exit(p, 1) ELSE GoTo(p, "decide")
     \/ /\ ~Pinned(p)
        /\ Exit(p, 1)
        /\ UNCHANGED tag
  /\ UNCHANGED <<home, installed, dirs, opts, current, strategy, dir, fetched, ran, done>>

\* version_lt: a pre-release suffix cannot be compared.
Older(v, w) == v \notin Pre /\ w \notin Pre /\ v < w

\* Mutant: the guard is left to the updater.
Refuses_Never(p) == pc[p] = "refused"

\* The downgrade guard.
Refuses(p) == Pinned(p) /\ ~opts[p].force /\ Older(tag[p], current[p])

Decide(p) ==
  /\ pc[p] = "decide"
  /\ IF opts[p].check \/ (~opts[p].force /\ tag[p] = current[p]) THEN Exit(p, 0)
     ELSE IF Refuses(p) THEN Exit(p, 1)
     ELSE GoTo(p, IF strategy[p] = "cargo" THEN "cargo" ELSE "dir")
  /\ UNCHANGED <<home, installed, dirs, opts, current, strategy, tag, dir, fetched, ran, done>>

-----------------------------------------------------------------------------
\* run_inherited_step: `cargo install ptuf --locked --force`, with --version
\* only when pinned: otherwise what crates.io has.
CargoInstall(p) ==
  /\ pc[p] = "cargo"
  /\ \/ \E v \in IF Pinned(p) THEN {tag[p]} ELSE Versions :
          /\ installed' = v
          /\ done' = [done EXCEPT ![p] = v]
          /\ Exit(p, 0)
     \/ /\ Exit(p, 1)
        /\ UNCHANGED <<installed, done>>
  /\ UNCHANGED <<home, dirs, opts, current, strategy, tag, dir, fetched, ran>>

-----------------------------------------------------------------------------
\* run_prebuilt_plan.

\* create_private_dir: only a directory that is not there yet.
MakeDir(p) ==
  /\ pc[p] = "dir"
  /\ \E n \in Names :
       IF dirs[n] = None
       THEN /\ dirs' = [dirs EXCEPT ![n] = [owner |-> p, file |-> NoFile]]
            /\ dir' = [dir EXCEPT ![p] = n]
            /\ GoTo(p, "download")
       ELSE Exit(p, 1) /\ UNCHANGED <<dirs, dir>>
  /\ UNCHANGED <<home, installed, opts, current, strategy, tag, fetched, ran, done>>

Here(p) == dirs[dir[p]]

\* curl, or iwr.
Download(p) ==
  /\ pc[p] = "download"
  /\ \/ \E a \in BOOLEAN :
          /\ dirs' = [dirs EXCEPT ![dir[p]].file = [tag |-> tag[p], attested |-> a]]
          /\ fetched' = fetched \cup {p}
          /\ GoTo(p, "verify")
     \/ /\ \E f \in {Here(p).file, Partial} : dirs' = [dirs EXCEPT ![dir[p]].file = f]
        /\ Exit(p, 1)
        /\ UNCHANGED fetched
  /\ UNCHANGED <<home, installed, opts, current, strategy, tag, dir, ran, done>>

\* Mutant: gh's exit code is not looked at.
Accepted_AnyExit(p) == pc[p] = "verify"

\* gh takes the script, or --skip-attestation (or the variable) keeps it out.
Accepted(p) ==
  opts[p].skip \/ (Here(p).file \in Script /\ Here(p).file.attested)

\* gh attestation verify; gh may be missing or fail on what is attested.
Verify(p) ==
  /\ pc[p] = "verify"
  /\ \/ /\ Accepted(p)
        /\ GoTo(p, "execute")
     \/ ~opts[p].skip /\ Exit(p, 1)
  /\ UNCHANGED <<home, installed, dirs, opts, current, strategy, tag, dir, fetched, ran, done>>

\* What running the script may install.
Installs(f) == IF f.attested THEN {f.tag} ELSE Versions

\* Mutant: the installer's exit code is not looked at.
Execute_AnyCode(p) ==
  /\ pc[p] = "execute"
  /\ ran' = [ran EXCEPT ![p] = Here(p).file]
  /\ \/ \E v \in Installs(Here(p).file) :
          installed' = v /\ done' = [done EXCEPT ![p] = v]
     \/ installed' \in {installed} \cup Installs(Here(p).file) /\ UNCHANGED done
  /\ GoTo(p, "cleanup")
  /\ UNCHANGED <<home, dirs, opts, current, strategy, tag, dir, fetched>>

\* sh, or powershell, on the file as it is now.
Execute(p) ==
  /\ pc[p] = "execute"
  /\ ran' = [ran EXCEPT ![p] = Here(p).file]
  /\ \/ \E v \in Installs(Here(p).file) :
          /\ installed' = v /\ done' = [done EXCEPT ![p] = v]
          /\ GoTo(p, "cleanup")
     \/ /\ installed' \in {installed} \cup Installs(Here(p).file)
        /\ Exit(p, 1)
        /\ UNCHANGED done
  /\ UNCHANGED <<home, dirs, opts, current, strategy, tag, dir, fetched>>

\* Either removal may fail; a directory with a file in it is not removed.
Cleanup(p) ==
  /\ pc[p] = "cleanup"
  /\ \E d \in {None, [Here(p) EXCEPT !.file = NoFile], Here(p)} :
       dirs' = [dirs EXCEPT ![dir[p]] = d]
  /\ Exit(p, 0)
  /\ UNCHANGED <<home, installed, opts, current, strategy, tag, dir, fetched, ran, done>>

-----------------------------------------------------------------------------
\* The world.

Kill(p) ==
  /\ pc[p] \notin {"start", "exited", "killed"}
  /\ pc' = [pc EXCEPT ![p] = "killed"]
  /\ UNCHANGED <<home, installed, dirs, own, fetched, ran, done>>

\* Another user makes a directory, and changes or removes what is in it.
OtherUser(n) ==
  /\ dirs[n] # None => dirs[n].owner = Nobody
  /\ \E d \in {None} \cup [owner : {Nobody}, file : Foreign] : dirs' = [dirs EXCEPT ![n] = d]
  /\ UNCHANGED <<home, installed, pc, own, fetched, ran, done>>

Step(p) ==
  \/ Start(p) \/ SelectStrategy(p) \/ ResolveTag(p) \/ Decide(p) \/ CargoInstall(p)
  \/ MakeDir(p) \/ Download(p) \/ Verify(p) \/ Execute(p) \/ Cleanup(p) \/ Kill(p)

Next == (\E p \in Procs : Step(p)) \/ (\E n \in Names : OtherUser(n))

Spec == Init /\ [][Next]_vars

-----------------------------------------------------------------------------
Labels == {"start", "strategy", "tag", "decide", "cargo", "dir", "download", "verify",
           "execute", "cleanup", "exited", "killed"}

TypeOK ==
  /\ home \in {"npm", "cargo", "other", "unknown"} /\ installed \in Versions
  /\ dirs \in [Names -> Dir \cup {None}]
  /\ pc \in [Procs -> Labels] /\ opts \in [Procs -> Options]
  /\ current \in [Procs -> Versions] /\ strategy \in [Procs -> {"none", "cargo", "prebuilt"}]
  /\ tag \in [Procs -> Tags] /\ dir \in [Procs -> Names \cup {None}]
  /\ exit \in [Procs -> {0, 1, None}] /\ fetched \subseteq Procs
  /\ ran \in [Procs -> File] /\ done \in [Procs -> Versions \cup {None}]

\* The script a run executes is all of the one it downloaded for the release it
\* decided on, and gh has accepted it unless the user asked otherwise: no other
\* run, and no other user, gets between the check and the execution.
ExecutedAsVerified ==
  \A p \in Procs : ran[p] # NoFile =>
    ran[p] \in Script /\ ran[p].tag = tag[p] /\ (ran[p].attested \/ opts[p].skip)

\* Exit code 0 means that the release is installed by an updater that said so,
\* that it already was, or that --check only asked; and never for an executable
\* npm manages.
ExitHonest ==
  \A p \in Procs : (exit[p] = 0 /\ ~opts[p].check) =>
    /\ home # "npm"
    /\ done[p] = None => ~opts[p].force /\ tag[p] = current[p]
    /\ (done[p] # None /\ IF ran[p] = NoFile THEN Pinned(p) ELSE ran[p].attested)
          => done[p] = tag[p]

\* A run that fails after the download leaves the script where its error
\* message says it is, and nothing else takes its place.
KeptForInspection ==
  \A p \in Procs : (exit[p] = 1 /\ p \in fetched) =>
    dirs[dir[p]] # None /\ dirs[dir[p]].owner = p
      /\ dirs[dir[p]].file \in Script /\ dirs[dir[p]].file.tag = tag[p]

\* A pinned update puts no release in the place of a newer one that runs it,
\* unless forced, or one of them is a pre-release.
NoSilentDowngrade ==
  \A p \in Procs : (done[p] # None /\ Pinned(p) /\ ~opts[p].force
                      /\ (ran[p] = NoFile \/ ran[p].attested))
    => ~Older(done[p], current[p])
=============================================================================
