---------------------------- MODULE SelfProtection ----------------------------
(***************************************************************************)
(* Which protected files a command line writes, as `ProtectedPaths` tells  *)
(* it (src/self_paths.rs): the line is parsed (module ShellPipeline), its  *)
(* commands are walked in order while `cd` moves the directory, and what   *)
(* they write is compared with the protected paths.                        *)
(*                                                                         *)
(* A path is a sequence of names.  A word is a path as the line has it: it *)
(* begins at the root ("abs"), at the home directory ("home"), where the   *)
(* shell is ("rel", "pwd" for $PWD), at a place known only when the line   *)
(* runs ("unknown", `$X/...`), or names a command (`$(which X)`).          *)
(***************************************************************************)
EXTENDS ShellPipeline

CONSTANTS
  Targets,  \* the protected paths, [kind, path], in the order of tagged_targets
  Root,     \* the repository
  Home,     \* the home directory
  Links     \* the symbolic links: [directory linked -> where to]

VARIABLES
  classified,  \* whether the line has been classified
  protected    \* Facts::protected: the kinds of the protected paths written

svars == <<line, bash, matches, pc, classified, protected>>

Dynamic == {"unknown", "pwd", "which"}  \* the words that begin with `$`
Wild == "*"      \* a name that is a pattern for any name
Dollar == "$X"   \* a name that is decided when the line runs

LastName(path) == path[Len(path)]
Starts(path, dir) == IsPrefix(dir, path)
Below(path, dir) == IsStrictPrefix(dir, path)

\* canonicalize: what a path is once its links are followed.
Real(path) ==
  LET through == {d \in DOMAIN Links : Starts(path, d)} IN
  IF through = {} THEN path
  ELSE LET d == CHOOSE d \in through : TRUE
       IN Links[d] \o SubSeq(path, Len(d) + 1, Len(path))

-----------------------------------------------------------------------------
\* What a line may write: the candidates.

\* expand_cwd_references: $PWD is where the shell is.
Expanded(word, cwd) ==
  IF word.base = "pwd" THEN [base |-> "abs", names |-> cwd \o word.names] ELSE word

\* resolve_with_env
Resolve(word, cwd) ==
  CASE word.base = "abs" -> word.names
    [] word.base = "home" -> Home \o word.names
    [] word.base = "unknown" -> cwd \o <<Dollar>> \o word.names
    [] OTHER -> cwd \o word.names

Candidate(how, path, tree) == [how |-> how, path |-> path, tree |-> tree]

Globs(word) == Wild \in Range(word.names)

\* What a word tells wherever the shell is known to be.
Spelled(word, cwd, tree) ==
  {Candidate(IF tree THEN "ancestor" ELSE "exact", Resolve(word, cwd), tree)}
    \cup {c \in {Candidate("tail", word.names, FALSE)} :
            word.base = "unknown" /\ Len(word.names) >= 2}
    \cup {c \in {Candidate("glob", Resolve(word, cwd), tree)} : Globs(word)}

\* Mutant: a relative path is known by its name even where the shell is known.
PushWord_ByName(word, cwd, lost, tree) ==
  IF word.base = "which" THEN {Candidate("name", word.names, FALSE)}
  ELSE Spelled(Expanded(word, cwd), cwd, tree)
         \cup {c \in {Candidate("name", word.names, FALSE)} : word.base = "rel"}

\* `push` of walk_shell.
PushWord(word, cwd, lost, tree) ==
  IF word.base = "which" THEN {Candidate("name", word.names, FALSE)}
  ELSE Spelled(Expanded(word, cwd), cwd, tree)
         \cup {c \in {Candidate("name", word.names, FALSE)} : lost /\ word.base = "rel"}

PushAll(words, s, tree) ==
  UNION {PushWord(words[i], s.cwd, s.lost, tree) : i \in DOMAIN words}

\* `cd`: home without a word, and lost where the word is decided at run time.
Move(s, words) ==
  IF words = <<>> THEN [s EXCEPT !.cwd = Home]
  ELSE IF words[1].base \in Dynamic THEN [s EXCEPT !.lost = TRUE]
  ELSE [s EXCEPT !.cwd = Resolve(words[1], s.cwd)]

\* One command: a `cd` of a carried line runs in a shell of its own.
WalkCommand(s, argv, direct) ==
  CASE argv.does.act = "cd" -> IF direct THEN Move(s, argv.does.words) ELSE s
    [] argv.does.act \in {"write", "remove"} ->
         [s EXCEPT !.found = @ \cup PushAll(argv.does.words, s, argv.does.act = "remove")]
    [] OTHER -> s

WalkCommands(s, pipe) ==
  FoldLeft(LAMBDA done, argv :
             LET own == WalkCommand(done, argv, TRUE)
                 nested == Commands(argv.inner \o argv.subst)
             IN [own EXCEPT !.found = @ \cup UNION {WalkCommand(own, c, FALSE).found : c \in nested}],
           s, pipe)

\* Redirects the engine has not resolved already, from the repository.
Redirected(s, pipe) ==
  LET out == FlattenSeq([i \in DOMAIN pipe |-> pipe[i].does.out])
      moved == s.cwd # Root \/ s.lost
  IN PushAll(SelectSeq(out, LAMBDA w : moved \/ Globs(w) \/ w.base \in Dynamic), s, FALSE)

\* The code that the commands of a pipeline hand to other shells, parsed.
HandedOn(pipe) ==
  {ParseWithDepth(argv.code, NestingBudget) : argv \in {argv \in Range(pipe) : argv.code # <<>>}}

RECURSIVE WalkShell(_, _, _)

\* Mutant: a shell is taken to start in the repository.
Nested_FromRoot(s, pipe, depth) ==
  IF depth = 0 THEN {}
  ELSE UNION {WalkShell(code, [cwd |-> Root, lost |-> FALSE, found |-> {}], depth - 1).found
               : code \in HandedOn(pipe)}

\* The code handed to other shells, which start where this one is.
Nested(s, pipe, depth) ==
  IF depth = 0 THEN {}
  ELSE UNION {WalkShell(code, [s EXCEPT !.found = {}], depth - 1).found : code \in HandedOn(pipe)}

\* walk_shell
WalkShell(segments, start, depth) ==
  FoldLeft(LAMBDA s, pipe :
             LET after == WalkCommands(s, pipe)
             IN [after EXCEPT !.found = @ \cup Redirected(after, pipe)
                                          \cup Nested(after, pipe, depth)],
           start, segments)

\* from_bash_redirects: all redirects, read from the repository, `$` as it is.
EngineRedirects ==
  LET all == Commands(FlattenSeq(bash))
      verbatim(w) == IF w.base \in Dynamic THEN [w EXCEPT !.base = "unknown"] ELSE w
  IN UNION {{Candidate("exact", Resolve(verbatim(argv.does.out[j]), Root), FALSE)
              : j \in DOMAIN argv.does.out} : argv \in all}

\* candidate_targets
Candidates ==
  EngineRedirects
    \cup WalkShell(bash, [cwd |-> Root, lost |-> FALSE, found |-> {}], NestingBudget).found

-----------------------------------------------------------------------------
\* The protected paths a candidate names.

MatchPath(path, target) == target \in {path, Real(path)}

\* match_descendant leaves the root and the home directory to another rule.
MatchDescendant(dir, target) ==
  dir \notin {<<>>, Home} /\ (Below(target, dir) \/ Below(target, Real(dir)))

\* path_glob_matches
MatchGlob(pattern, target, tree) ==
  /\ IF tree THEN Len(pattern) <= Len(target) ELSE Len(pattern) = Len(target)
  /\ \A i \in DOMAIN pattern : pattern[i] \in {Wild, target[i]}

\* find_kind: the first protected path, or none.
FindKind(named) ==
  IF named = {} THEN {}
  ELSE {Targets[CHOOSE i \in named : \A j \in named : i <= j].kind}

Matching(matching(_)) == {i \in DOMAIN Targets : matching(Targets[i].path)}

\* classify_input_prepared, for one candidate.
KindOf(c) ==
  CASE c.how = "exact" -> FindKind(Matching(LAMBDA t : MatchPath(c.path, t)))
    [] c.how = "ancestor" ->
         LET exact == Matching(LAMBDA t : MatchPath(c.path, t)) IN
         FindKind(IF exact # {} THEN exact ELSE Matching(LAMBDA t : MatchDescendant(c.path, t)))
    [] c.how = "name" -> FindKind(Matching(LAMBDA t : LastName(t) = LastName(c.path)))
    [] c.how = "tail" -> FindKind(Matching(LAMBDA t : IsSuffix(c.path, t)))
    [] c.how = "glob" -> FindKind(Matching(LAMBDA t : MatchGlob(c.path, t, c.tree)))

SelfInit == Init /\ classified = FALSE /\ protected = {}

\* Engine::decide classifies the line before the rules are evaluated.
Classify ==
  /\ pc = "evaluate" /\ ~classified
  /\ classified' = TRUE
  /\ protected' = UNION {KindOf(c) : c \in Candidates}
  /\ UNCHANGED vars

SelfNext ==
  \/ Classify
  \/ (pc = "evaluate" => classified) /\ Next /\ UNCHANGED <<classified, protected>>

SelfSpec == SelfInit /\ [][SelfNext]_svars

-----------------------------------------------------------------------------
(***************************************************************************)
(* The reference: what the shell does with the line.                       *)
(***************************************************************************)
Somewhere == <<"?">>  \* where a shell is after a `cd` decided at run time

\* A word in a shell that is at a place, or Somewhere.
Place(word, at) ==
  CASE word.base = "abs" -> word.names
    [] word.base = "home" -> Home \o word.names
    [] word.base \in {"rel", "pwd"} /\ at # Somewhere -> at \o word.names
    [] OTHER -> Somewhere

Fits(pattern, path) ==
  Len(pattern) = Len(path) /\ \A i \in DOMAIN path : pattern[i] \in {Wild, path[i]}

\* The protected paths that a write to the word, or a removal, may reach.  Of a
\* place that is not known, the name tells, or a tail of two names or more; a
\* pattern is compared as it is written.
Reached(word, at, tree) ==
  LET place == Place(word, at)
      paths == {Targets[i].path : i \in DOMAIN Targets}
  IN IF word.base = "which" THEN {t \in paths : LastName(t) = LastName(word.names)}
     ELSE IF place # Somewhere
     THEN {t \in paths :
             \/ Fits(IF Globs(word) THEN place ELSE Real(place), t)
             \/ /\ tree /\ place \notin {<<>>, Home} /\ Len(t) > Len(place)
                /\ \/ Fits(place, SubSeq(t, 1, Len(place))) \/ Below(t, Real(place))}
     ELSE IF word.base = "rel" THEN {t \in paths : LastName(t) = LastName(word.names)}
     ELSE IF word.base = "unknown" /\ Len(word.names) >= 2
     THEN {t \in paths : IsSuffix(word.names, t)}
     ELSE {}

\* Where a `cd` leads.
Led(words, at) == IF words = <<>> THEN Home ELSE Place(words[1], at)

\* The words a command writes, `tree` where it removes.
Written(does) ==
  {[word |-> w, tree |-> does.act = "remove"] : w \in {w \in Range(does.words) :
                                                      does.act \in {"write", "remove"}}}
    \cup {[word |-> w, tree |-> FALSE] : w \in Range(does.out)}

\* A word that does not tell where it leads without the shell's place.
FromHere(word) == word.base \in {"rel", "pwd"}

\* What is reached by what is written, a set of paths for each word; of a shell
\* that is not where the code takes it to be, by the words that need no place.
Hits(does, r) ==
  {Reached(w.word, r.at, w.tree) : w \in {w \in Written(does) : r.followed \/ ~FromHere(w.word)}}

RECURSIVE Run(_, _, _, _)

\* A carried line and a parenthesised one run in a shell of their own.
Apart(l, r, works, depth) ==
  LET own == Run(l, r, works, depth) IN [r EXCEPT !.hits = own.hits, !.all = own.all]

\* The code takes every `cd` to be run and to succeed: where it is wrong, the
\* shell is known again when a `cd` succeeds that does not depend on its place.
Cd(c, r, works) ==
  LET words  == c.does.words
      led    == Led(words, r.at)
      settles == words = <<>> \/ words[1].base \in {"abs", "home"}
      dynamic == words # <<>> /\ words[1].base \in Dynamic
  IN IF c.id \in works
     THEN [r EXCEPT !.at = led, !.all = @ \cup {led}, !.followed = @ \/ settles]
     ELSE [r EXCEPT !.followed = @ /\ dynamic]

\* `works` are the `cd` that are run, by `&&` and `||`, and that succeed.
RunStage(s, r, works, depth) ==
  IF s.kind # "command"
  THEN LET own == [r EXCEPT !.hits = @ \cup Hits([Nothing EXCEPT !.out = s.out], r)]
       IN IF s.kind = "paren" THEN Apart(s.body, own, works, depth)
          ELSE Run(s.body, own, works, depth)
  ELSE LET own == [r EXCEPT !.hits = @ \cup Hits(s.does, r)] IN
       IF s.does.act = "cd" THEN Cd(s, own, works)
       ELSE IF depth = 0 THEN own
       ELSE FoldLeft(LAMBDA x, l : Apart(l, x, works, depth - 1), own, <<s.code, s.subst, s.sink>>)

\* The directory the shell is in, whether the code takes it to be there, the
\* directories the shells have been in, and what they have reached.
Run(l, r, works, depth) ==
  FoldLeft(LAMBDA x, statement :
             FoldLeft(LAMBDA y, s : RunStage(s, y, works, depth), x, statement),
           r, l)

RunLine(works) ==
  Run(line, [at |-> Root, followed |-> TRUE, all |-> {Root}, hits |-> {}], works, NestingBudget)

-----------------------------------------------------------------------------
\* Every command of a line and every redirect behind a compound one, however deep.
RECURSIVE Everything(_), GroupRedirects(_), Followable(_)
Everything(l) ==
  LET own == Direct(l) IN own \cup UNION {Everything(c.code \o c.subst \o c.sink) : c \in own}
GroupRedirects(l) ==
  UNION {IF s.kind = "command" THEN GroupRedirects(s.code \o s.subst \o s.sink)
         ELSE {s.out} \cup GroupRedirects(s.body) : s \in Stages(l)}

\* Whatever is done to files, by a command or by a redirect behind a group.
Doings(l) ==
  {c.does : c \in Everything(l)} \cup {[Nothing EXCEPT !.out = out] : out \in GroupRedirects(l)}

Cds(l) == {c.id : c \in {c \in Everything(l) : c.does.act = "cd"}}
Moves(l) == \E does \in Doings(l) : does.act = "cd"
Redirects(l) == \E does \in Doings(l) : does.out # <<>>

\* Each `cd` is a statement of a shell's own line, in `{ }` or `if` or not, with
\* no redirect on it or around it: the code follows those.  Of a `cd` in
\* parentheses or at a pipe, of one with a redirect, which the code reads in the
\* directory it leads to, and of moves and redirects in a substitution or a
\* sink, nothing is claimed.
Followable(l) ==
  \A i \in DOMAIN l : \A s \in Range(l[i]) :
    /\ (\E c \in StageCommands(s) : c.does.act = "cd") =>
         /\ Len(l[i]) = 1 /\ s.kind # "paren"
         /\ (IF s.kind = "command" THEN s.does.out ELSE s.out) = <<>>
    /\ IF s.kind = "command"
       THEN Followable(s.code) /\ ~Moves(s.subst \o s.sink) /\ ~Redirects(s.subst \o s.sink)
       ELSE Followable(s.body)

KindsOf(paths) == {Targets[i].kind : i \in {i \in DOMAIN Targets : Targets[i].path \in paths}}

\* A write that reaches protected files is classified as one to one of them:
\* from wherever a shell has gone by the `cd` before it, in whatever shells
\* inside one another, through links and patterns, and by its name alone where
\* nobody knows.  After a `cd` that is skipped or fails, which the code takes to
\* have led on, this is so of the words that need no place, and of all of them
\* again once a `cd` succeeds that needs none.
WritesSeen ==
  (pc = "done" /\ Followable(line)) =>
    \A works \in SUBSET Cds(line) : \A hit \in RunLine(works).hits :
      hit # {} => protected \cap KindsOf(hit) # {}

\* And what is classified is written by some command of the line, as its words
\* read in the repository or in a directory that one of the shells is in when
\* every `cd` succeeds.
NothingElseFlagged ==
  (pc = "done" /\ Followable(line)) =>
    LET all == RunLine(Cds(line)).all IN
    Somewhere \notin all =>
      protected \subseteq
        KindsOf(UNION {Reached(w.word, at, w.tree) :
                         w \in UNION {Written(does) : does \in Doings(line)}, at \in all})
=============================================================================
