---------------------------- MODULE ShellPipeline ----------------------------
(***************************************************************************)
(* How a `shell.pipeline` condition (src/plugin/dsl.rs) reads the parsed   *)
(* line (module ShellParse).                                               *)
(*                                                                         *)
(* A line is what the shell makes of it: statements separated by `;`, `&&` *)
(* or `||`, each a pipeline of stages; a stage is a simple command or a    *)
(* compound one around a line of its own, with redirects behind it or not. *)
(***************************************************************************)
EXTENDS ShellParse

VARIABLE
  matches  \* the pairs <<x, y>> a condition "from x to y" matches

vars == <<line, bash, matches, pc>>

-----------------------------------------------------------------------------
\* The tokens of a line.
Separated(parts, sep) ==
  FoldLeft(LAMBDA done, part : IF done = <<>> THEN part ELSE done \o <<Symbol(sep)>> \o part,
           <<>>, parts)

RECURSIVE LineTokens(_)
GroupTokens(s) ==
  CASE s.kind = "paren" -> <<Symbol("(")>> \o LineTokens(s.body) \o <<Symbol(")")>>
    [] s.kind = "brace" ->
         <<Reserved("{")>> \o LineTokens(s.body) \o <<Symbol(";"), Reserved("}")>>
    [] s.kind = "if" ->
         <<Reserved("if")>> \o LineTokens(<<Head(s.body)>>) \o <<Symbol(";"), Reserved("then")>>
           \o LineTokens(Tail(s.body)) \o <<Symbol(";"), Reserved("fi")>>
StageTokens(s) ==
  IF s.kind = "command" THEN <<Word(s)>>
  ELSE GroupTokens(s) \o (IF s.out = <<>> THEN <<>> ELSE <<Redirect(s.out)>>)
LineTokens(l) ==
  Separated([i \in DOMAIN l |-> Separated([j \in DOMAIN l[i] |-> StageTokens(l[i][j])], "|")], ";")

RECURSIVE Simples(_)

\* The simple commands of a line.
Stages(l) == UNION {Range(l[i]) : i \in DOMAIN l}
StageCommands(s) == IF s.kind = "command" THEN {s} ELSE Simples(s.body)
Simples(l) == UNION {StageCommands(s) : s \in Stages(l)}

ASSUME TokensAssumption == \A some \in Lines : \A l \in some : Direct(l) = Simples(l)

-----------------------------------------------------------------------------
\* shell.pipeline: { from, to }, for one source and one destination.

\* subst_tree_has_from
TreeHas(argv, from) == \E c \in Commands(<<argv>>) : c.id = from

FedBySubst(argv, from, to) ==
  argv.id = to /\ \E i \in DOMAIN argv.subst : TreeHas(argv.subst[i], from)

\* walk_argv_for_pipeline_from_to, over a list of commands: whether the
\* source has been seen, and whether the condition holds.
RECURSIVE WalkAll(_, _, _, _)
Walk(argv, from, to, seen) ==
  IF (seen /\ argv.id = to) \/ FedBySubst(argv, from, to) THEN [seen |-> TRUE, hit |-> TRUE]
  ELSE LET inner == WalkAll(argv.inner, from, to, seen \/ argv.id = from) IN
       IF inner.hit THEN inner
       ELSE [inner EXCEPT !.hit =
               \E i \in DOMAIN argv.subst : WalkAll(<<argv.subst[i]>>, from, to, FALSE).hit]

WalkAll(argvs, from, to, seen) ==
  FoldLeft(LAMBDA w, argv : IF w.hit THEN w ELSE Walk(argv, from, to, w.seen),
           [seen |-> seen, hit |-> FALSE], argvs)

ShellPipeline(from, to) == \E i \in DOMAIN bash : WalkAll(bash[i], from, to, FALSE).hit

-----------------------------------------------------------------------------
Ids == Within(line, NestingBudget)

Init == ParseInit /\ matches = {}

\* evaluate
Evaluate ==
  /\ pc = "evaluate" /\ pc' = "done"
  /\ matches' = {p \in Ids \X Ids : p[1] # p[2] /\ ShellPipeline(p[1], p[2])}
  /\ UNCHANGED <<line, bash>>

Next == (Parse /\ UNCHANGED matches) \/ Evaluate

Spec == Init /\ [][Next]_vars

-----------------------------------------------------------------------------
(***************************************************************************)
(* The reference: whose output may reach whose input, told from the line.  *)
(***************************************************************************)
RECURSIVE Shares(_, _), Inside(_, _), Flows(_, _), Parenthesised(_)

\* The commands that write where c writes and read where c reads.
Shares(c, depth) ==
  {c.id} \cup (IF depth = 0 THEN {} ELSE UNION {Shares(d, depth - 1) : d \in Direct(c.code)})
StageShares(s, depth) == UNION {Shares(c, depth) : c \in StageCommands(s)}

\* No reserved word opens a compound command.
Parenthesised(l) ==
  \A s \in Stages(l) : s.kind = "command" \/ (s.kind = "paren" /\ Parenthesised(s.body))

\* A word such as `{` is seen to open a group at the start of a segment only,
\* which is not where it stands after a pipe: nothing is promised of it there.
Readers(s, depth) == IF Parenthesised(<<<<s>>>>) THEN StageShares(s, depth) ELSE {}

\* Redirects behind a compound command keep ReadsGroupOutput from the pipe that
\* follows them: nothing is promised of what `(a) 2>f | b` passes to b.
Feeders(s, depth) == IF s.kind # "command" /\ s.out # <<>> THEN {} ELSE StageShares(s, depth)

Piped(statement, depth) ==
  UNION {Feeders(statement[j - 1], depth) \X Readers(statement[j], depth)
          : j \in 2..Len(statement)}

\* What is inside one command, whatever stands around it: it is fed by all of
\* its substitution, and the code it is handed is a line of its own.  Of a
\* substitution the commands are looked at one by one, so that a pipe between
\* two of them, `$(a | b)`, is not seen and nothing is promised of it.
Inside(c, depth) ==
  IF depth = 0 THEN {}
  ELSE (Within(c.subst, depth - 1) \X {c.id})
         \cup Flows(c.code, depth - 1)
         \cup UNION {Inside(d, depth - 1) : d \in Direct(c.subst) \cup Direct(c.sink)}

\* In a pipeline a command feeds its sink too, and that is a line of its own.
Attached(c, depth) ==
  Inside(c, depth)
    \cup (IF depth = 0 THEN {}
          ELSE ({c.id} \X UNION {Shares(d, depth - 1) : d \in Direct(c.sink)})
                 \cup Flows(c.sink, depth - 1))

Flows(l, depth) ==
  UNION {Piped(l[i], depth) : i \in DOMAIN l}
    \cup UNION {IF s.kind = "command" THEN Attached(s, depth) ELSE Flows(s.body, depth)
                 : s \in Stages(l)}

\* Where the output of one command may reach another, through a pipe, a group, a
\* substitution, a sink or code handed over, the condition on the two holds; but
\* not through a pipe behind the redirects of a group, nor through one, or a
\* sink, that stands in a substitution itself.
FlowMatched == pc = "done" => Flows(line, NestingBudget) \subseteq matches

\* Commands of two statements have nothing to do with each other: joining the
\* groups at a pipe goes no further than the group.
StatementsApart ==
  (pc = "done" /\ Parenthesised(line)) =>
    \A p \in matches : \E i \in DOMAIN line :
      {p[1], p[2]} \subseteq Within(<<line[i]>>, NestingBudget)
=============================================================================
