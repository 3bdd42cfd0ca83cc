------------------------------ MODULE ShellParse ------------------------------
(***************************************************************************)
(* How a command line becomes pipelines of commands (src/facts/shell.rs).  *)
(*                                                                         *)
(* A line is known by its tokens.  A token is a symbol (`;`, which stands  *)
(* for `&&` and `||` too, `(`, `)` or `|`), a reserved word, a simple      *)
(* command, its words and redirects taken together, or the redirects that  *)
(* stand behind a compound command, taken together.  A command is its      *)
(* identity, what it does to files (`does`, of which `out` are the targets *)
(* of its redirects) and the lines it carries: the code it is handed       *)
(* (`sh -c`), a substitution `$(...)` or `<(...)`, a sink `>(...)`.  The   *)
(* lexer, assignments and the output a line spells out for `echo ... | sh` *)
(* are left out.                                                           *)
(***************************************************************************)
EXTENDS Integers, Sequences, SequencesExt

CONSTANTS
  Lines,         \* the command lines, in sets of one kind each
  Bodies,        \* the lines that commands carry
  Tokens(_),     \* the tokens of a line
  NestingBudget  \* NESTING_BUDGET: how deep carried lines are parsed

VARIABLES
  line,
  bash,     \* the segments of `Bash`: pipelines of Argv
  pc        \* "parse" until the line is parsed

parse == <<line, bash, pc>>

\* A command that does nothing to files.
Nothing == [act |-> "none", words |-> <<>>, out |-> <<>>]

Symbol(s) == [t |-> s, text |-> "", cmd |-> <<>>]
Reserved(w) == [t |-> "word", text |-> w, cmd |-> <<>>]
Word(c) == [t |-> "word", text |-> "command", cmd |-> c]
\* Redirects behind a compound command: of no command, but of its pipeline.
Redirect(out) == [t |-> "word", text |-> "redirect", cmd |-> [Nothing EXCEPT !.out = out]]

Openers == {"{", "if"}
Closers == {"}", "fi"}
ReservedWords == Openers \cup Closers \cup {"then"}

IsCommand(tok) == tok.text = "command"
IsRedirect(tok) == tok.text = "redirect"

\* The simple commands of a line, without those in the lines they carry.
CommandsIn(tokens) == {tok.cmd : tok \in {tok \in Range(tokens) : IsCommand(tok)}}
Direct(l) == CommandsIn(Tokens(l))
Carries(c) == {c.code, c.subst, c.sink}

\* Where a command or redirects end a symbol comes: no word follows directly.
Grammatical(tokens) ==
  /\ tokens \in Seq(Range(tokens))
  /\ \A i \in DOMAIN tokens :
       \/ tokens[i].t \in {";", "(", ")", "|"} /\ tokens[i].text = ""
       \/ tokens[i].t = "word" /\ tokens[i].text \in ReservedWords
       \/ /\ tokens[i].t = "word" /\ (IsCommand(tokens[i]) \/ IsRedirect(tokens[i]))
          /\ i + 1 \in DOMAIN tokens => tokens[i + 1].t # "word"

ASSUME BudgetAssumption ==  NestingBudget \in Nat
ASSUME LinesAssumption ==
  \A some \in Lines \cup {Bodies} : \A l \in some :
    Grammatical(Tokens(l)) /\ \A c \in Direct(l) : c.id # <<>> /\ Carries(c) \subseteq Bodies

-----------------------------------------------------------------------------
\* split_segments.
NewSegment == [tokens |-> <<>>, opens |-> 0, closes |-> 0, leading |-> 0]

Cut(s) ==
  IF s.current.tokens = <<>> THEN s
  ELSE [s EXCEPT !.segments = Append(@, s.current), !.current = NewSegment]

CloseLast(s) ==
  IF s.segments = <<>> THEN s ELSE [s EXCEPT !.segments[Len(s.segments)].closes = @ + 1]

Close(s) == IF s.pending > 0 THEN [s EXCEPT !.pending = @ - 1] ELSE CloseLast(s)

Push(s, tok) ==
  LET now    == s.current
      first  == now.tokens = <<>>
      closer == Len(now.tokens) = now.leading /\ tok.text \in Closers
      opened == s.pending + (IF tok.text \in Openers THEN 1 ELSE 0)
      before == IF closer THEN CloseLast(s) ELSE s
  IN [segments |-> before.segments,
      pending |-> IF first THEN 0 ELSE s.pending,
      current |-> [tokens |-> Append(now.tokens, tok),
                   opens |-> IF first THEN opened ELSE now.opens,
                   closes |-> now.closes,
                   leading |-> IF closer THEN now.leading + 1 ELSE now.leading]]

AddToken(s, tok) ==
  CASE tok.t = ";" -> Cut(s)
    [] tok.t = "(" -> [Cut(s) EXCEPT !.pending = @ + 1]
    [] tok.t = ")" -> Close(Cut(s))
    [] OTHER -> Push(s, tok)

SplitSegments(tokens) ==
  LET after[i \in 0..Len(tokens)] ==
        IF i = 0 THEN [segments |-> <<>>, current |-> NewSegment, pending |-> 0]
        ELSE AddToken(after[i - 1], tokens[i])
  IN Cut(after[Len(tokens)]).segments

-----------------------------------------------------------------------------
\* join_piped_groups.  "k is joined" puts segments k and k + 1 in one pipeline.

\* Mutant: the closing words are forgotten.
ReadsGroupOutput_First(s) == s.tokens[1].t = "|"

ReadsGroupOutput(s) ==
  Len(s.tokens) > s.leading /\ s.tokens[s.leading + 1].t = "|"

FeedsGroup(s) == Last(s.tokens).t = "|"

Minus(m, n) == IF m > n THEN m - n ELSE 0

\* Mutant: the group is never found to begin.
Back_ToTheStart(segs, k) == 1..k

\* The segments of the group that ends with segment k: backwards, until no
\* group is still open.
Back(segs, k) ==
  LET still[i \in 1..k] ==
        Minus((IF i = k THEN 0 ELSE still[i + 1]) + segs[i].closes, segs[i].opens)
  IN {i \in 1..k : \A m \in (i + 1)..k : still[m] > 0}

\* And of the group that begins with segment k.
Forward(segs, k) ==
  LET still[i \in k..Len(segs)] ==
        Minus((IF i = k THEN 0 ELSE still[i - 1]) + segs[i].opens, segs[i].closes)
  IN {i \in k..Len(segs) : \A m \in k..(i - 1) : still[m] > 0}

AfterGroup(segs, j) == j > 1 /\ ReadsGroupOutput(segs[j]) /\ segs[j - 1].closes > 0
BeforeGroup(segs, i) == i < Len(segs) /\ FeedsGroup(segs[i]) /\ segs[i + 1].opens > 0

Joined(segs) ==
  UNION {Back(segs, j - 1) : j \in {j \in DOMAIN segs : AfterGroup(segs, j)}}
    \cup {k - 1 : k \in UNION {Forward(segs, i + 1) : i \in {i \in DOMAIN segs : BeforeGroup(segs, i)}}}

\* The closing words before the `|` are consumed by the join.
Kept(segs, j) ==
  IF AfterGroup(segs, j) THEN SubSeq(segs[j].tokens, segs[j].leading + 1, Len(segs[j].tokens))
  ELSE segs[j].tokens

AddSegment(out, tokens, joined) ==
  IF joined /\ out # <<>> THEN [out EXCEPT ![Len(out)] = @ \o <<Symbol("|")>> \o tokens]
  ELSE Append(out, tokens)

JoinPipedGroups(segs) ==
  LET joined == Joined(segs)
      out[j \in 0..Len(segs)] ==
        IF j = 0 THEN <<>> ELSE AddSegment(out[j - 1], Kept(segs, j), j - 1 \in joined)
  IN out[Len(segs)]

-----------------------------------------------------------------------------
\* parse_pipeline: the words of each command.  Redirects behind a compound
\* command are taken as one of no name, so that they stay with the pipeline.
AtPipe(s) ==
  IF s.words = <<>> THEN s ELSE [cmds |-> Append(s.cmds, s.words), words |-> <<>>]

AddWord(s, tok) ==
  IF tok.t = "|" THEN AtPipe(s) ELSE [s EXCEPT !.words = Append(@, tok)]

WordsBetweenPipes(tokens) ==
  LET after[i \in 0..Len(tokens)] ==
        IF i = 0 THEN [cmds |-> <<>>, words |-> <<>>] ELSE AddWord(after[i - 1], tokens[i])
  IN AtPipe(after[Len(tokens)]).cmds

\* peel_reserved_words: what is left begins with the first word that is not
\* reserved, or with the last one.
HeadWord(words) ==
  LET kept == {i \in DOMAIN words : i = Len(words) \/ words[i].text \notin ReservedWords}
  IN words[CHOOSE i \in kept : \A j \in kept : i <= j]

\* In what follows inner[<<b, l>>] are the commands of a carried line l, parsed
\* with the budget b.

\* Mutant: a carried line costs two levels.
Carried_Twice(l, budget, inner) == IF budget > 1 THEN inner[<<budget - 2, l>>] ELSE <<>>

\* What is left of the budget goes to the carried line.
Carried(l, budget, inner) == IF budget > 0 THEN inner[<<budget - 1, l>>] ELSE <<>>

\* parse_argv, with augment_inner_commands.
ParseArgv(words, budget, inner) ==
  LET head == HeadWord(words) IN
  IF IsCommand(head)
  THEN [id |-> head.cmd.id, does |-> head.cmd.does,
        code |-> IF budget > 0 THEN head.cmd.code ELSE <<>>,
        inner |-> Carried(head.cmd.code, budget, inner),
        subst |-> Carried(head.cmd.subst, budget, inner)
                    \o Carried(head.cmd.sink, budget, inner)]
  ELSE [id |-> <<>>, does |-> IF IsRedirect(head) THEN head.cmd ELSE Nothing,
        code |-> <<>>, inner |-> <<>>, subst |-> <<>>]

\* The commands of a sink become stages, their redirects do not.
WithoutRedirects(argv) == [argv EXCEPT !.does.out = <<>>]

Sinks(words, budget, inner) ==
  FlattenSeq([i \in DOMAIN words |->
    IF IsCommand(words[i])
    THEN LET sink == Carried(words[i].cmd.sink, budget, inner)
         IN [j \in DOMAIN sink |-> WithoutRedirects(sink[j])]
    ELSE <<>>])

\* parse_pipeline: a sink is the stage after the command it is attached to.
ParsePipeline(tokens, budget, inner) ==
  LET cmds == WordsBetweenPipes(tokens) IN
  FlattenSeq([i \in DOMAIN cmds |->
                <<ParseArgv(cmds[i], budget, inner)>> \o Sinks(cmds[i], budget, inner)])

\* parse_with_depth, without the pipelines that hold no command.
Pipelines(l, budget, inner) ==
  LET segs == JoinPipedGroups(SplitSegments(Tokens(l)))
      some(cmds) == IF cmds = <<>> THEN <<>> ELSE <<cmds>>
  IN FlattenSeq([i \in DOMAIN segs |-> some(ParsePipeline(segs[i], budget, inner))])

\* Of a carried line parse_inner_shell keeps the commands, without the bounds of
\* its pipelines.
ParseWithDepth(l, budget) ==
  LET InnerShell[call \in (0..NestingBudget) \X Bodies] ==
        FlattenSeq(Pipelines(call[2], call[1], InnerShell))
  IN Pipelines(l, budget, InnerShell)

\* Bash::commands: the commands of a list, those of carried lines included.
Commands(argvs) ==
  LET level[n \in 0..NestingBudget] ==
        IF n = 0 THEN Range(argvs)
        ELSE UNION {Range(argv.inner) \cup Range(argv.subst) : argv \in level[n - 1]}
  IN UNION {level[n] : n \in 0..NestingBudget}

ParseInit == (\E some \in Lines : line \in some) /\ bash = <<>> /\ pc = "parse"

\* facts::shell::parse
Parse ==
  /\ pc = "parse" /\ pc' = "evaluate"
  /\ bash' = ParseWithDepth(line, NestingBudget)
  /\ UNCHANGED line

\* What is done with the facts later only reads them.
Use == pc # "parse" /\ pc' # "parse" /\ UNCHANGED <<line, bash>>

ParseNext == Parse \/ Use

ParseSpec == ParseInit /\ [][ParseNext]_parse

-----------------------------------------------------------------------------
\* The identities of all the commands of a line, down to a depth.
Within(l, depth) ==
  LET level[n \in 0..depth] ==
        IF n = 0 THEN Direct(l)
        ELSE UNION {UNION {Direct(k) : k \in Carries(c)} : c \in level[n - 1]}
  IN {c.id : c \in UNION {level[n] : n \in 0..depth}}

\* The facts have every command of the line, in compound commands and in the
\* lines other commands carry, down to the nesting budget, and no other one.
NothingLost ==
  pc # "parse" =>
    {argv.id : argv \in Commands(FlattenSeq(bash))} \ {<<>>} = Within(line, NestingBudget)
=============================================================================
