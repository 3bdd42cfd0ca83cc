--------------------------- MODULE MCShellPipeline ---------------------------
(***************************************************************************)
(* Every line of a few commands, with compound commands and carried lines  *)
(* inside one another.                                                     *)
(***************************************************************************)
EXTENDS ShellPipeline

Simple == [kind |-> "command", id |-> <<>>, does |-> Nothing, code |-> <<>>, subst |-> <<>>,
           sink |-> <<>>]
Compound(k, l, out) == [kind |-> k, body |-> l, out |-> out]
\* What may stand behind a compound command: a redirect to /n.
Behind(kinds) ==
  {<<>>} \cup {out \in {<<[base |-> "abs", names |-> <<"n">>]>>} : "redirect" \in kinds}
Carrying(l) == {[Simple EXCEPT !.code = l], [Simple EXCEPT !.subst = l], [Simple EXCEPT !.sink = l]}

Groups == {"paren", "brace", "if"}

\* The lines of n commands, those they carry included, with what is of the
\* given kinds at most d inside one another.
RECURSIVE LinesOf(_, _, _), StatementsOf(_, _, _)
CarriersOf(n, d, kinds) ==
  IF n = 1 THEN {Simple}
  ELSE IF d = 0 \/ "carrier" \notin kinds THEN {}
  ELSE UNION {Carrying(l) : l \in LinesOf(n - 1, d - 1, kinds)}
CompoundsOf(n, d, kinds) ==
  IF d = 0 THEN {}
  ELSE {c \in {Compound(k, l, out) : k \in kinds \cap Groups, l \in LinesOf(n, d - 1, kinds),
                                    out \in Behind(kinds)} :
          c.kind = "if" => Len(c.body) > 1}
StagesOf(n, d, kinds) == CarriersOf(n, d, kinds) \cup CompoundsOf(n, d, kinds)
StatementsOf(n, d, kinds) ==
  {<<s>> : s \in StagesOf(n, d, kinds)}
    \cup UNION {{<<s>> \o t : s \in StagesOf(i, d, kinds), t \in StatementsOf(n - i, d, kinds)}
                 : i \in 1..(n - 1)}
LinesOf(n, d, kinds) ==
  {<<s>> : s \in StatementsOf(n, d, kinds)}
    \cup UNION {{<<s>> \o t : s \in StatementsOf(i, d, kinds), t \in LinesOf(n - i, d, kinds)}
                 : i \in 1..(n - 1)}

\* A command's identity is its place in the line.
RECURSIVE Named(_, _)
NamedStage(s, at) ==
  IF s.kind # "command" THEN [s EXCEPT !.body = Named(@, at)]
  ELSE [s EXCEPT !.id = at, !.code = Named(@, at \o <<1>>), !.subst = Named(@, at \o <<2>>),
                 !.sink = Named(@, at \o <<3>>)]
Named(l, at) ==
  [i \in DOMAIN l |-> [j \in DOMAIN l[i] |-> NamedStage(l[i][j], at \o <<i, j>>)]]

All == Groups \cup {"carrier"}

\* Bounds: three commands two deep; four one deep; four three deep of carried
\* lines alone; without carried lines five one deep in parentheses, four two deep
\* in parentheses and `if`; with redirects behind groups two commands two deep,
\* three one deep, three in parentheses two deep.
MCLines ==
  {{Named(l, <<>>) : l \in lines} :
     lines \in {LinesOf(n, 2, All) : n \in 1..3}
                 \cup {LinesOf(4, 1, All), LinesOf(4, 3, {"carrier"}), LinesOf(5, 1, {"paren"}),
                       LinesOf(4, 2, {"paren", "if"}), LinesOf(2, 2, All \cup {"redirect"}),
                       LinesOf(3, 1, All \cup {"redirect"}), LinesOf(3, 2, {"paren", "redirect"})}}

\* The lines their commands carry, at most three deep.
CarriedBy(lines) == UNION {Carries(c) : c \in UNION {Simples(l) : l \in lines}}
BodiesOf(some) ==
  LET bodies == UNION {CarriedBy(lines) : lines \in some}
      inner == CarriedBy(bodies)
  IN bodies \cup inner \cup CarriedBy(inner)
=============================================================================
