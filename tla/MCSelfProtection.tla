--------------------------- MODULE MCSelfProtection ---------------------------
(***************************************************************************)
(* The lines of MCShellPipeline, and lines of up to three commands that    *)
(* move about and write, in one shell and in shells inside one another.    *)
(***************************************************************************)
EXTENDS MCShellPipeline, SelfProtection

MCRoot == <<"r">>
MCHome == <<"h">>
MCTargets ==
  <<[kind |-> "Binary", path |-> <<"h", "b">>],
    [kind |-> "Config", path |-> <<"r", "p">>],
    [kind |-> "ClaudeSettings", path |-> <<"h", "c", "s">>],
    [kind |-> "CodexSettings", path |-> <<"r", "c", "s">>]>>
\* In the repository `l` is a link to the directory in the home directory.
MCLinks == (<<"r", "l">> :> <<"h", "c">>)

W(base, names) == [base |-> base, names |-> names]
Command(act, words, out) ==
  [Simple EXCEPT !.does = [act |-> act, words |-> words, out |-> out]]

Movers ==
  {Simple, Command("cd", <<>>, <<>>)}
    \cup {Command("cd", <<w>>, <<>>) :
            w \in {W("rel", <<"c">>), W("rel", <<"l">>), W("abs", <<"h", "c">>),
                   W("unknown", <<"c">>)}}

Places ==
  {W("rel", <<"s">>), W("rel", <<"c", "s">>), W("rel", <<"l", "s">>), W("rel", <<Wild, "s">>),
   W("abs", <<"h", "c", "s">>), W("home", <<"c", "s">>), W("unknown", <<"c", "s">>),
   W("unknown", <<"s">>), W("pwd", <<"s">>)}
Trees == {W("rel", <<"c">>), W("rel", <<Wild>>), W("home", <<>>), W("home", <<"c">>),
          W("unknown", <<"r", "p">>)}
Writers ==
  {Command("write", <<w>>, <<>>) : w \in Places \cup {W("which", <<"b">>)}}
    \cup {Command("none", <<>>, <<w>>) : w \in Places}
    \cup {Command("remove", <<w>>, <<>>) : w \in Trees}

Sh(k, l) == <<[Simple EXCEPT !.id = <<k>>, !.code = l]>>
Subst(k, l) == <<[Simple EXCEPT !.id = <<k>>, !.subst = l]>>
Sink(k, l) == <<[Simple EXCEPT !.id = <<k>>, !.sink = l]>>
Group(kind, l) == <<Compound(kind, l, <<>>)>>
\* A group with the redirects of a command behind it, if that has any.
GroupTo(kind, l, s) == <<Compound(kind, l, s[1].does.out)>>
As(k, c) == <<[c EXCEPT !.id = <<k>>]>>

\* Two moves and a write, in the arrangements of shells and groups.
Arranged(how, a, b, c) ==
  CASE how = 1 -> <<a, b, c>>
    [] how = 2 -> <<a, c, b>>
    [] how = 3 -> <<a, Sh(4, <<b, c>>)>>
    [] how = 4 -> <<Sh(4, <<a>>), b, c>>
    [] how = 5 -> <<Sh(4, <<a, Sh(5, <<b, c>>)>>)>>
    [] how = 6 -> <<Sh(4, <<a, Sh(5, <<b, Sh(6, <<c>>)>>)>>)>>
    [] how = 7 -> <<Group("brace", <<a, b>>), c>>
    [] how = 8 -> <<a, GroupTo("brace", <<b>>, c)>>
    [] how = 9 -> <<a, Group("if", <<b, c>>)>>
    [] how = 10 -> <<a, b, GroupTo("paren", <<As(4, Simple)>>, c) \o As(5, Simple)>>
    [] how = 11 -> <<a, Group("paren", <<Sh(4, <<b, c>>)>>)>>
    [] how = 12 -> <<a, Group("paren", <<b>>), c>>
    [] how = 13 -> <<a, b, As(4, Simple) \o c>>
    [] how = 14 -> <<a, b, Subst(4, <<c>>)>>
    [] how = 15 -> <<a, b, Sink(4, <<c>>)>>

SelfLines ==
  MCLines
    \cup {{Arranged(how, As(1, m), As(2, n), As(3, w)) : m, n \in Movers, w \in Writers}
           : how \in 1..15}
    \cup {{<<As(1, Command("cd", <<W(base, <<"c">>)>>, <<>>)), As(2, v), As(3, w)>> : v, w \in Writers}
           : base \in {"rel", "unknown"}}
SelfBodies == BodiesOf(SelfLines)

\* By their names, for the sets are then computed once.
MCSelfLines == SelfLines
MCSelfBodies == SelfBodies
=============================================================================
