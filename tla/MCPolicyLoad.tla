---------------------------- MODULE MCPolicyLoad ----------------------------
(***************************************************************************)
(* Two fields of one rule override and the audit path, set or not in each  *)
(* of the four files; plugins that share an id, take a builtin one, or are *)
(* named by two scopes.                                                    *)
(***************************************************************************)
EXTENDS PolicyLoad, TLC

CONSTANTS enabled, decision, path, a, b, out, p1, p2, e1

MCKeys == {enabled, decision, path}
MCDefault == (enabled :> Unset @@ decision :> Unset @@ path :> Unset)
Vals(x, y, z) == (enabled :> x @@ decision :> y @@ path :> z)
L(v, al, ps) == [val |-> v, allow |-> al, plugins |-> ps]

\* Settings of a rule override in two files, an audit path outside in two.
Low == L(Vals(a, Unset, a), <<e1>>, <<>>)
High == L(Vals(Unset, b, out), <<>>, <<>>)
\* The plugins of two scopes, one of them named by both.
NameOne == L(Vals(b, Unset, out), <<>>, <<p1>>)
NameBoth == L(Vals(Unset, a, Unset), <<e1>>, <<p2>>)

FileSet(s) == {Absent} \cup CASE s = System -> {Low}
                              [] s = User -> {High, NameOne, Bad}
                              [] s = Project -> {Low, High, NameBoth}
                              [] s = ProjectLocal -> {High, NameOne}
PluginSets == {[p \in {p1, p2} |-> IF p = p1 THEN f[1] ELSE f[2]] :
                 f \in {<<<<"x">>, <<"y">>>>, <<<<"x", "y">>, <<"y">>>>, <<<<"core.x">>, <<"y">>>>,
                        <<<<"x">>, <<"y", "y">>>>, <<<<"x">>, Bad>>, <<Absent, <<"x">>>>}}
MCStarts == {[files |-> f, plugins |-> g] :
  f \in {h \in [Scopes -> UNION {FileSet(s) : s \in Scopes}] : \A s \in Scopes : h[s] \in FileSet(s)},
  g \in PluginSets}
MCLayers == {Absent, Bad, Low}
MCPluginFiles == {Absent, Bad, <<"x">>}
=============================================================================
