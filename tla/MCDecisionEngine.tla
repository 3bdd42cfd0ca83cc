-------------------------- MODULE MCDecisionEngine --------------------------
(***************************************************************************)
(* Instances of DecisionEngine for TLC.  Four rules stand for the four     *)
(* kinds of rule the repository has, in an order that puts an overridable  *)
(* rule on each side of the hardDeny one: 1 asks and is overridable (git   *)
(* rules), 2 is hardDeny (destructive-rm), 3 is locked but not hardDeny,   *)
(* 4 is a plugin rule, overridable, that may answer anything.              *)
(***************************************************************************)
EXTENDS DecisionEngine

MCHardDeny == {2}
MCOverridable == {1, 2, 4}
MCPacks == {"core", "team"}
MCPackKeys == [r \in 1..4 |-> IF r = 4 THEN {"team"} ELSE {"core"}]

NoEntries == <<>>
OneEntry == <<[rules |-> {1, 2, 3}, expires |-> 1]>>
TwoEntries == <<[rules |-> {3, 4}, expires |-> 1],
                [rules |-> {1, 2, 4}, expires |-> Never]>>
BadEntry == <<[rules |-> {1, 2, 3, 4}, expires |-> Malformed]>>

ConfigWith(modes, packs, offs, d1, d2, d3, d4, lists, incl, sinks) ==
  {[mode |-> m, packsOff |-> p, rulesOff |-> o,
    decision |-> <<a, b, c, d>>, allowlists |-> l,
    includeAllowed |-> FALSE, includeDenied |-> i, sinkActive |-> s] :
     m \in modes, p \in packs, o \in offs, a \in d1, b \in d2, c \in d3,
     d \in d4, l \in lists, i \in incl, s \in sinks}

Any == Kinds \cup {None}

\* Every mix of decision overrides, both modes.
OverrideConfigs ==
  ConfigWith(Modes, {{}}, {{}}, {None, "monitor", "deny"}, {"allow"},
             {None, "monitor", "deny"}, Any, {OneEntry}, {TRUE}, {TRUE})

\* Switched-off packs and rules against the allowlists.
FilterConfigs ==
  ConfigWith(Modes, {{}, {"core"}, {"team"}}, {{}, {1, 2, 3}, {4}},
             {None}, {"monitor"}, {None}, {None, "allow"},
             {TwoEntries, BadEntry}, {FALSE}, {TRUE})

RequestsOver(r1, r2, r3, r4, whens) ==
  {[raw |-> <<a, b, c, d>>, when |-> w] :
     a \in r1, b \in r2, c \in r3, d \in r4, w \in whens}

OverrideRequests ==
  RequestsOver({None, "ask"}, {None, "deny"}, {None, "ask", "deny"},
               {None, "monitor", "deny"}, {{}, {1}})
FilterRequests ==
  RequestsOver({None, "ask"}, {None, "deny"}, {None, "deny"},
               {"deny"}, {{}, {1}, {1, 2}})

\* Sinks on and off, denied calls recorded or not.
AuditConfigs ==
  ConfigWith(Modes, {{}}, {{}}, {None}, {None}, {None}, {None, "allow"},
             {OneEntry}, BOOLEAN, BOOLEAN)
AuditRequests ==
  RequestsOver({None, "ask"}, {None, "deny"}, {None}, {None, "deny"}, {{1}})

MCConfigs == OverrideConfigs \cup FilterConfigs \cup AuditConfigs
MCRequests == OverrideRequests \cup FilterRequests \cup AuditRequests
=============================================================================
