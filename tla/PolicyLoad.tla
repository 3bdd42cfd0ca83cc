----------------------------- MODULE PolicyLoad -----------------------------
(***************************************************************************)
(* Loading a policy (src/config, src/plugin, Engine::new): the scopes are  *)
(* looked at one after the other, lowest first; a file that is there is    *)
(* read, checked and, for the two files of the repository, stripped of an  *)
(* audit path outside it; then the layers are folded over the defaults,    *)
(* and the plugins the result names are loaded one by one.  The user, an   *)
(* editor or another agent may change any of the files between two of      *)
(* these steps.  Callers differ in what they do with a failure.            *)
(***************************************************************************)
EXTENDS PolicyFields, FiniteSets

CONSTANTS
  RuleIds,   \* rule ids
  Builtin,   \* the ids of the builtin rules
  Reserved,  \* `core` and the ids under `core.`
  Bad,       \* a file that cannot be read, parsed or compiled, or of another version
  NoPolicy,
  Starts,    \* what the disk may hold at first: [files, plugins] records
  Layers,    \* what an edit may leave in a scope
  PluginFiles,  \* what an edit may leave in a plugin file
  MaxEdits   \* bound: edits while the policy loads

File == Layer \cup {Absent, Bad}
PluginFile == Seq(RuleIds) \cup {Absent, Bad}

ASSUME BadAssumption ==
  Bad \notin Layer /\ Bad # Absent /\ Bad \notin Seq(RuleIds) /\ Absent \notin Seq(RuleIds)
ASSUME StartsAssumption ==
  /\ \A d \in Starts : d.files \in [Scopes -> File] /\ d.plugins \in [Paths -> PluginFile]
  /\ Layers \subseteq File /\ PluginFiles \subseteq PluginFile
ASSUME MaxEditsAssumption == MaxEdits \in Nat

Entry == {"hook", "try_decide", "decide", "audit"}

VARIABLES
  files,    \* files[s]: what the file of scope s holds
  plugins,  \* plugins[p]: the ids of the rules in plugin file p
  entry,    \* who loads: see Answer
  layout,   \* the scopes that have a path
  pc,       \* "probe", "read", "merge", "plugins", "ready" or "failed"
  scope,    \* the scope of the loop, or the layer of the merge
  layers,   \* layers[s]: the layer of scope s as it will be merged
  config,   \* the configuration merged so far
  next,     \* the next of config.plugins
  set,      \* PluginSet: the ids of the rules loaded
  answer,   \* what the caller got
  read,     \* history: what was read of scope s
  edited    \* history: the scopes and plugin files changed during the load

vars == <<files, plugins, entry, layout, pc, scope, layers, config, next, set,
          answer, read, edited>>
disk == <<files, plugins, edited>>

\* layout_for: no user scope without a home, no project scope outside a repository.
LayoutFor(home, repo) ==
  {System} \cup (IF home THEN {User} ELSE {}) \cup (IF repo THEN InRepo ELSE {})

\* Config::default()
NoLayers == [s \in Scopes |-> Absent]
DefaultConfig == [val |-> Default, allow |-> <<>>, plugins |-> <<>>]

Init ==
  /\ \E d \in Starts : files = d.files /\ plugins = d.plugins
  /\ entry \in Entry
  /\ \E home, repo \in BOOLEAN : layout = LayoutFor(home, repo)
  /\ pc = "probe" /\ scope = 1
  /\ layers = NoLayers /\ config = DefaultConfig
  /\ next = 1 /\ set = <<>> /\ answer = "none"
  /\ read = NoLayers /\ edited = {}

-----------------------------------------------------------------------------
\* load_with_layout.

NextScope(loop, after) ==
  IF scope = 4 THEN pc' = after /\ scope' = 1 ELSE pc' = loop /\ scope' = scope + 1

\* Nothing there, or nothing that is a regular file: the scope is passed over.
SkipScope ==
  /\ pc = "probe"
  /\ scope \notin layout \/ files[scope] = Absent
  /\ NextScope("probe", "merge")
  /\ UNCHANGED <<disk, entry, layout, layers, config, next, set, answer, read>>

FindFile ==
  /\ pc = "probe"
  /\ scope \in layout /\ files[scope] # Absent
  /\ pc' = "read"
  /\ UNCHANGED <<disk, entry, layout, scope, layers, config, next, set, answer, read>>

\* Mutant: the repository may name any audit path.
Confined_Any(s, l) == l

\* confine_project_audit_path: a path outside the repository is dropped.
Confined(s, l) ==
  IF s \in InRepo /\ l.val[AuditPath] \in Outside
  THEN [l EXCEPT !.val[AuditPath] = Unset] ELSE l

\* Mutant: a file that went away, or that does not parse, is passed over.
ReadLayer_Lenient ==
  /\ pc = "read"
  /\ IF files[scope] \in {Absent, Bad}
     THEN UNCHANGED <<layers, read>>
     ELSE /\ layers' = [layers EXCEPT ![scope] = Confined(scope, files[scope])]
          /\ read' = [read EXCEPT ![scope] = files[scope]]
  /\ NextScope("probe", "merge")
  /\ UNCHANGED <<disk, entry, layout, config, next, set, answer>>

\* yaml::load_path; the file may have gone since it was found.
ReadLayer ==
  /\ pc = "read"
  /\ files[scope] \notin {Absent, Bad}
  /\ layers' = [layers EXCEPT ![scope] = Confined(scope, files[scope])]
  /\ read' = [read EXCEPT ![scope] = files[scope]]
  /\ NextScope("probe", "merge")
  /\ UNCHANGED <<disk, entry, layout, config, next, set, answer>>

ReadFails ==
  /\ pc = "read"
  /\ files[scope] \in {Absent, Bad}
  /\ pc' = "failed"
  /\ UNCHANGED <<disk, entry, layout, scope, layers, config, next, set, answer, read>>

-----------------------------------------------------------------------------
\* merge::merge.

\* Mutant: a layer that sets one field of an override replaces all of them.
Apply_Whole(c, l) ==
  [val |-> IF \E k \in Keys : l.val[k] # Unset THEN l.val ELSE c.val,
   allow |-> c.allow \o l.allow,
   plugins |-> c.plugins \o l.plugins]

\* apply: a setting the layer has replaces the one below, lists grow.
Apply(c, l) ==
  [val |-> [k \in Keys |-> IF l.val[k] # Unset THEN l.val[k] ELSE c.val[k]],
   allow |-> c.allow \o l.allow,
   plugins |-> c.plugins \o l.plugins]

\* `ptuf audit` needs the configuration only.
Merge ==
  /\ pc = "merge"
  /\ config' = IF layers[scope] = Absent THEN config ELSE Apply(config, layers[scope])
  /\ NextScope("merge", IF entry = "audit" THEN "ready" ELSE "plugins")
  /\ UNCHANGED <<disk, entry, layout, layers, next, set, answer, read>>

-----------------------------------------------------------------------------
\* PluginSet::load_paths.

\* load_str: no reserved id, no id twice in the file.
Loadable(ids) ==
  /\ \A i \in DOMAIN ids : ids[i] \notin Reserved
  /\ \A i, j \in DOMAIN ids : ids[i] = ids[j] => i = j

\* Mutant: only the last plugin is looked at.
Collides_Builtin(ids) == \E i \in DOMAIN ids : ids[i] \in Builtin

\* try_push: an id of a builtin rule or of a plugin loaded before.
Collides(ids) ==
  \E i \in DOMAIN ids : ids[i] \in Builtin \/ \E j \in DOMAIN set : set[j] = ids[i]

CanLoad(file) == file \notin {Absent, Bad} /\ Loadable(file) /\ ~Collides(file)

LoadPlugin ==
  /\ pc = "plugins" /\ next <= Len(config.plugins)
  /\ CanLoad(plugins[config.plugins[next]])
  /\ set' = set \o plugins[config.plugins[next]]
  /\ next' = next + 1
  /\ UNCHANGED <<disk, entry, layout, pc, scope, layers, config, answer, read>>

PluginFails ==
  /\ pc = "plugins" /\ next <= Len(config.plugins)
  /\ ~CanLoad(plugins[config.plugins[next]])
  /\ pc' = "failed"
  /\ UNCHANGED <<disk, entry, layout, scope, layers, config, next, set, answer, read>>

PluginsDone ==
  /\ pc = "plugins" /\ next > Len(config.plugins)
  /\ pc' = "ready"
  /\ UNCHANGED <<disk, entry, layout, scope, layers, config, next, set, answer, read>>

-----------------------------------------------------------------------------
\* The callers: build_engine_or_fail_closed denies, try_decide and `ptuf audit`
\* report the error, decide goes on with the defaults.
OnFailure == [hook |-> "deny", try_decide |-> "error", audit |-> "error",
              decide |-> "default"]

Answer ==
  /\ pc \in {"ready", "failed"} /\ answer = "none"
  /\ answer' = IF pc = "ready" THEN "policy" ELSE OnFailure[entry]
  /\ UNCHANGED <<disk, entry, layout, pc, scope, layers, config, next, set, read>>

EditFile(s) ==
  /\ answer = "none" /\ Cardinality(edited) < MaxEdits
  /\ \E f \in Layers : files' = [files EXCEPT ![s] = f]
  /\ edited' = edited \cup {s}
  /\ UNCHANGED <<plugins, entry, layout, pc, scope, layers, config, next, set, answer, read>>

EditPlugin(p) ==
  /\ answer = "none" /\ Cardinality(edited) < MaxEdits
  /\ \E f \in PluginFiles : plugins' = [plugins EXCEPT ![p] = f]
  /\ edited' = edited \cup {p}
  /\ UNCHANGED <<files, entry, layout, pc, scope, layers, config, next, set, answer, read>>

Next ==
  \/ SkipScope \/ FindFile \/ ReadLayer \/ ReadFails
  \/ Merge \/ LoadPlugin \/ PluginFails \/ PluginsDone \/ Answer
  \/ \E s \in Scopes : EditFile(s)
  \/ \E p \in Paths : EditPlugin(p)

Spec == Init /\ [][Next]_vars

-----------------------------------------------------------------------------
TypeOK ==
  /\ files \in [Scopes -> File] /\ plugins \in [Paths -> PluginFile]
  /\ entry \in Entry /\ layout \subseteq Scopes
  /\ pc \in {"probe", "read", "merge", "plugins", "ready", "failed"}
  /\ scope \in Scopes
  /\ layers \in [Scopes -> Layer \cup {Absent}] /\ read \in [Scopes -> Layer \cup {Absent}]
  /\ config \in Policy
  /\ next \in Nat \ {0} /\ set \in Seq(RuleIds)
  /\ answer \in {"none", "policy", "deny", "error", "default"}
  /\ edited \subseteq Scopes \cup Paths

\* A rule id names one rule: overrides, allowlists, severities and hardDeny are
\* all looked up by it.
UniqueRuleIds ==
  /\ \A i, j \in DOMAIN set : set[i] = set[j] => i = j
  /\ \A i \in DOMAIN set : set[i] \notin Builtin \cup Reserved

Loaded(p) ==
  p \notin edited =>
    /\ plugins[p] \notin {Absent, Bad}
    /\ \A j \in DOMAIN plugins[p] : \E n \in DOMAIN set : set[n] = plugins[p][j]

\* An engine that answers from a policy has read every file of the layout that
\* was there all along and loaded every plugin those files enable: none is left
\* out for being broken, unreadable or in conflict.
DiskPolicyInForce ==
  (answer = "policy" /\ entry # "audit") =>
    /\ \A s \in layout \ edited : read[s] = files[s]
    /\ \A s \in layout : read[s] # Absent =>
         \A i \in DOMAIN read[s].plugins : Loaded(read[s].plugins[i])

\* The merge, done layer by layer, gives every setting the value of the highest
\* scope that sets it, and a failed load gives no policy.
Abstract == INSTANCE EffectivePolicy WITH
  status <- IF pc \in {"ready", "failed"} /\ entry # "audit" THEN pc ELSE "loading",
  policy <- IF pc = "ready" /\ entry # "audit" THEN config ELSE NoPolicy,
  rules <- IF pc = "ready" /\ entry # "audit" THEN set ELSE <<>>
ImplementsEffectivePolicy == Abstract!Spec
=============================================================================
