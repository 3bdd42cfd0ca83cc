-------------------------- MODULE PolicyLoad_proofs --------------------------
(***************************************************************************)
(* Proofs about PolicyLoad, for any settings, files, plugins and bound.    *)
(* Three layers of one inductive invariant: Reading says what the layers   *)
(* are, Folding what of them is merged, Loading what of the plugins is in  *)
(* the set.                                                                *)
(***************************************************************************)
EXTENDS PolicyLoad, SequenceTheorems, TLAPS

\* The scopes dealt with so far, and the layers merged so far.
Seen == IF pc \in {"probe", "read"} THEN scope - 1 ELSE 4
Merged == CASE pc \in {"probe", "read"} -> 0
            [] pc = "merge" -> scope - 1
            [] OTHER -> 4

Reading ==
  /\ TypeOK
  /\ \A s \in Scopes : s > Seen => read[s] = Absent
  /\ \A s \in Scopes : layers[s] = IF read[s] = Absent THEN Absent ELSE Confined(s, read[s])
  /\ pc # "failed" => \A s \in layout \ edited : s <= Seen => read[s] = files[s]

USE DEF System, User, Project, ProjectLocal, Scopes, InRepo

-----------------------------------------------------------------------------
(* Type correctness. *)

LEMMA ConfinedType ==
  ASSUME NEW s \in Scopes, NEW l \in Layer
  PROVE  Confined(s, l) \in Layer /\ Confined(s, l) # Absent
BY UnsetAssumption DEF Confined, Layer, Setting

LEMMA ApplyType ==
  ASSUME NEW c \in Policy, NEW l \in Layer
  PROVE  Apply(c, l) \in Policy
<1>1. c.allow \o l.allow \in Seq(Entries) /\ c.plugins \o l.plugins \in Seq(Paths)
    BY ConcatProperties DEF Policy, Layer
<1>2. [k \in Keys |-> IF l.val[k] # Unset THEN l.val[k] ELSE c.val[k]] \in [Keys -> Setting]
    BY DEF Policy, Layer
<1> QED
    BY <1>1, <1>2 DEF Apply, Policy, Layer

LEMMA DefaultType == DefaultConfig \in Policy
BY DefaultAssumption DEF DefaultConfig, Policy, Layer

LEMMA TypeInit == Init => TypeOK
<1> SUFFICES ASSUME Init PROVE TypeOK
    OBVIOUS
<1>1. files \in [Scopes -> File] /\ plugins \in [Paths -> PluginFile]
    BY StartsAssumption DEF Init
<1>2. layout \subseteq Scopes
    BY DEF Init, LayoutFor
<1>3. layers \in [Scopes -> Layer \cup {Absent}] /\ read \in [Scopes -> Layer \cup {Absent}]
    BY DEF Init, NoLayers
<1>4. set \in Seq(RuleIds) /\ edited \subseteq Scopes \cup Paths
    BY DEF Init
<1>5. entry \in Entry /\ pc = "probe" /\ scope = 1 /\ next = 1 /\ answer = "none"
    BY DEF Init
<1>6. config \in Policy
    BY DefaultType DEF Init
<1> QED
    BY <1>1, <1>2, <1>3, <1>4, <1>5, <1>6 DEF TypeOK

LEMMA TypeNext == TypeOK /\ [Next]_vars => TypeOK'
<1> SUFFICES ASSUME TypeOK, [Next]_vars PROVE TypeOK'
    OBVIOUS
<1> USE DEF TypeOK
<1>1. CASE SkipScope
    BY <1>1 DEF SkipScope, NextScope, disk
<1>2. CASE FindFile
    BY <1>2 DEF FindFile, disk
<1>3. CASE ReadLayer
    <2>1. files[scope] \in Layer
        BY <1>3 DEF ReadLayer, File
    <2>2. Confined(scope, files[scope]) \in Layer
        BY <2>1, ConfinedType
    <2> QED
        BY <1>3, <2>1, <2>2 DEF ReadLayer, NextScope, disk
<1>4. CASE ReadFails
    BY <1>4 DEF ReadFails, disk
<1>5. CASE Merge
    <2>1. layers[scope] # Absent => Apply(config, layers[scope]) \in Policy
        BY ApplyType
    <2> QED
        BY <1>5, <2>1 DEF Merge, NextScope, disk
<1>6. CASE LoadPlugin
    <2>1. config.plugins \in Seq(Paths)
        BY DEF Policy, Layer
    <2>2. config.plugins[next] \in Paths
        BY <1>6, <2>1 DEF LoadPlugin
    <2>3. plugins[config.plugins[next]] \in Seq(RuleIds)
        BY <1>6, <2>2 DEF LoadPlugin, CanLoad, PluginFile
    <2>4. set' \in Seq(RuleIds)
        BY <1>6, <2>3, ConcatProperties DEF LoadPlugin
    <2> QED
        BY <1>6, <2>4 DEF LoadPlugin, disk
<1>7. CASE PluginFails
    BY <1>7 DEF PluginFails, disk
<1>8. CASE PluginsDone
    BY <1>8 DEF PluginsDone, disk
<1>9. CASE Answer
    BY <1>9 DEF Answer, disk, OnFailure, Entry
<1>10. ASSUME NEW s \in Scopes, EditFile(s) PROVE TypeOK'
    BY <1>10, StartsAssumption DEF EditFile
<1>11. ASSUME NEW p \in Paths, EditPlugin(p) PROVE TypeOK'
    BY <1>11, StartsAssumption DEF EditPlugin
<1>12. CASE UNCHANGED vars
    BY <1>12 DEF vars, disk
<1> QED
    BY <1>1, <1>2, <1>3, <1>4, <1>5, <1>6, <1>7, <1>8, <1>9, <1>10, <1>11, <1>12 DEF Next

\* Every variable of PolicyLoad keeps its type.
THEOREM TypeCorrect == Spec => []TypeOK
BY TypeInit, TypeNext, PTL DEF Spec

-----------------------------------------------------------------------------
(* What has been read. *)

LEMMA ReadingInit == Init => Reading
<1> SUFFICES ASSUME Init PROVE Reading
    OBVIOUS
<1>1. TypeOK
    BY TypeInit
<1>2. pc = "probe" /\ scope = 1 /\ Seen = 0
    BY DEF Init, Seen
<1>3. \A s \in Scopes : read[s] = Absent /\ layers[s] = Absent
    BY DEF Init, NoLayers
<1> QED
    BY <1>1, <1>2, <1>3 DEF Reading, TypeOK

LEMMA SeenAdvances ==
  ASSUME scope \in Scopes, pc \in {"probe", "read"}, NextScope("probe", "merge")
  PROVE  Seen = scope - 1 /\ Seen' = scope /\ pc' \in {"probe", "merge"}
<1>1. CASE scope = 4
    BY <1>1 DEF Seen, NextScope
<1>2. CASE scope # 4
    BY <1>2 DEF Seen, NextScope
<1> QED
    BY <1>1, <1>2

LEMMA ReadingNext == Reading /\ [Next]_vars => Reading'
<1> SUFFICES ASSUME Reading, [Next]_vars PROVE Reading'
    OBVIOUS
<1>0. TypeOK /\ TypeOK'
    BY TypeNext DEF Reading
<1>1. CASE SkipScope
    <2>1. Seen = scope - 1 /\ Seen' = scope /\ pc # "failed"
        BY <1>0, <1>1, SeenAdvances DEF SkipScope, TypeOK
    <2>2. read' = read /\ layers' = layers /\ files' = files /\ edited' = edited
          /\ layout' = layout
        BY <1>1 DEF SkipScope, disk
    <2>3. scope \in Scopes /\ (scope \notin layout \/ files[scope] = Absent)
        BY <1>0, <1>1 DEF SkipScope, TypeOK
    <2>4. read[scope] = Absent
        BY <2>1, <2>3 DEF Reading
    <2>5. \A s \in Scopes : s > Seen' => read'[s] = Absent
        BY <2>1, <2>2, <2>3 DEF Reading
    <2>6. \A s \in layout \ edited : s <= Seen' => read'[s] = files[s]
        BY <1>0, <2>1, <2>2, <2>3, <2>4 DEF Reading, TypeOK
    <2> QED
        BY <1>0, <2>2, <2>5, <2>6 DEF Reading
<1>2. CASE FindFile
    <2>1. Seen' = Seen /\ pc # "failed"
        BY <1>2 DEF FindFile, Seen
    <2> QED
        BY <1>0, <1>2, <2>1 DEF Reading, FindFile, disk
<1>3. CASE ReadLayer
    <2>1. files[scope] \in Layer /\ files[scope] # Absent
        BY <1>0, <1>3 DEF ReadLayer, File, TypeOK
    <2>2. /\ read' = [read EXCEPT ![scope] = files[scope]]
          /\ layers' = [layers EXCEPT ![scope] = Confined(scope, files[scope])]
          /\ files' = files /\ edited' = edited /\ layout' = layout /\ pc = "read"
        BY <1>3 DEF ReadLayer, disk
    <2>3. Seen = scope - 1 /\ Seen' = scope /\ scope \in Scopes
        BY <1>0, <1>3, SeenAdvances DEF ReadLayer, TypeOK
    <2>t. read \in [Scopes -> Layer \cup {Absent}] /\ layers \in [Scopes -> Layer \cup {Absent}]
          /\ layout \subseteq Scopes
        BY <1>0 DEF TypeOK
    <2>4. \A s \in Scopes : s > Seen' => read'[s] = Absent
        BY <2>2, <2>3, <2>t DEF Reading
    <2>5. \A s \in Scopes : layers'[s] = IF read'[s] = Absent THEN Absent
                                                       ELSE Confined(s, read'[s])
        BY <2>1, <2>2, <2>3, <2>t DEF Reading
    <2>6. \A s \in layout \ edited : s <= Seen' => read'[s] = files[s]
        <3> SUFFICES ASSUME NEW s \in layout \ edited, s <= Seen' PROVE read'[s] = files[s]
            OBVIOUS
        <3>1. CASE s = scope
            BY <2>2, <2>3, <2>t, <3>1
        <3>2. CASE s # scope
            BY <2>2, <2>3, <2>t, <3>2 DEF Reading
        <3> QED
            BY <3>1, <3>2
    <2> QED
        BY <1>0, <2>2, <2>4, <2>5, <2>6 DEF Reading
<1>4. CASE ReadFails
    <2>1. Seen' = 4 /\ \A s \in Scopes : s > Seen => read[s] = Absent
        BY <1>4 DEF ReadFails, Seen, Reading
    <2> QED
        BY <1>0, <1>4, <2>1 DEF Reading, ReadFails, disk, TypeOK
<1>5. CASE Merge
    BY <1>0, <1>5 DEF Reading, Seen, Merge, NextScope, disk, TypeOK
<1>6. CASE LoadPlugin
    BY <1>0, <1>6 DEF Reading, Seen, LoadPlugin, disk, TypeOK
<1>7. CASE PluginFails
    BY <1>0, <1>7 DEF Reading, Seen, PluginFails, disk, TypeOK
<1>8. CASE PluginsDone
    BY <1>0, <1>8 DEF Reading, Seen, PluginsDone, disk, TypeOK
<1>9. CASE Answer
    BY <1>0, <1>9 DEF Reading, Seen, Answer, disk, TypeOK
<1>10. ASSUME NEW s \in Scopes, EditFile(s) PROVE Reading'
    BY <1>0, <1>10 DEF Reading, Seen, EditFile, TypeOK
<1>11. ASSUME NEW p \in Paths, EditPlugin(p) PROVE Reading'
    BY <1>0, <1>11 DEF Reading, Seen, EditPlugin, TypeOK
<1>12. CASE UNCHANGED vars
    BY <1>0, <1>12 DEF Reading, Seen, vars, disk, TypeOK
<1> QED
    BY <1>1, <1>2, <1>3, <1>4, <1>5, <1>6, <1>7, <1>8, <1>9, <1>10, <1>11, <1>12 DEF Next

-----------------------------------------------------------------------------
(* What has been merged. *)

\* v is the value of setting k when only the scopes 1..n are looked at.
Wins(r, n, k, v) ==
  \/ (\A s \in 1..n : ~Sets(r, s, k)) /\ v = Default[k]
  \/ \E s \in 1..n : /\ Sets(r, s, k) /\ v = r[s].val[k]
                     /\ \A u \in 1..n : Sets(r, u, k) => u <= s

\* The lists of the scopes 1..n, joined.
Joined(f, n) ==
  (IF n >= 1 THEN f[1] ELSE <<>>) \o (IF n >= 2 THEN f[2] ELSE <<>>)
    \o (IF n >= 3 THEN f[3] ELSE <<>>) \o (IF n >= 4 THEN f[4] ELSE <<>>)
AllAllow(r) == [s \in Scopes |-> AllowOf(r, s)]
AllPlugins(r) == [s \in Scopes |-> PluginsOf(r, s)]

Folded(r, n, c) ==
  /\ \A k \in Keys : Wins(r, n, k, c.val[k])
  /\ c.allow = Joined(AllAllow(r), n)
  /\ c.plugins = Joined(AllPlugins(r), n)

Folding == pc # "failed" => Folded(read, Merged, config)

\* A layer sets what its scope may set and does.
LEMMA ConfinedSets ==
  ASSUME Reading, NEW s \in Scopes, layers[s] # Absent, NEW k \in Keys
  PROVE  /\ layers[s].val[k] # Unset <=> Sets(read, s, k)
         /\ layers[s].val[k] # Unset => layers[s].val[k] = read[s].val[k]
<1>1. read[s] \in Layer /\ read[s] # Absent /\ layers[s] = Confined(s, read[s])
    BY DEF Reading, TypeOK
<1>2. Confined(s, read[s]).val
        = IF s \in InRepo /\ read[s].val[AuditPath] \in Outside
          THEN [read[s].val EXCEPT ![AuditPath] = Unset] ELSE read[s].val
    BY <1>1 DEF Confined, Layer
<1> QED
    BY <1>1, <1>2, KeysAssumption DEF Sets, Layer

LEMMA LayerLists ==
  ASSUME Reading, NEW s \in Scopes
  PROVE  /\ read[s] = Absent <=> layers[s] = Absent
         /\ layers[s] # Absent => layers[s].allow = AllowOf(read, s)
                                /\ layers[s].plugins = PluginsOf(read, s)
         /\ layers[s] = Absent => AllowOf(read, s) = <<>> /\ PluginsOf(read, s) = <<>>
         /\ AllowOf(read, s) \in Seq(Entries) /\ PluginsOf(read, s) \in Seq(Paths)
<1>1. read[s] \in Layer \cup {Absent}
    BY DEF Reading, TypeOK
<1>2. layers[s] = IF read[s] = Absent THEN Absent ELSE Confined(s, read[s])
    BY DEF Reading
<1>3. CASE read[s] = Absent
    BY <1>2, <1>3 DEF AllowOf, PluginsOf
<1>4. CASE read[s] # Absent
    <2>1. read[s] \in Layer
        BY <1>1, <1>4
    <2>2. Confined(s, read[s]) # Absent
        BY <2>1, ConfinedType
    <2>3. Confined(s, read[s]).allow = read[s].allow
          /\ Confined(s, read[s]).plugins = read[s].plugins
        BY <2>1 DEF Confined, Layer
    <2> QED
        BY <1>2, <1>4, <2>1, <2>2, <2>3 DEF AllowOf, PluginsOf, Layer
<1> QED
    BY <1>3, <1>4

\* One more scope: it wins where it sets something.
LEMMA WinsNext ==
  ASSUME NEW r, NEW n \in Scopes, NEW k, NEW v, Wins(r, n - 1, k, v)
  PROVE  /\ Sets(r, n, k) => Wins(r, n, k, r[n].val[k])
         /\ ~Sets(r, n, k) => Wins(r, n, k, v)
<1>1. \A s \in 1..n : s = n \/ s \in 1..(n - 1)
    OBVIOUS
<1>2. n \in 1..n /\ 1..(n - 1) \subseteq 1..n /\ \A u \in 1..n : u <= n
    OBVIOUS
<1>3. ASSUME Sets(r, n, k) PROVE Wins(r, n, k, r[n].val[k])
    BY <1>2, <1>3 DEF Wins
<1>4. ASSUME ~Sets(r, n, k) PROVE Wins(r, n, k, v)
    <2>1. CASE (\A s \in 1..(n - 1) : ~Sets(r, s, k)) /\ v = Default[k]
        BY <1>1, <1>4, <2>1 DEF Wins
    <2>2. CASE \E s \in 1..(n - 1) : /\ Sets(r, s, k) /\ v = r[s].val[k]
                                     /\ \A u \in 1..(n - 1) : Sets(r, u, k) => u <= s
        BY <1>1, <1>2, <1>4, <2>2 DEF Wins
    <2> QED
        BY <2>1, <2>2 DEF Wins
<1> QED
    BY <1>3, <1>4

\* One more list is joined at the end.
LEMMA JoinedNext ==
  ASSUME NEW S, NEW f \in [Scopes -> Seq(S)]
  PROVE  /\ Joined(f, 0) = <<>>
         /\ \A n \in Scopes : Joined(f, n) = Joined(f, n - 1) \o f[n]
         /\ Joined(f, 4) = f[1] \o f[2] \o f[3] \o f[4]
<1>1. f[1] \in Seq(S) /\ f[2] \in Seq(S) /\ f[3] \in Seq(S) /\ f[4] \in Seq(S)
    OBVIOUS
<1>2. f[1] \o f[2] \in Seq(S) /\ f[1] \o f[2] \o f[3] \in Seq(S)
    BY <1>1, ConcatProperties
<1>3. \A q \in Seq(S) : q \o <<>> = q /\ <<>> \o q = q
    BY ConcatEmptySeq
<1>4. <<>> \in Seq(S)
    OBVIOUS
<1>5. Joined(f, 0) = <<>> /\ Joined(f, 1) = f[1] /\ Joined(f, 2) = f[1] \o f[2]
      /\ Joined(f, 3) = f[1] \o f[2] \o f[3]
      /\ Joined(f, 4) = f[1] \o f[2] \o f[3] \o f[4]
    BY <1>1, <1>2, <1>3, <1>4 DEF Joined
<1>6. \A n \in Scopes : Joined(f, n) = Joined(f, n - 1) \o f[n]
    <2> SUFFICES ASSUME NEW n \in Scopes PROVE Joined(f, n) = Joined(f, n - 1) \o f[n]
        OBVIOUS
    <2>1. CASE n = 1
        BY <1>1, <1>3, <1>5, <2>1
    <2>2. CASE n = 2
        <3>1. Joined(f, 2) = Joined(f, 1) \o f[2]
            BY <1>5, Zenon
        <3> QED
            BY <2>2, <3>1, 2 - 1 = 1, Zenon
    <2>3. CASE n = 3
        <3>1. Joined(f, 3) = Joined(f, 2) \o f[3]
            BY <1>5, Zenon
        <3> QED
            BY <2>3, <3>1, 3 - 1 = 2, Zenon
    <2>4. CASE n = 4
        <3>1. Joined(f, 4) = Joined(f, 3) \o f[4]
            BY <1>5, Zenon
        <3> QED
            BY <2>4, <3>1, 4 - 1 = 3, Zenon
    <2>5. n = 1 \/ n = 2 \/ n = 3 \/ n = 4
        OBVIOUS
    <2> QED
        BY <2>1, <2>2, <2>3, <2>4, <2>5, Zenon
<1> QED
    BY <1>5, <1>6

LEMMA AllLists ==
  ASSUME Reading
  PROVE  AllAllow(read) \in [Scopes -> Seq(Entries)] /\ AllPlugins(read) \in [Scopes -> Seq(Paths)]
BY LayerLists DEF AllAllow, AllPlugins

LEMMA FoldingInit == Init => Folding
<1> SUFFICES ASSUME Init PROVE Folding
    OBVIOUS
<1>1. Merged = 0 /\ config = DefaultConfig
    BY DEF Init, Merged
<1>2. \A k \in Keys : Wins(read, 0, k, Default[k])
    BY DEF Wins
<1>3. Reading
    BY ReadingInit
<1>4. Joined(AllAllow(read), 0) = <<>> /\ Joined(AllPlugins(read), 0) = <<>>
    BY <1>3, AllLists, JoinedNext
<1> QED
    BY <1>1, <1>2, <1>4 DEF Folding, Folded, DefaultConfig

LEMMA MergedAdvances ==
  ASSUME TypeOK, Merge
  PROVE  /\ Merged = scope - 1 /\ Merged' = scope /\ scope \in Scopes
         /\ pc = "merge" /\ pc' \in {"merge", "plugins", "ready"}
<1>1. CASE scope = 4
    BY <1>1 DEF Merged, Merge, NextScope, TypeOK
<1>2. CASE scope # 4
    BY <1>2 DEF Merged, Merge, NextScope, TypeOK
<1> QED
    BY <1>1, <1>2

LEMMA FoldingMerge ==
  ASSUME Reading, Folding, Merge
  PROVE  Folding'
<1>0. TypeOK /\ read' = read
    BY DEF Reading, Merge
<1>1. /\ Merged = scope - 1 /\ Merged' = scope /\ scope \in Scopes
      /\ pc = "merge" /\ pc' # "failed"
    BY <1>0, MergedAdvances
<1>2. config' = IF layers[scope] = Absent THEN config ELSE Apply(config, layers[scope])
    BY DEF Merge
<1>3. Folded(read, scope - 1, config)
    BY <1>1 DEF Folding
<1>4. ASSUME NEW k \in Keys PROVE Wins(read, scope, k, config'.val[k])
    <2>1. /\ Sets(read, scope, k) => Wins(read, scope, k, read[scope].val[k])
          /\ ~Sets(read, scope, k) => Wins(read, scope, k, config.val[k])
        BY <1>1, <1>3, WinsNext DEF Folded
    <2>2. CASE layers[scope] = Absent
        <3>1. ~Sets(read, scope, k)
            BY <1>1, <2>2, LayerLists DEF Sets
        <3> QED
            BY <1>2, <2>1, <2>2, <3>1
    <2>3. CASE layers[scope] # Absent
        <3>1. config'.val[k] = IF layers[scope].val[k] # Unset THEN layers[scope].val[k]
                                                               ELSE config.val[k]
            BY <1>2, <2>3 DEF Apply
        <3>2. /\ layers[scope].val[k] # Unset <=> Sets(read, scope, k)
              /\ layers[scope].val[k] # Unset => layers[scope].val[k] = read[scope].val[k]
            BY <1>1, <2>3, ConfinedSets
        <3> QED
            BY <2>1, <3>1, <3>2
    <2> QED
        BY <2>2, <2>3
<1>5. config'.allow = config.allow \o AllowOf(read, scope)
      /\ config'.plugins = config.plugins \o PluginsOf(read, scope)
    <2>1. config.allow \in Seq(Entries) /\ config.plugins \in Seq(Paths)
        BY <1>0 DEF TypeOK, Policy, Layer
    <2>2. config.allow \o <<>> = config.allow /\ config.plugins \o <<>> = config.plugins
        BY <2>1, ConcatEmptySeq
    <2> QED
        BY <1>1, <1>2, <2>2, LayerLists DEF Apply
<1>6. /\ Joined(AllAllow(read), scope) = Joined(AllAllow(read), scope - 1) \o AllAllow(read)[scope]
      /\ Joined(AllPlugins(read), scope)
           = Joined(AllPlugins(read), scope - 1) \o AllPlugins(read)[scope]
    BY <1>1, AllLists, JoinedNext
<1>7. AllAllow(read)[scope] = AllowOf(read, scope)
      /\ AllPlugins(read)[scope] = PluginsOf(read, scope)
    BY <1>1 DEF AllAllow, AllPlugins
<1>8. Folded(read, scope, config')
    BY <1>3, <1>4, <1>5, <1>6, <1>7 DEF Folded
<1> QED
    BY <1>0, <1>1, <1>8 DEF Folding

\* A step that reads nothing, merges nothing and stays in its phase.
LEMMA FoldingKept ==
  ASSUME Folding, pc # "failed" \/ pc' = "failed", config' = config,
         pc' = "failed" \/ (Merged' = Merged /\ read' = read)
  PROVE  Folding'
<1>1. CASE pc' = "failed"
    BY <1>1 DEF Folding
<1>2. CASE pc' # "failed"
    BY <1>2 DEF Folding
<1> QED
    BY <1>1, <1>2

LEMMA FoldingNext == Reading /\ Folding /\ [Next]_vars => Folding'
<1> SUFFICES ASSUME Reading, Folding, [Next]_vars PROVE Folding'
    OBVIOUS
<1>0. TypeOK
    BY DEF Reading
<1>1. CASE SkipScope
    <2>1. CASE scope = 4
        BY <1>1, <2>1, FoldingKept DEF SkipScope, NextScope, Merged
    <2>2. CASE scope # 4
        BY <1>1, <2>2, FoldingKept DEF SkipScope, NextScope, Merged
    <2> QED
        BY <2>1, <2>2
<1>2. CASE FindFile
    BY <1>2, FoldingKept DEF FindFile, Merged
<1>3. CASE ReadLayer
    <2>1. pc = "read" /\ Merged = 0 /\ config' = config
        BY <1>3 DEF ReadLayer, Merged
    <2>2. Merged' = 0
        <3>1. CASE scope = 4
            BY <1>3, <3>1 DEF ReadLayer, NextScope, Merged
        <3>2. CASE scope # 4
            BY <1>3, <3>2 DEF ReadLayer, NextScope, Merged
        <3> QED
            BY <3>1, <3>2
    <2>3. Reading'
        BY ReadingNext
    <2>4. Folded(read, 0, config) /\ pc' # "failed"
        BY <2>1, <1>3, <2>2 DEF Folding, Merged, ReadLayer, NextScope
    <2>5. \A r, k, v : Wins(r, 0, k, v) <=> v = Default[k]
        BY DEF Wins
    <2>6. Joined(AllAllow(read'), 0) = Joined(AllAllow(read), 0)
          /\ Joined(AllPlugins(read'), 0) = Joined(AllPlugins(read), 0)
        BY DEF Joined
    <2>8. Folded(read', 0, config)
        BY <2>4, <2>5, <2>6 DEF Folded
    <2> QED
        BY <2>1, <2>2, <2>4, <2>8 DEF Folding
<1>4. CASE ReadFails
    BY <1>4, FoldingKept DEF ReadFails
<1>5. CASE Merge
    BY <1>5, FoldingMerge
<1>6. CASE LoadPlugin
    BY <1>6, FoldingKept DEF LoadPlugin, Merged
<1>7. CASE PluginFails
    BY <1>7, FoldingKept DEF PluginFails
<1>8. CASE PluginsDone
    BY <1>8, FoldingKept DEF PluginsDone, Merged
<1>9. CASE Answer
    BY <1>9, FoldingKept DEF Answer, Merged
<1>10. ASSUME NEW s \in Scopes, EditFile(s) PROVE Folding'
    BY <1>10, FoldingKept DEF EditFile, Merged
<1>11. ASSUME NEW p \in Paths, EditPlugin(p) PROVE Folding'
    BY <1>11, FoldingKept DEF EditPlugin, Merged
<1>12. CASE UNCHANGED vars
    BY <1>12, FoldingKept DEF vars, disk, Merged
<1> QED
    BY <1>1, <1>2, <1>3, <1>4, <1>5, <1>6, <1>7, <1>8, <1>9, <1>10, <1>11, <1>12 DEF Next

-----------------------------------------------------------------------------
(* What of the plugins is loaded. *)

Loading ==
  /\ UniqueRuleIds
  /\ pc \in {"probe", "read", "merge"} => next = 1 /\ set = <<>>
  /\ pc \in {"plugins", "ready"} =>
       \A i \in 1..(next - 1), p \in Paths : config.plugins[i] = p => Loaded(p)
  /\ (pc = "ready" /\ entry # "audit") => next > Len(config.plugins)
  /\ answer = "policy" => pc = "ready"

LEMMA ConcatMembers ==
  ASSUME NEW S, NEW a \in Seq(S), NEW b \in Seq(S)
  PROVE  /\ \A i \in DOMAIN a : i \in DOMAIN (a \o b) /\ (a \o b)[i] = a[i]
         /\ \A i \in DOMAIN b : /\ Len(a) + i \in DOMAIN (a \o b)
                               /\ (a \o b)[Len(a) + i] = b[i]
         /\ \A i \in DOMAIN (a \o b) :
              \/ i \in DOMAIN a /\ (a \o b)[i] = a[i]
              \/ /\ i - Len(a) \in DOMAIN b /\ i \in Int
                 /\ (a \o b)[i] = b[i - Len(a)]
<1>1. DOMAIN a = 1..Len(a) /\ DOMAIN b = 1..Len(b) /\ Len(a) \in Nat /\ Len(b) \in Nat
    OBVIOUS
<1>2. a \o b \in Seq(S) /\ Len(a \o b) = Len(a) + Len(b)
      /\ \A i \in 1..(Len(a) + Len(b)) :
           (a \o b)[i] = IF i <= Len(a) THEN a[i] ELSE b[i - Len(a)]
    BY ConcatProperties
<1>3. DOMAIN (a \o b) = 1..(Len(a) + Len(b))
    BY <1>1, <1>2
<1> QED
    BY <1>1, <1>2, <1>3

LEMMA UniqueNext ==
  ASSUME TypeOK, UniqueRuleIds, LoadPlugin
  PROVE  UniqueRuleIds'
<1> DEFINE ids == plugins[config.plugins[next]]
<1>1. set' = set \o ids /\ CanLoad(ids)
    BY DEF LoadPlugin
<1>2. config.plugins \in Seq(Paths) /\ next \in 1..Len(config.plugins)
    BY DEF TypeOK, Policy, Layer, LoadPlugin
<1>3. ids \in Seq(RuleIds) /\ set \in Seq(RuleIds)
    BY <1>1, <1>2 DEF TypeOK, CanLoad, PluginFile
<1>4. /\ \A i \in DOMAIN ids : ids[i] \notin Reserved \cup Builtin
      /\ \A i, j \in DOMAIN ids : ids[i] = ids[j] => i = j
      /\ \A i \in DOMAIN ids, j \in DOMAIN set : set[j] # ids[i]
    BY <1>1 DEF CanLoad, Loadable, Collides
<1>5. \A i \in DOMAIN set' :
        \/ i \in DOMAIN set /\ set'[i] = set[i]
        \/ i - Len(set) \in DOMAIN ids /\ i \in Int /\ set'[i] = ids[i - Len(set)]
    BY <1>1, <1>3, ConcatMembers
<1>6. ASSUME NEW i \in DOMAIN set', NEW j \in DOMAIN set', set'[i] = set'[j]
      PROVE  i = j
    <2>1. CASE i \in DOMAIN set /\ set'[i] = set[i] /\ j \in DOMAIN set /\ set'[j] = set[j]
        BY <1>6, <2>1 DEF UniqueRuleIds
    <2>2. CASE /\ i - Len(set) \in DOMAIN ids /\ i \in Int /\ set'[i] = ids[i - Len(set)]
               /\ j - Len(set) \in DOMAIN ids /\ j \in Int /\ set'[j] = ids[j - Len(set)]
        <3>1. i - Len(set) = j - Len(set)
            BY <1>4, <1>6, <2>2
        <3> QED
            BY <1>3, <2>2, <3>1
    <2> QED
        BY <1>4, <1>5, <1>6, <2>1, <2>2
<1>7. \A i \in DOMAIN set' : set'[i] \notin Builtin \cup Reserved
    BY <1>4, <1>5 DEF UniqueRuleIds
<1> QED
    BY <1>6, <1>7 DEF UniqueRuleIds

LEMMA LoadingInit == Init => Loading
BY DEF Init, Loading, UniqueRuleIds

LEMMA LoadingNext == TypeOK /\ Loading /\ [Next]_vars => Loading'
<1> SUFFICES ASSUME TypeOK, Loading, [Next]_vars PROVE Loading'
    OBVIOUS
<1>0. next \in Nat \ {0} /\ set \in Seq(RuleIds) /\ entry \in Entry
    BY DEF TypeOK
<1>1. CASE SkipScope
    BY <1>1 DEF SkipScope, NextScope, disk, Loading, UniqueRuleIds
<1>2. CASE FindFile
    BY <1>2 DEF FindFile, disk, Loading, UniqueRuleIds
<1>3. CASE ReadLayer
    BY <1>3 DEF ReadLayer, NextScope, disk, Loading, UniqueRuleIds
<1>4. CASE ReadFails
    BY <1>4 DEF ReadFails, disk, Loading, UniqueRuleIds
<1>5. CASE Merge
    <2>1. next = 1 /\ next' = 1 /\ set' = set /\ entry' = entry /\ answer' = answer /\ pc = "merge"
        BY <1>5 DEF Merge, Loading
    <2>2. pc' \in {"merge", "plugins"} \/ (pc' = "ready" /\ entry = "audit")
        BY <1>5 DEF Merge, NextScope
    <2> QED
        BY <1>5, <2>1, <2>2 DEF Loading, UniqueRuleIds
<1>6. CASE LoadPlugin
    <2>1. /\ next' = next + 1 /\ pc = "plugins" /\ pc' = pc /\ config' = config
          /\ plugins' = plugins /\ edited' = edited /\ answer' = answer
          /\ next \in 1..Len(config.plugins)
        BY <1>0, <1>6 DEF LoadPlugin, disk
    <2>2. config.plugins \in Seq(Paths)
        BY DEF TypeOK, Policy, Layer
    <2>3. PICK q \in Paths : q = config.plugins[next]
        BY <2>1, <2>2
    <2>4. set' = set \o plugins[q] /\ CanLoad(plugins[q])
        BY <1>6, <2>3 DEF LoadPlugin
    <2>5. plugins[q] \in Seq(RuleIds) /\ plugins[q] \notin {Absent, Bad}
        BY <2>4 DEF TypeOK, CanLoad, PluginFile
    <2>6. UniqueRuleIds'
        BY <1>6, UniqueNext DEF Loading
    <2>7. /\ \A n \in DOMAIN set : n \in DOMAIN set' /\ set'[n] = set[n]
          /\ \A n \in DOMAIN plugins[q] : /\ Len(set) + n \in DOMAIN set'
                                         /\ set'[Len(set) + n] = plugins[q][n]
        BY <1>0, <2>4, <2>5, ConcatMembers
    <2>8. Loaded(q)'
        BY <2>1, <2>5, <2>7 DEF Loaded
    <2>9. ASSUME NEW i \in 1..(next' - 1), NEW p \in Paths, config'.plugins[i] = p
          PROVE  Loaded(p)'
        <3>1. CASE i = next
            BY <2>1, <2>3, <2>8, <2>9, <3>1
        <3>2. CASE i # next
            <4>1. Loaded(p)
                BY <1>0, <2>1, <2>9, <3>2 DEF Loading
            <4> QED
                BY <2>1, <2>7, <4>1 DEF Loaded
        <3> QED
            BY <3>1, <3>2
    <2> QED
        BY <2>1, <2>6, <2>9 DEF Loading
<1>7. CASE PluginFails
    BY <1>7 DEF PluginFails, disk, Loading, UniqueRuleIds
<1>8. CASE PluginsDone
    BY <1>8 DEF PluginsDone, disk, Loading, UniqueRuleIds, Loaded
<1>9. CASE Answer
    <2>1. answer' = "policy" => pc = "ready"
        <3>1. OnFailure[entry] # "policy"
            BY <1>0 DEF OnFailure, Entry
        <3> QED
            BY <1>9, <3>1 DEF Answer
    <2>2. UNCHANGED <<pc, next, set, config, entry, plugins, edited>>
        BY <1>9 DEF Answer, disk
    <2> QED
        BY <2>1, <2>2 DEF Loading, UniqueRuleIds, Loaded
<1>10. ASSUME NEW s \in Scopes, EditFile(s) PROVE Loading'
    BY <1>10 DEF EditFile, Loading, UniqueRuleIds, Loaded
<1>11. ASSUME NEW p \in Paths, EditPlugin(p) PROVE Loading'
    <2>1. UNCHANGED <<pc, next, set, config, entry, answer>>
        BY <1>11 DEF EditPlugin
    <2>2. \A q \in Paths : q \notin edited' => q \notin edited /\ plugins'[q] = plugins[q]
        BY <1>11 DEF EditPlugin, TypeOK
    <2>3. \A q \in Paths : Loaded(q) => Loaded(q)'
        BY <2>1, <2>2 DEF Loaded
    <2> QED
        BY <2>1, <2>3 DEF Loading, UniqueRuleIds
<1>12. CASE UNCHANGED vars
    BY <1>12 DEF vars, disk, Loading, UniqueRuleIds, Loaded
<1> QED
    BY <1>1, <1>2, <1>3, <1>4, <1>5, <1>6, <1>7, <1>8, <1>9, <1>10, <1>11, <1>12 DEF Next

-----------------------------------------------------------------------------
(* The theorems. *)

LoadInv == Reading /\ Folding /\ Loading

LEMMA LoadInvariant == Spec => []LoadInv
<1>1. Init => LoadInv
    BY ReadingInit, FoldingInit, LoadingInit DEF LoadInv
<1>2. LoadInv /\ [Next]_vars => LoadInv'
    <2>1. Reading => TypeOK
        BY DEF Reading
    <2> QED
        BY <2>1, ReadingNext, FoldingNext, LoadingNext DEF LoadInv
<1> QED
    BY <1>1, <1>2, PTL DEF Spec

\* No id is taken twice, and none is a builtin's or reserved, whatever the files
\* hold and however they change while they are loaded.
THEOREM RuleIdsUnique == Spec => []UniqueRuleIds
<1>1. LoadInv => UniqueRuleIds
    BY DEF LoadInv, Loading
<1> QED
    BY <1>1, LoadInvariant, PTL

\* The members of joined lists are the members of each.
Holds(q, v) == \E n \in DOMAIN q : q[n] = v

LEMMA ConcatHolds ==
  ASSUME NEW S, NEW a \in Seq(S), NEW b \in Seq(S), NEW v, Holds(a, v) \/ Holds(b, v)
  PROVE  Holds(a \o b, v)
<1>1. CASE Holds(a, v)
    <2>1. PICK n \in DOMAIN a : a[n] = v
        BY <1>1 DEF Holds
    <2>2. n \in DOMAIN (a \o b) /\ (a \o b)[n] = v
        BY <2>1, ConcatMembers
    <2> QED
        BY <2>2 DEF Holds
<1>2. CASE Holds(b, v)
    <2>1. PICK n \in DOMAIN b : b[n] = v
        BY <1>2 DEF Holds
    <2>2. Len(a) + n \in DOMAIN (a \o b) /\ (a \o b)[Len(a) + n] = v
        BY <2>1, ConcatMembers
    <2> QED
        BY <2>2 DEF Holds
<1> QED
    BY <1>1, <1>2

LEMMA JoinedMembers ==
  ASSUME NEW S, NEW f \in [Scopes -> Seq(S)], NEW s \in Scopes, NEW v, Holds(f[s], v)
  PROVE  Holds(Joined(f, 4), v)
<1>1. f[1] \in Seq(S) /\ f[2] \in Seq(S) /\ f[3] \in Seq(S) /\ f[4] \in Seq(S)
    OBVIOUS
<1>2. f[1] \o f[2] \in Seq(S) /\ f[1] \o f[2] \o f[3] \in Seq(S)
    BY <1>1, ConcatProperties
<1>3. Joined(f, 4) = f[1] \o f[2] \o f[3] \o f[4]
    BY JoinedNext
<1>4. s = 1 \/ s = 2 \/ s = 3 \/ s = 4
    OBVIOUS
<1>5. s = 1 \/ s = 2 => Holds(f[1] \o f[2], v)
    BY <1>1, ConcatHolds
<1>6. s # 4 => Holds(f[1] \o f[2] \o f[3], v)
    <2>1. f[1] \o f[2] \in Seq(S) /\ f[3] \in Seq(S)
        BY <1>1, <1>2
    <2>2. Holds(f[1] \o f[2], v) \/ Holds(f[3], v) => Holds(f[1] \o f[2] \o f[3], v)
        BY <2>1, ConcatHolds, Zenon
    <2> QED
        BY <1>4, <1>5, <2>2
<1>7. Holds(f[1] \o f[2] \o f[3] \o f[4], v)
    <2>1. f[1] \o f[2] \o f[3] \in Seq(S) /\ f[4] \in Seq(S)
        BY <1>1, <1>2
    <2>2. Holds(f[1] \o f[2] \o f[3], v) \/ Holds(f[4], v)
            => Holds(f[1] \o f[2] \o f[3] \o f[4], v)
        BY <2>1, ConcatHolds, Zenon
    <2> QED
        BY <1>4, <1>6, <2>2
<1> QED
    BY <1>3, <1>7

LEMMA FoldedWhole ==
  ASSUME LoadInv, pc \in {"plugins", "ready"}
  PROVE  /\ \A k \in Keys : Wins(read, 4, k, config.val[k])
         /\ config.allow = Joined(AllAllow(read), 4)
         /\ config.plugins = Joined(AllPlugins(read), 4)
BY DEF LoadInv, Folding, Folded, Merged

LEMMA LoadedMeansInForce == LoadInv => DiskPolicyInForce
<1> SUFFICES ASSUME LoadInv, answer = "policy", entry # "audit"
             PROVE  /\ \A s \in layout \ edited : read[s] = files[s]
                    /\ \A s \in layout : read[s] # Absent =>
                         \A i \in DOMAIN read[s].plugins : Loaded(read[s].plugins[i])
    BY DEF DiskPolicyInForce
<1>1. pc = "ready" /\ next > Len(config.plugins) /\ Reading /\ TypeOK
    BY DEF LoadInv, Loading, Reading
<1>2. ASSUME NEW s \in layout \ edited PROVE read[s] = files[s]
    <2>1. s \in Scopes /\ s <= Seen
        BY <1>1 DEF TypeOK, Seen
    <2> QED
        BY <1>1, <2>1 DEF Reading
<1>3. ASSUME NEW s \in layout, read[s] # Absent, NEW i \in DOMAIN read[s].plugins
      PROVE  Loaded(read[s].plugins[i])
    <2>1. s \in Scopes /\ read[s] \in Layer
        BY <1>1, <1>3 DEF TypeOK
    <2>2. AllPlugins(read)[s] = read[s].plugins
        BY <1>3, <2>1 DEF AllPlugins, PluginsOf
    <2>3. AllPlugins(read) \in [Scopes -> Seq(Paths)]
        BY <1>1, AllLists
    <2>4. config.plugins = Joined(AllPlugins(read), 4)
        BY <1>1, FoldedWhole
    <2>5. Holds(AllPlugins(read)[s], read[s].plugins[i])
        BY <1>3, <2>2 DEF Holds
    <2>6. Holds(config.plugins, read[s].plugins[i])
        BY <2>1, <2>5, <2>3, <2>4, JoinedMembers
    <2>7. \E n \in DOMAIN config.plugins : config.plugins[n] = read[s].plugins[i]
        BY <2>6 DEF Holds
    <2>8. config.plugins \in Seq(Paths) /\ next \in Nat
        BY <1>1 DEF TypeOK, Policy, Layer
    <2>9. \A n \in DOMAIN config.plugins : n \in 1..(next - 1) /\ config.plugins[n] \in Paths
        BY <1>1, <2>8
    <2> QED
        BY <1>1, <2>7, <2>9 DEF LoadInv, Loading
<1> QED
    BY <1>2, <1>3

\* An engine that answers from a policy has read all the files it should and
\* loaded all the plugins they enable.
THEOREM DiskInForce == Spec => []DiskPolicyInForce
BY LoadInvariant, LoadedMeansInForce, PTL

\* The setting that wins among all scopes is the effective one.
LEMMA WinnerIsEffective ==
  ASSUME NEW r, NEW k, NEW v, Wins(r, 4, k, v)
  PROVE  v = EffectiveValue(r, k)
<1>1. CASE (\A s \in Scopes : ~Sets(r, s, k)) /\ v = Default[k]
    BY <1>1 DEF EffectiveValue
<1>2. CASE \E s \in Scopes : /\ Sets(r, s, k) /\ v = r[s].val[k]
                            /\ \A u \in Scopes : Sets(r, u, k) => u <= s
    <2>1. PICK s \in Scopes : /\ Sets(r, s, k) /\ v = r[s].val[k]
                             /\ \A u \in Scopes : Sets(r, u, k) => u <= s
        BY <1>2
    <2> DEFINE Top(t) == Sets(r, t, k) /\ \A u \in Scopes : Sets(r, u, k) => u <= t
               top == CHOOSE t \in Scopes : Top(t)
    <2>2. top \in Scopes /\ Top(top)
        BY <2>1
    <2>3. top = s
        BY <2>1, <2>2
    <2>4. EffectiveValue(r, k) = r[top].val[k]
        BY <2>1 DEF EffectiveValue
    <2> QED
        BY <2>1, <2>3, <2>4
<1> QED
    BY <1>1, <1>2 DEF Wins

LEMMA EffectiveReached ==
  ASSUME LoadInv, pc \in {"plugins", "ready"}
  PROVE  config = Effective(read)
<1>1. Reading /\ TypeOK
    BY DEF LoadInv, Reading
<1>2. config.val \in [Keys -> Setting]
      /\ config = [val |-> config.val, allow |-> config.allow, plugins |-> config.plugins]
    BY <1>1 DEF TypeOK, Policy, Layer
<1>3. \A k \in Keys : config.val[k] = EffectiveValue(read, k)
    BY FoldedWhole, WinnerIsEffective
<1>4. config.val = [k \in Keys |-> EffectiveValue(read, k)]
    BY <1>2, <1>3
<1>5. AllAllow(read) \in [Scopes -> Seq(Entries)] /\ AllPlugins(read) \in [Scopes -> Seq(Paths)]
    BY <1>1, AllLists
<1>6. config.allow = AllowOf(read, 1) \o AllowOf(read, 2) \o AllowOf(read, 3) \o AllowOf(read, 4)
    <2>1. config.allow = AllAllow(read)[1] \o AllAllow(read)[2] \o AllAllow(read)[3]
                           \o AllAllow(read)[4]
        BY <1>5, FoldedWhole, JoinedNext
    <2> QED
        BY <2>1 DEF AllAllow
<1>7. config.plugins = PluginsOf(read, 1) \o PluginsOf(read, 2) \o PluginsOf(read, 3)
                         \o PluginsOf(read, 4)
    <2>1. config.plugins = AllPlugins(read)[1] \o AllPlugins(read)[2] \o AllPlugins(read)[3]
                             \o AllPlugins(read)[4]
        BY <1>5, FoldedWhole, JoinedNext
    <2> QED
        BY <2>1 DEF AllPlugins
<1> QED
    BY <1>2, <1>4, <1>6, <1>7 DEF Effective

LEMMA AbstractInit == Init => Abstract!Init
BY DEF Init, Abstract!Init, NoLayers, Abstract!Scopes

\* Every step reads one scope, ends the load with the effective policy, fails it
\* or is invisible.
LEMMA AbstractNext ==
  ASSUME LoadInv, [Next]_vars
  PROVE  [Abstract!Next]_(Abstract!vars)
<1>0. TypeOK /\ Reading
    BY DEF LoadInv, Reading
<1> USE DEF Abstract!vars
<1>1. CASE SkipScope
    <2>1. pc = "probe" /\ pc' \in {"probe", "merge"} /\ UNCHANGED <<read, entry, config, set>>
        BY <1>1 DEF SkipScope, NextScope
    <2> QED
        BY <2>1
<1>2. CASE FindFile
    BY <1>2 DEF FindFile
<1>3. CASE ReadLayer
    <2>1. /\ pc = "read" /\ pc' \in {"probe", "merge"} /\ UNCHANGED <<entry, config, set>>
          /\ read' = [read EXCEPT ![scope] = files[scope]]
        BY <1>3 DEF ReadLayer, NextScope
    <2>2. scope \in Scopes /\ files[scope] \in Layer /\ read \in [Scopes -> Layer \cup {Absent}]
        BY <1>0, <1>3 DEF ReadLayer, TypeOK, File
    <2>3. read[scope] = Absent
        BY <1>0, <2>1, <2>2 DEF Reading, Seen
    <2>4. Layer = Abstract!Layer
        BY DEF Layer, Abstract!Layer, Setting, Abstract!Setting
    <2>5. read'[scope] = files[scope]
        BY <2>1, <2>2
    <2>6. Abstract!Read(scope)
        BY <2>1, <2>2, <2>3, <2>4, <2>5 DEF Abstract!Read
    <2> QED
        BY <2>2, <2>6 DEF Abstract!Next, Abstract!Scopes
<1>4. CASE ReadFails
    <2>1. pc = "read" /\ pc' = "failed" /\ UNCHANGED <<read, entry, config, set>>
        BY <1>4 DEF ReadFails
    <2>2. CASE entry = "audit"
        BY <2>1, <2>2
    <2>3. CASE entry # "audit"
        BY <2>1, <2>3 DEF Abstract!Next, Abstract!Fail
    <2> QED
        BY <2>2, <2>3
<1>5. CASE Merge
    <2>1. /\ pc = "merge" /\ (pc' \in {"merge", "plugins"} \/ (pc' = "ready" /\ entry = "audit"))
          /\ UNCHANGED <<read, entry, set>>
        BY <1>5 DEF Merge, NextScope
    <2> QED
        BY <2>1
<1>6. CASE LoadPlugin
    BY <1>6 DEF LoadPlugin
<1>7. CASE PluginFails
    <2>1. pc = "plugins" /\ pc' = "failed" /\ UNCHANGED <<read, entry, config, set>>
        BY <1>7 DEF PluginFails
    <2>2. CASE entry = "audit"
        BY <2>1, <2>2
    <2>3. CASE entry # "audit"
        BY <2>1, <2>3 DEF Abstract!Next, Abstract!Fail
    <2> QED
        BY <2>2, <2>3
<1>8. CASE PluginsDone
    <2>1. pc = "plugins" /\ pc' = "ready" /\ UNCHANGED <<read, entry, config, set>>
        BY <1>8 DEF PluginsDone
    <2>2. CASE entry = "audit"
        BY <2>1, <2>2
    <2>3. CASE entry # "audit"
        <3>1. config = Effective(read)
            BY <2>1, EffectiveReached
        <3>2. Effective(read) = Abstract!Effective(read)
            BY DEF Effective, Abstract!Effective, EffectiveValue, Abstract!EffectiveValue,
                   Sets, Abstract!Sets, AllowOf, Abstract!AllowOf, PluginsOf, Abstract!PluginsOf,
                   Abstract!Scopes, Abstract!InRepo, Abstract!Project, Abstract!ProjectLocal
        <3>3. set \in Seq(RuleIds) /\ Abstract!Distinct(set)
            BY <1>0 DEF TypeOK, LoadInv, Loading, UniqueRuleIds, Abstract!Distinct
        <3>4. Abstract!Ready
            BY <2>1, <2>3, <3>1, <3>2, <3>3 DEF Abstract!Ready, Abstract!Distinct
        <3> QED
            BY <3>4 DEF Abstract!Next
    <2> QED
        BY <2>2, <2>3
<1>9. CASE Answer
    BY <1>9 DEF Answer
<1>10. ASSUME NEW s \in Scopes, EditFile(s) PROVE [Abstract!Next]_(Abstract!vars)
    BY <1>10 DEF EditFile
<1>11. ASSUME NEW p \in Paths, EditPlugin(p) PROVE [Abstract!Next]_(Abstract!vars)
    BY <1>11 DEF EditPlugin
<1>12. CASE UNCHANGED vars
    BY <1>12 DEF vars
<1> QED
    BY <1>1, <1>2, <1>3, <1>4, <1>5, <1>6, <1>7, <1>8, <1>9, <1>10, <1>11, <1>12 DEF Next

\* Loading keeps the promise of EffectivePolicy: a policy in force is the
\* effective policy of what was read, and a failed load leaves none.
THEOREM LoadRefines == Spec => ImplementsEffectivePolicy
<1>1. LoadInv /\ [Next]_vars => [Abstract!Next]_(Abstract!vars)
    BY AbstractNext
<1> QED
    BY <1>1, AbstractInit, LoadInvariant, PTL DEF Spec, ImplementsEffectivePolicy, Abstract!Spec
=============================================================================
