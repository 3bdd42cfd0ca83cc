---------------------------- MODULE PolicyFields ----------------------------
(***************************************************************************)
(* What one policy file may say, and what the four of them amount to.      *)
(*                                                                         *)
(* Every setting a file may leave out is a key of its own: a scalar such   *)
(* as `mode`, the `enabled` of a pack, or one field of one rule override.  *)
(* Allowlists and plugin references are lists.                             *)
(***************************************************************************)
EXTENDS Integers, Sequences

CONSTANTS
  Keys,       \* the settings
  AuditPath,  \* the key `audit.path`
  Values,     \* the values a setting may have
  Outside,    \* the audit paths that lie outside the repository
  Unset,      \* a setting no file mentions
  Absent,     \* a scope without a regular file
  Default,    \* Config::default()
  Entries,    \* allowlist entries
  Paths       \* plugin files

\* The scopes, in the order of Layout::ordered_paths.
System == 1
User == 2
Project == 3
ProjectLocal == 4
Scopes == 1..4
InRepo == {Project, ProjectLocal}

Setting == Values \cup {Unset}
\* A plugin reference with `enabled: false` is as good as not there.
Layer == [val : [Keys -> Setting], allow : Seq(Entries), plugins : Seq(Paths)]
Policy == Layer

ASSUME KeysAssumption == AuditPath \in Keys
ASSUME UnsetAssumption == Unset \notin Values /\ Absent \notin Layer
ASSUME DefaultAssumption == Default \in [Keys -> Setting]

-----------------------------------------------------------------------------
(***************************************************************************)
(* The reference: `read` is what was read of each scope.  A setting has    *)
(* the value of the highest scope that may set it and does; lists are      *)
(* joined, lowest scope first.                                             *)
(***************************************************************************)
Sets(read, s, k) ==
  /\ read[s] # Absent
  /\ read[s].val[k] # Unset
  /\ ~(s \in InRepo /\ k = AuditPath /\ read[s].val[k] \in Outside)

EffectiveValue(read, k) ==
  IF \E s \in Scopes : Sets(read, s, k)
  THEN LET top == CHOOSE s \in Scopes :
                    Sets(read, s, k) /\ \A u \in Scopes : Sets(read, u, k) => u <= s
       IN read[top].val[k]
  ELSE Default[k]

AllowOf(read, s) == IF read[s] = Absent THEN <<>> ELSE read[s].allow
PluginsOf(read, s) == IF read[s] = Absent THEN <<>> ELSE read[s].plugins

Effective(read) ==
  [val |-> [k \in Keys |-> EffectiveValue(read, k)],
   allow |-> AllowOf(read, 1) \o AllowOf(read, 2) \o AllowOf(read, 3) \o AllowOf(read, 4),
   plugins |-> PluginsOf(read, 1) \o PluginsOf(read, 2) \o PluginsOf(read, 3)
                 \o PluginsOf(read, 4)]
=============================================================================
