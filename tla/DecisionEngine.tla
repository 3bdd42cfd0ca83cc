--------------------------- MODULE DecisionEngine ---------------------------
(***************************************************************************)
(* One `Engine` and the `decide` calls made on it (src/engine/mod.rs):     *)
(* every rule, builtin first and plugin rules after, is evaluated in       *)
(* order; pack and rule overrides, then the allowlists, filter what a rule *)
(* returned; the survivors are demoted for the mode and aggregated; the    *)
(* outcome goes to the audit sink.  The wall clock is read once, before    *)
(* the loop, and moves while the loop runs.                                *)
(*                                                                         *)
(* A rule is its position in the evaluation order; what it returned is     *)
(* part of the request (`raw`), since the facts and the rule bodies are    *)
(* data here.                                                              *)
(***************************************************************************)
EXTENDS Integers, Sequences, FiniteSetsExt, Decision

CONSTANTS
  NRules,        \* number of rules, evaluated in the order 1..NRules
  HardDeny,      \* rules with `hard_deny()`
  Overridable,   \* rules with `overridable()`
  Packs,         \* keys of `config.pack_overrides`
  PackKeys,      \* PackKeys[r]: the id of r and its dot prefixes, as keys
  Configs,       \* the merged configurations an engine may be built with
  Requests,      \* the requests `decide` may be called with
  MaxTime,       \* bound: the clock stays in 0..MaxTime
  MaxCalls       \* bound: number of `decide` calls

Rules == 1..NRules

Modes == {"enforce", "monitor"}
Never == -1        \* no `expiresAt`
Malformed == -2    \* an `expiresAt` that is not RFC 3339

Entry == [rules : SUBSET Rules, expires : {Never, Malformed} \cup (0..MaxTime)]
Config == [mode : Modes,
           packsOff : SUBSET Packs,
           rulesOff : SUBSET Rules,
           decision : [Rules -> Kinds \cup {None}],
           allowlists : Seq(Entry),
           includeAllowed : BOOLEAN,
           includeDenied : BOOLEAN,
           sinkActive : BOOLEAN]
\* raw[r]: what rule r returns; when: allowlist entries whose `when` holds.
Request == [raw : [Rules -> {None, "monitor", "ask", "deny"}], when : SUBSET Nat]

ASSUME NRulesAssumption == NRules \in Nat
ASSUME RuleSetsAssumption == HardDeny \subseteq Rules /\ Overridable \subseteq Rules
ASSUME PackKeysAssumption == PackKeys \in [Rules -> SUBSET Packs]
ASSUME BoundsAssumption == MaxTime \in Nat /\ MaxCalls \in Nat
\* Membership is said by component so that TLC can evaluate it.
ASSUME ConfigsAssumption ==
  \A c \in Configs :
    /\ c.mode \in Modes
    /\ c.packsOff \subseteq Packs
    /\ c.rulesOff \subseteq Rules
    /\ c.decision \in [Rules -> Kinds \cup {None}]
    /\ \A i \in DOMAIN c.allowlists : c.allowlists[i] \in Entry
    /\ DOMAIN c.allowlists = 1..Len(c.allowlists) /\ Len(c.allowlists) \in Nat
    /\ c.includeAllowed \in BOOLEAN /\ c.includeDenied \in BOOLEAN
    /\ c.sinkActive \in BOOLEAN
ASSUME RequestsAssumption ==
  \A q \in Requests :
    /\ q.raw \in [Rules -> {None, "monitor", "ask", "deny"}]
    /\ q.when \subseteq Nat

-----------------------------------------------------------------------------
\* engine/filter.rs: what configuration may do to one rule.

is_overridable(r) == r \in Overridable /\ r \notin HardDeny

is_pack_disabled(r, c) ==
  /\ is_overridable(r)
  /\ PackKeys[r] \cap c.packsOff # {}

\* Mutant: any override applies.
override_allowed_Always(r, from, to) == TRUE

override_allowed(r, from, to) == is_overridable(r) \/ AtLeast(to, from)

\* The kind after `rules.<id>`, or None when the override drops the decision.
apply_rule_override(r, raw, c) ==
  LET to == c.decision[r]
  IN  IF r \in c.rulesOff /\ is_overridable(r) THEN None
      ELSE IF to # None /\ override_allowed(r, raw, to) THEN to
      ELSE raw

\* Mutant: an entry lives through the second it expires in.
allowlist_covers_PastExpiry(c, q, i, r, t) ==
  LET e == c.allowlists[i]
  IN  /\ r \in e.rules
      /\ e.expires = Never \/ (e.expires # Malformed /\ t <= e.expires)
      /\ i \in q.when

\* Is entry i, as configured, still in force for rule r at time t?
allowlist_covers(c, q, i, r, t) ==
  LET e == c.allowlists[i]
  IN  /\ r \in e.rules
      /\ e.expires = Never \/ (e.expires # Malformed /\ t < e.expires)
      /\ i \in q.when

\* Indices of the entries that may suppress decision kind k of rule r; the
\* code takes the first.
covering(c, q, r, k, t) ==
  IF r \in HardDeny \/ k = "allow" THEN {}
  ELSE {i \in 1..Len(c.allowlists) : allowlist_covers(c, q, i, r, t)}

allowlist_hit_for(c, q, r, k, t) == Min(covering(c, q, r, k, t))

\* Mutant: monitor mode demotes hardDeny rules too.
demote_for_mode_All(r, k, mode) ==
  IF mode = "monitor" /\ k = "deny" THEN "monitor" ELSE k

demote_for_mode(r, k, mode) ==
  IF mode = "monitor" /\ k = "deny" /\ r \notin HardDeny THEN "monitor" ELSE k

\* Mutant: no floor.
demote_with_floor_Missing(r, k, raw, mode) == demote_for_mode(r, k, mode)

\* The floor: a deny the mode just demoted falls back to the `ask` the rule
\* itself returned.
demote_with_floor(r, k, raw, mode) ==
  LET demoted == demote_for_mode(r, k, mode)
  IN  IF k = "deny" /\ demoted = "monitor" /\ raw = "ask" THEN raw ELSE demoted

-----------------------------------------------------------------------------
\* decision.rs: the strictest kind wins; among equals the last.

HasKind(ds, k) == \E d \in ds : d.kind = k
StrictestKind(ds) ==
  IF HasKind(ds, "deny") THEN "deny"
  ELSE IF HasKind(ds, "ask") THEN "ask"
  ELSE IF HasKind(ds, "monitor") THEN "monitor"
  ELSE "allow"

\* Rule that a decision of kind k names; `Allow` carries no rule.
NamedRule(ds, k) ==
  IF k = "allow" THEN None ELSE Max({d.rule : d \in {e \in ds : e.kind = k}})

-----------------------------------------------------------------------------
VARIABLES
  config,     \* the engine's merged configuration; fixed once built
  clock,      \* wall clock
  pc,         \* "idle", or "eval" while a call is in its loop
  calls,      \* number of calls made
  request,    \* the request of the last call
  now,        \* the time that call read
  next,       \* next rule of its loop
  fired,      \* `decisions`: [rule, kind, raw] of every survivor so far
  hits,       \* `allowlist_hits`: [rule, entry] of every suppression so far
  outcome,    \* what the last finished call returned
  records,    \* audit records written: the outcomes
  warnings    \* `audit_write_warnings`, as a count

vars == <<config, clock, pc, calls, request, now, next, fired, hits, outcome,
          records, warnings>>

NoOutcome == [kind |-> None]
NoRequest == [raw |-> [r \in Rules |-> None], when |-> {}]

Init ==
  /\ config \in Configs
  /\ clock \in 0..MaxTime
  /\ pc = "idle"
  /\ calls = 0
  /\ request = NoRequest
  /\ now = clock
  /\ next = 1
  /\ fired = {}
  /\ hits = {}
  /\ outcome = NoOutcome
  /\ records = <<>>
  /\ warnings = 0

\* Another process of the host: time passes.
Tick ==
  /\ clock < MaxTime
  /\ clock' = clock + 1
  /\ UNCHANGED <<config, pc, calls, request, now, next, fired, hits, outcome,
                 records, warnings>>

\* `decide` extracts the facts and reads the clock once.
BeginDecide(q) ==
  /\ pc = "idle"
  /\ calls < MaxCalls
  /\ pc' = "eval"
  /\ calls' = calls + 1
  /\ request' = q
  /\ now' = clock
  /\ next' = 1
  /\ fired' = {}
  /\ hits' = {}
  /\ outcome' = NoOutcome
  /\ UNCHANGED <<config, clock, records, warnings>>

\* Mutant: every rule reads the clock itself.
RuleStep_ReReadsClock(r) ==
  LET raw == request.raw[r]
      k == apply_rule_override(r, raw, config)
      skipped == is_pack_disabled(r, config) \/ raw = None \/ k = None
      cover == covering(config, request, r, k, clock)
  IN  IF skipped THEN UNCHANGED <<fired, hits>>
      ELSE IF cover # {}
           THEN /\ hits' = hits \cup {[rule |-> r, entry |-> Min(cover)]}
                /\ UNCHANGED fired
           ELSE /\ fired' = fired \cup {[rule |-> r, kind |-> k, raw |-> raw]}
                /\ UNCHANGED hits

\* One iteration of the two rule loops.
RuleStep(r) ==
  LET raw == request.raw[r]
      k == apply_rule_override(r, raw, config)
      skipped == is_pack_disabled(r, config) \/ raw = None \/ k = None
      cover == covering(config, request, r, k, now)
  IN  IF skipped THEN UNCHANGED <<fired, hits>>
      ELSE IF cover # {}
           THEN /\ hits' = hits \cup {[rule |-> r, entry |-> Min(cover)]}
                /\ UNCHANGED fired
           ELSE /\ fired' = fired \cup {[rule |-> r, kind |-> k, raw |-> raw]}
                /\ UNCHANGED hits

EvaluateRule ==
  /\ pc = "eval"
  /\ next \in Rules
  /\ RuleStep(next)
  /\ next' = next + 1
  /\ UNCHANGED <<config, clock, pc, calls, request, now, outcome, records,
                 warnings>>

\* What each survivor says once the mode is applied.
Demoted(ds, mode) ==
  {[rule |-> d.rule, kind |-> demote_with_floor(d.rule, d.kind, d.raw, mode)]
     : d \in ds}

\* The Outcome built from what the loop collected.
OutcomeOf(ds, hs, mode) ==
  LET kind == StrictestKind(Demoted(ds, mode))
      first == Min({h.rule : h \in hs})
  IN  [kind |-> kind,
       rule |-> NamedRule(Demoted(ds, mode), kind),
       mode_demoted |-> HasKind(ds, "deny") /\ kind # "deny",
       allowlist_id |-> IF kind = "allow" /\ hs # {}
                        THEN (CHOOSE h \in hs : h.rule = first).entry ELSE 0,
       allowlist_ids |-> {h.entry : h \in hs}]

\* `record_audit`: eligible outcomes are written, or leave a write warning.
RecordAudit(o) ==
  IF ~config.sinkActive
     \/ (~should_record(o.kind, config) /\ o.allowlist_ids = {})
  THEN UNCHANGED <<records, warnings>>
  ELSE \/ records' = Append(records, o) /\ UNCHANGED warnings
       \/ warnings' = warnings + 1 /\ UNCHANGED records

Finish ==
  /\ pc = "eval"
  /\ next = NRules + 1
  /\ pc' = "idle"
  /\ outcome' = OutcomeOf(fired, hits, config.mode)
  /\ RecordAudit(outcome')
  /\ UNCHANGED <<config, clock, calls, request, now, next, fired, hits>>

DrainAuditWriteWarnings ==
  /\ pc = "idle"
  /\ warnings > 0
  /\ warnings' = 0
  /\ UNCHANGED <<config, clock, pc, calls, request, now, next, fired, hits,
                 outcome, records>>

Next ==
  \/ Tick
  \/ \E q \in Requests : BeginDecide(q)
  \/ EvaluateRule
  \/ Finish
  \/ DrainAuditWriteWarnings

Spec == Init /\ [][Next]_vars

-----------------------------------------------------------------------------
\* Properties.

\* The promise of module PolicyDecision, read off this module's state.
Promise == INSTANCE PolicyDecision
             WITH busy <- (pc = "eval"),
                  answer <- IF outcome.kind = None THEN NoOutcome
                            ELSE [kind |-> outcome.kind,
                                  mode_demoted |-> outcome.mode_demoted]

\* The state is well formed: a call's collections only name the rules it has
\* already evaluated, and entries the configuration holds.
TypeOK ==
  /\ config \in Configs
  /\ clock \in 0..MaxTime /\ now \in 0..MaxTime
  /\ pc \in {"idle", "eval"}
  /\ calls \in 0..MaxCalls
  /\ request \in Requests \cup {NoRequest}
  /\ next \in 1..(NRules + 1)
  /\ \A d \in fired :
       /\ d.rule \in 1..(next - 1)
       /\ d.kind \in Kinds /\ d.raw \in Kinds
  /\ \A h \in hits :
       /\ h.rule \in 1..(next - 1)
       /\ h.entry \in 1..Len(config.allowlists)
  /\ outcome.kind \in Kinds \cup {None}
  /\ warnings \in Nat

Answered == pc = "idle" /\ outcome.kind # None

\* A hardDeny rule that denies blocks the call whatever the configuration:
\* no pack or rule override, allowlist entry, mode, or co-firing rule
\* aggregated after it changes the answer.
HardDenyAlwaysBlocks ==
  Answered => \A r \in HardDeny : request.raw[r] = "deny" => outcome.kind = "deny"

\* A rule with `overridable: false` that fired is answered at least as
\* strictly as the mode makes of its own decision, unless an allowlist entry
\* in force at the instant of the call suppressed it.
LockedRuleFloor ==
  Answered =>
    \A r \in Rules \ Overridable :
      (request.raw[r] # None /\ \A h \in hits : h.rule # r)
        => AtLeast(outcome.kind, demote_for_mode(r, request.raw[r], config.mode))

\* In monitor mode a block is always the doing of a hardDeny rule, and the
\* rule the outcome names is one: a deny that config or a plugin added never
\* takes the blame, or the block, from the hardDeny rule firing beside it.
MonitorBlocksOnlyByHardDeny ==
  (Answered /\ config.mode = "monitor" /\ outcome.kind = "deny")
    => outcome.rule \in HardDeny

\* `rules.<id>.decision` set stricter than what the rule returned never makes
\* the call's answer weaker than without the override, in either mode.
StricterOverrideNeverWeakens ==
  Answered =>
    \A r \in Rules :
      LET loose == [config EXCEPT !.decision[r] = None]
      IN  (/\ request.raw[r] # None /\ config.decision[r] # None
           /\ Stricter(config.decision[r], request.raw[r]))
            => \A k \in Kinds : Promise!IsVerdict(loose, request, now, k)
                                 => AtLeast(outcome.kind, k)

\* `allowlistId` is set exactly when an allowlist is why nothing was said: the
\* answer is Allow, and the entry it names was in force, when the call began,
\* for a rule that fired and is not hardDeny.
AllowlistIdExplainsAllow ==
  Answered =>
    /\ (outcome.allowlist_id # 0) <=> (outcome.kind = "allow" /\ hits # {})
    /\ outcome.allowlist_id # 0 =>
         LET e == config.allowlists[outcome.allowlist_id]
         IN  /\ outcome.allowlist_id \in request.when
             /\ e.expires = Never \/ now < e.expires
             /\ \E r \in e.rules \ HardDeny : request.raw[r] # None

\* Monitor mode leaves a trail: a call that enforce mode would have blocked
\* and monitor mode lets through is written, or leaves a write warning, even
\* with `includeDenied: false`, and is marked as demoted.
MonitorModeLeavesTrail ==
  [][ (pc = "eval" /\ pc' = "idle" /\ config.sinkActive
       /\ HasKind(fired, "deny") /\ outcome'.kind # "deny")
      => \/ warnings' > warnings
         \/ /\ Len(records') = Len(records) + 1
            /\ records'[Len(records')].mode_demoted ]_vars

\* The loop implements the promise of module PolicyDecision: order, filters
\* and aggregation of the code give the answer stated there, once per call.
ImplementsPolicyDecision == Promise!PSpec
=============================================================================
