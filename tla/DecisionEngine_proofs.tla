------------------------ MODULE DecisionEngine_proofs ------------------------
(***************************************************************************)
(* Proofs about DecisionEngine, for every set of rules, configuration and  *)
(* request.  The inductive invariant says what the loop has collected      *)
(* after `next - 1` iterations, and that an answer was built from a        *)
(* complete loop.                                                          *)
(***************************************************************************)
EXTENDS DecisionEngine, FiniteSetTheorems, WellFoundedInduction, TLAPS

\* A set of naturals that is not empty has a least element: strict inclusion is
\* well-founded on the finite sets 0..k.
LEMMA LeastNatural ==
  ASSUME NEW S, S \subseteq Nat, S # {}
  PROVE  \E k \in S : \A j \in S : k <= j
<1> DEFINE F == {0..k : k \in S}
<1>1. F \subseteq FiniteSubsetsOf(Nat) /\ F # {}
  <2>1. \A k \in S : 0..k \subseteq Nat /\ IsFiniteSet(0..k)
    BY FS_Interval
  <2>2. QED
    BY <2>1 DEF FiniteSubsetsOf
<1>2. \E M \in F : \A D \in F : ~(<<D, M>> \in StrictSubsetOrdering(Nat))
  <2> HIDE DEF F
  <2>1. QED
    BY <1>1, FS_StrictSubsetOrderingWellFounded, WFMin
<1>3. PICK k \in S : \A D \in F : ~(<<D, 0..k>> \in StrictSubsetOrdering(Nat))
  BY <1>2
<1>4. ASSUME NEW j \in S, j < k PROVE FALSE
  <2>1. 0..j \in F /\ 0..j \subseteq 0..k /\ k \in 0..k /\ k \notin 0..j
    BY <1>4
  <2>2. 0..j # 0..k /\ 0..j \in SUBSET Nat /\ 0..k \in SUBSET Nat
    BY <2>1
  <2>3. <<0..j, 0..k>> \in StrictSubsetOrdering(Nat)
    BY <2>1, <2>2 DEF StrictSubsetOrdering
  <2>4. QED
    BY <1>3, <2>1, <2>3
<1>5. QED
  BY <1>4

\* So the `Min` by which "the first" is written exists.
LEMMA MinIn ==
  ASSUME NEW S, S \subseteq Nat, S # {}
  PROVE  Min(S) \in S /\ \A j \in S : Min(S) <= j
<1>1. \E k \in S : \A j \in S : k <= j
  BY LeastNatural
<1>2. QED
  BY <1>1 DEF Min

\* And the `Max` by which "the strictest" is.
LEMMA MaxIn ==
  ASSUME NEW n \in Nat, NEW S, S \subseteq 1..n, S # {}
  PROVE  Max(S) \in S /\ \A j \in S : Max(S) >= j
<1> DEFINE T == {n - i : i \in S}
<1>1. T \subseteq Nat /\ T # {}
  <2>1. \A i \in S : n - i \in Nat
    OBVIOUS
  <2>2. QED
    BY <2>1
<1>2. Min(T) \in T /\ \A j \in T : Min(T) <= j
  BY <1>1, MinIn
<1>3. PICK i \in S : Min(T) = n - i
  BY <1>2
<1>4. \A j \in S : i >= j
  <2>1. ASSUME NEW j \in S PROVE i >= j
    <3>1. n - j \in T /\ n - i <= n - j
      BY <1>2, <1>3
    <3>2. QED
      BY <3>1
  <2>2. QED
    BY <2>1
<1>5. QED
  BY <1>4 DEF Max

\* What the loop makes of rule r under the current call.
Kind(r) == apply_rule_override(r, request.raw[r], config)
Skipped(r) == is_pack_disabled(r, config) \/ request.raw[r] = None \/ Kind(r) = None
Cover(r) == covering(config, request, r, Kind(r), now)
Survivor(r) == [rule |-> r, kind |-> Kind(r), raw |-> request.raw[r]]
Hit(r) == [rule |-> r, entry |-> Min(Cover(r))]
Surviving == {r \in 1..(next - 1) : ~Skipped(r) /\ Cover(r) = {}}
Excused == {r \in 1..(next - 1) : ~Skipped(r) /\ Cover(r) # {}}

\* The part of the type invariant the loop invariant rests on.
StateInv ==
  /\ config \in Configs
  /\ clock \in 0..MaxTime /\ now \in 0..MaxTime
  /\ pc \in {"idle", "eval"}
  /\ calls \in 0..MaxCalls
  /\ request \in Requests \cup {NoRequest}
  /\ next \in 1..(NRules + 1)
  /\ warnings \in Nat

\* After next - 1 iterations the collections are what those rules say.
LoopInv ==
  /\ fired = {Survivor(r) : r \in Surviving}
  /\ hits = {Hit(r) : r \in Excused}

\* While a call runs there is no outcome; an outcome comes from a whole loop.
AnswerInv ==
  /\ pc = "eval" => outcome = NoOutcome
  /\ outcome # NoOutcome =>
       /\ next = NRules + 1
       /\ outcome = OutcomeOf(fired, hits, config.mode)

IInv == StateInv /\ LoopInv /\ AnswerInv

LEMMA InitInv == Init => IInv
<1> SUFFICES ASSUME Init PROVE IInv
  OBVIOUS
<1>1. StateInv
  BY NRulesAssumption, BoundsAssumption DEF Init, StateInv
<1>2. Surviving = {} /\ Excused = {}
  BY DEF Init, Surviving, Excused
<1>3. LoopInv /\ AnswerInv
  BY <1>2 DEF Init, LoopInv, AnswerInv
<1>4. QED
  BY <1>1, <1>3 DEF IInv

LEMMA StateInvInductive == StateInv /\ [Next]_vars => StateInv'
<1> SUFFICES ASSUME StateInv, [Next]_vars PROVE StateInv'
  OBVIOUS
<1> USE NRulesAssumption, BoundsAssumption DEF StateInv
<1>1. CASE Tick
  BY <1>1 DEF Tick
<1>2. ASSUME NEW q \in Requests, BeginDecide(q) PROVE StateInv'
  BY <1>2 DEF BeginDecide
<1>3. CASE EvaluateRule
  BY <1>3 DEF EvaluateRule, Rules
<1>4. CASE Finish
  <2>1. warnings' \in Nat
    BY <1>4 DEF Finish, RecordAudit
  <2>2. QED
    BY <1>4, <2>1 DEF Finish
<1>5. CASE DrainAuditWriteWarnings
  BY <1>5 DEF DrainAuditWriteWarnings
<1>6. CASE UNCHANGED vars
  BY <1>6 DEF vars
<1>7. QED
  BY <1>1, <1>2, <1>3, <1>4, <1>5, <1>6 DEF Next

\* A step that leaves the call alone leaves what its rules say alone.
LEMMA SameCall ==
  ASSUME UNCHANGED <<config, request, now>>, NEW r
  PROVE  /\ Skipped(r)' <=> Skipped(r)
         /\ Cover(r)' = Cover(r)
         /\ Survivor(r)' = Survivor(r)
         /\ Hit(r)' = Hit(r)
BY DEF Skipped, Cover, Survivor, Hit, Kind

LEMMA LoopInvInductive == IInv /\ [Next]_vars => LoopInv'
<1> SUFFICES ASSUME IInv, [Next]_vars PROVE LoopInv'
  OBVIOUS
<1>1. ASSUME UNCHANGED <<config, request, now, next, fired, hits>> PROVE LoopInv'
  BY <1>1, SameCall DEF IInv, LoopInv, Surviving, Excused
<1>2. ASSUME NEW q \in Requests, BeginDecide(q) PROVE LoopInv'
  BY <1>2 DEF BeginDecide, LoopInv, Surviving, Excused
<1>3. CASE EvaluateRule
  <2>1. UNCHANGED <<config, request, now>> /\ next' = next + 1 /\ next \in Nat
    BY <1>3 DEF EvaluateRule, IInv, StateInv
  <2>2. 1..(next' - 1) = 1..(next - 1) \cup {next}
    BY <2>1, <1>3 DEF EvaluateRule, Rules
  <2>3. Surviving' = IF ~Skipped(next) /\ Cover(next) = {}
                     THEN Surviving \cup {next} ELSE Surviving
    BY <2>1, <2>2, SameCall DEF Surviving
  <2>4. Excused' = IF ~Skipped(next) /\ Cover(next) # {}
                   THEN Excused \cup {next} ELSE Excused
    BY <2>1, <2>2, SameCall DEF Excused
  <2>5. fired' = IF ~Skipped(next) /\ Cover(next) = {}
                 THEN fired \cup {Survivor(next)} ELSE fired
    BY <1>3 DEF EvaluateRule, RuleStep, Skipped, Cover, Kind, Survivor
  <2>6. hits' = IF ~Skipped(next) /\ Cover(next) # {}
                THEN hits \cup {Hit(next)} ELSE hits
    BY <1>3 DEF EvaluateRule, RuleStep, Skipped, Cover, Kind, Hit
  <2>7. fired' = {Survivor(r)' : r \in Surviving'}
    BY <2>1, <2>3, <2>5, SameCall DEF IInv, LoopInv
  <2>8. hits' = {Hit(r)' : r \in Excused'}
    BY <2>1, <2>4, <2>6, SameCall DEF IInv, LoopInv
  <2>9. QED
    BY <2>7, <2>8 DEF LoopInv
<1>4. CASE Tick
  BY <1>1, <1>4 DEF Tick
<1>5. CASE Finish
  BY <1>1, <1>5 DEF Finish
<1>6. CASE DrainAuditWriteWarnings
  BY <1>1, <1>6 DEF DrainAuditWriteWarnings
<1>7. CASE UNCHANGED vars
  BY <1>1, <1>7 DEF vars
<1>8. QED
  BY <1>2, <1>3, <1>4, <1>5, <1>6, <1>7 DEF Next

LEMMA AnswerInvInductive == IInv /\ [Next]_vars => AnswerInv'
<1> SUFFICES ASSUME IInv, [Next]_vars PROVE AnswerInv'
  OBVIOUS
<1>1. ASSUME UNCHANGED <<config, pc, next, fired, hits, outcome>> PROVE AnswerInv'
  BY <1>1 DEF IInv, AnswerInv
<1>2. ASSUME NEW q \in Requests, BeginDecide(q) PROVE AnswerInv'
  BY <1>2 DEF BeginDecide, AnswerInv
<1>3. CASE EvaluateRule
  BY <1>3 DEF EvaluateRule, IInv, AnswerInv
<1>4. CASE Finish
  BY <1>4 DEF Finish, AnswerInv
<1>5. CASE Tick
  BY <1>1, <1>5 DEF Tick
<1>6. CASE DrainAuditWriteWarnings
  BY <1>1, <1>6 DEF DrainAuditWriteWarnings
<1>7. CASE UNCHANGED vars
  BY <1>1, <1>7 DEF vars
<1>8. QED
  BY <1>2, <1>3, <1>4, <1>5, <1>6, <1>7 DEF Next

\* The loop invariant holds of the specification.
THEOREM LoopCorrect == Spec => []IInv
<1>1. IInv /\ [Next]_vars => IInv'
  BY StateInvInductive, LoopInvInductive, AnswerInvInductive DEF IInv
<1>2. QED
  BY InitInv, <1>1, PTL DEF Spec

-----------------------------------------------------------------------------
\* What one rule contributes.

LEMMA RankValues ==
  Rank["allow"] = 0 /\ Rank["monitor"] = 1 /\ Rank["ask"] = 2 /\ Rank["deny"] = 3
BY DEF Rank, Kinds

\* A configuration and a request the engine holds are well formed.
LEMMA WellFormed ==
  ASSUME StateInv, NEW r \in Rules
  PROVE  /\ config.mode \in Modes
         /\ config.decision[r] \in Kinds \cup {None}
         /\ request.raw[r] \in {None, "monitor", "ask", "deny"}
         /\ Len(config.allowlists) \in Nat
<1>1. config \in Configs /\ request \in Requests \cup {NoRequest}
  BY DEF StateInv
<1>2. request.raw \in [Rules -> {None, "monitor", "ask", "deny"}]
  BY <1>1, RequestsAssumption DEF NoRequest
<1>3. QED
  BY <1>1, <1>2, ConfigsAssumption

\* A rule that is not switched off or excused is in the answered aggregation.
LEMMA SurvivorsAreFired ==
  ASSUME IInv, Answered, NEW r \in Rules, ~Skipped(r), Cover(r) = {}
  PROVE  /\ Survivor(r) \in fired
         /\ [rule |-> r,
             kind |-> demote_with_floor(r, Kind(r), request.raw[r], config.mode)]
              \in Demoted(fired, config.mode)
<1>1. next = NRules + 1
  BY DEF Answered, NoOutcome, IInv, AnswerInv
<1>2. r \in Surviving
  BY <1>1, NRulesAssumption DEF Surviving, Rules
<1>3. Survivor(r) \in fired
  BY <1>2 DEF IInv, LoopInv
<1>4. QED
  BY <1>3 DEF Survivor, Demoted

\* The outcome is at least as strict as each demoted decision.
LEMMA OutcomeIsStrictest ==
  ASSUME IInv, Answered, NEW d \in Demoted(fired, config.mode), d.kind \in Kinds
  PROVE  /\ outcome.kind = StrictestKind(Demoted(fired, config.mode))
         /\ AtLeast(outcome.kind, d.kind)
<1>1. outcome.kind = StrictestKind(Demoted(fired, config.mode))
  BY DEF Answered, NoOutcome, IInv, AnswerInv, OutcomeOf
<1> DEFINE D == Demoted(fired, config.mode)
<1>2. HasKind(D, d.kind)
  BY DEF HasKind
<1> HIDE DEF D
<1>3. AtLeast(StrictestKind(D), d.kind)
  BY <1>2, RankValues DEF StrictestKind, AtLeast, Kinds
<1>4. QED
  BY <1>1, <1>3 DEF D

\* Whatever the configuration, a hardDeny rule that denies blocks the call.
THEOREM HardDenyTheorem == Spec => []HardDenyAlwaysBlocks
<1>1. IInv => HardDenyAlwaysBlocks
  <2> SUFFICES ASSUME IInv, Answered, NEW r \in HardDeny, request.raw[r] = "deny"
               PROVE  outcome.kind = "deny"
    BY DEF HardDenyAlwaysBlocks
  <2>1. r \in Rules /\ StateInv
    BY RuleSetsAssumption DEF IInv
  <2>2. Kind(r) = "deny"
    BY <2>1, WellFormed, RankValues
       DEF Kind, apply_rule_override, is_overridable, override_allowed, AtLeast,
           Kinds, None
  <2>3. ~Skipped(r) /\ Cover(r) = {}
    BY <2>2 DEF Skipped, Cover, covering, is_pack_disabled, is_overridable, None
  <2>4. demote_with_floor(r, Kind(r), request.raw[r], config.mode) = "deny"
    BY <2>2 DEF demote_with_floor, demote_for_mode
  <2>5. [rule |-> r, kind |-> "deny"] \in Demoted(fired, config.mode)
    BY <2>1, <2>3, <2>4, SurvivorsAreFired
  <2>6. /\ outcome.kind = StrictestKind(Demoted(fired, config.mode))
        /\ HasKind(Demoted(fired, config.mode), "deny")
    BY <2>5, OutcomeIsStrictest DEF Kinds, HasKind
  <2>7. QED
    BY <2>6 DEF StrictestKind
<1>2. QED
  BY LoopCorrect, <1>1, PTL

\* A locked rule is answered at least as strictly as the mode allows.
THEOREM LockedRuleTheorem == Spec => []LockedRuleFloor
<1>1. IInv => LockedRuleFloor
  <2> SUFFICES ASSUME IInv, Answered, NEW r \in Rules \ Overridable,
                      request.raw[r] # None, \A h \in hits : h.rule # r
               PROVE  AtLeast(outcome.kind,
                              demote_for_mode(r, request.raw[r], config.mode))
    BY DEF LockedRuleFloor
  <2>1. r \in Rules /\ StateInv
    BY DEF IInv
  <2>2. /\ request.raw[r] \in {"monitor", "ask", "deny"}
        /\ Kind(r) \in Kinds /\ AtLeast(Kind(r), request.raw[r])
    BY <2>1, WellFormed, RankValues
       DEF Kind, apply_rule_override, is_overridable, override_allowed, AtLeast,
           Kinds, None
  <2>3. ~Skipped(r)
    BY <2>2 DEF Skipped, is_pack_disabled, is_overridable, None, Kinds
  <2>4. Cover(r) = {}
    <3>1. SUFFICES ASSUME Cover(r) # {} PROVE FALSE
      OBVIOUS
    <3>2. r \in Excused
      BY <2>1, <2>3, <3>1, NRulesAssumption
         DEF Excused, Rules, Answered, NoOutcome, IInv, AnswerInv
    <3>3. Hit(r) \in hits /\ Hit(r).rule = r
      BY <3>2 DEF IInv, LoopInv, Hit
    <3>4. QED
      BY <3>3
  <2> DEFINE k == demote_with_floor(r, Kind(r), request.raw[r], config.mode)
  <2>5. k \in Kinds /\ AtLeast(k, demote_for_mode(r, request.raw[r], config.mode))
    BY <2>2, RankValues DEF demote_with_floor, demote_for_mode, AtLeast, Kinds
  <2>6. [rule |-> r, kind |-> k] \in Demoted(fired, config.mode)
    BY <2>1, <2>3, <2>4, SurvivorsAreFired
  <2> HIDE DEF k
  <2>7. AtLeast(outcome.kind, k) /\ outcome.kind \in Kinds
    BY <2>5, <2>6, OutcomeIsStrictest DEF StrictestKind, Kinds
  <2>8. demote_for_mode(r, request.raw[r], config.mode) \in Kinds
    BY <2>2 DEF demote_for_mode, Kinds
  <2>9. QED
    BY <2>5, <2>7, <2>8, RankValues DEF AtLeast, Kinds
<1>2. QED
  BY LoopCorrect, <1>1, PTL

\* What a fired rule says is a decision kind, and its excuse a real entry.
LEMMA Contributions ==
  ASSUME StateInv, NEW r \in Rules, ~Skipped(r)
  PROVE  /\ Kind(r) \in Kinds
         /\ request.raw[r] \in {"monitor", "ask", "deny"}
         /\ Cover(r) \subseteq 1..Len(config.allowlists)
         /\ Cover(r) # {} => Min(Cover(r)) \in Cover(r)
<1>1. Kind(r) \in Kinds /\ request.raw[r] \in {"monitor", "ask", "deny"}
  BY WellFormed DEF Skipped, Kind, apply_rule_override, Kinds
<1>2. Cover(r) \subseteq 1..Len(config.allowlists)
  BY DEF Cover, covering
<1>3. Cover(r) \subseteq Nat
  BY <1>2, WellFormed
<1>4. QED
  BY <1>1, <1>2, <1>3, MinIn

\* Type correctness: the type invariant the runs check.
THEOREM TypeCorrect == Spec => []TypeOK
<1>1. IInv => TypeOK
  <2> SUFFICES ASSUME IInv PROVE TypeOK
    OBVIOUS
  <2>1. 1..(next - 1) \subseteq Rules /\ StateInv
    BY NRulesAssumption DEF IInv, StateInv, Rules
  <2>2. ASSUME NEW d \in fired
        PROVE  d.rule \in 1..(next - 1) /\ d.kind \in Kinds /\ d.raw \in Kinds
    <3>1. PICK r \in Surviving : d = Survivor(r)
      BY DEF IInv, LoopInv
    <3>2. r \in 1..(next - 1) /\ ~Skipped(r)
      BY DEF Surviving
    <3>3. Kind(r) \in Kinds /\ request.raw[r] \in Kinds
      BY <2>1, <3>2, Contributions DEF Kinds
    <3>4. QED
      BY <3>1, <3>2, <3>3 DEF Survivor
  <2>3. ASSUME NEW h \in hits
        PROVE  h.rule \in 1..(next - 1) /\ h.entry \in 1..Len(config.allowlists)
    <3>1. PICK r \in Excused : h = Hit(r)
      BY DEF IInv, LoopInv
    <3>2. r \in 1..(next - 1) /\ ~Skipped(r) /\ Cover(r) # {}
      BY DEF Excused
    <3>3. Min(Cover(r)) \in 1..Len(config.allowlists)
      BY <2>1, <3>2, Contributions
    <3>4. QED
      BY <3>1, <3>2, <3>3 DEF Hit
  <2>4. outcome.kind \in Kinds \cup {None}
    <3>1. CASE outcome = NoOutcome
      BY <3>1 DEF NoOutcome
    <3>2. CASE outcome # NoOutcome
      BY <3>2 DEF IInv, AnswerInv, OutcomeOf, StrictestKind, Kinds
    <3>3. QED
      BY <3>1, <3>2
  <2>5. QED
    BY <2>1, <2>2, <2>3, <2>4 DEF TypeOK, StateInv
<1>2. QED
  BY LoopCorrect, <1>1, PTL

\* In monitor mode the rule a block names is a hardDeny rule.
THEOREM MonitorBlocksTheorem == Spec => []MonitorBlocksOnlyByHardDeny
<1>1. IInv => MonitorBlocksOnlyByHardDeny
  <2> SUFFICES ASSUME IInv, Answered, config.mode = "monitor", outcome.kind = "deny"
               PROVE  outcome.rule \in HardDeny
    BY DEF MonitorBlocksOnlyByHardDeny
  <2> DEFINE D == Demoted(fired, "monitor")
             S == {d.rule : d \in {e \in D : e.kind = "deny"}}
  <2>1. outcome.kind = StrictestKind(D) /\ outcome.rule = NamedRule(D, "deny")
    BY DEF Answered, NoOutcome, IInv, AnswerInv, OutcomeOf
  <2>2. HasKind(D, "deny")
    BY <2>1 DEF StrictestKind
  <2>3. \A d \in D : d.rule \in Rules /\ (d.kind = "deny" => d.rule \in HardDeny)
    <3>1. ASSUME NEW e \in fired PROVE e.rule \in Rules
      <4>1. PICK r \in Surviving : e = Survivor(r)
        BY DEF IInv, LoopInv
      <4>2. QED
        BY <4>1, NRulesAssumption DEF Surviving, Survivor, IInv, StateInv, Rules
    <3>2. ASSUME NEW r, NEW k, NEW raw, r \notin HardDeny
          PROVE  demote_with_floor(r, k, raw, "monitor") # "deny"
      BY <3>2 DEF demote_with_floor, demote_for_mode
    <3>3. QED
      BY <3>1, <3>2 DEF Demoted
  <2>4. S # {} /\ S \subseteq 1..NRules
    BY <2>2, <2>3 DEF HasKind, Rules
  <2>5. Max(S) \in S
    <3> HIDE DEF S
    <3>1. QED
      BY <2>4, MaxIn, NRulesAssumption
  <2>6. outcome.rule = Max(S)
    BY <2>1 DEF NamedRule
  <2>7. QED
    BY <2>3, <2>5, <2>6
<1>2. QED
  BY LoopCorrect, <1>1, PTL

-----------------------------------------------------------------------------
\* The loop implements PolicyDecision.

\* Both modules say the same of one rule.
LEMMA SameRuleMeaning ==
  ASSUME StateInv, NEW r \in Rules
  PROVE  /\ r \in Promise!Fires(config, request) <=> ~Skipped(r)
         /\ ~Skipped(r) =>
              /\ Promise!Says(config, request, r) = Kind(r)
              /\ Promise!Excuses(config, request, now, r) = Cover(r)
              /\ Promise!Voice(config, request, r)
                  = demote_with_floor(r, Kind(r), request.raw[r], config.mode)
<1>1. /\ config.decision[r] \in Kinds \cup {None}
      /\ request.raw[r] \in {None, "monitor", "ask", "deny"}
      /\ config.mode \in Modes
  BY WellFormed
<1>2. Promise!Severity = Rank
  BY DEF Promise!Severity, Rank, Kinds
<1>3. r \in Promise!Fires(config, request) <=> ~Skipped(r)
  BY <1>1 DEF Promise!Fires, Promise!Silenced, Promise!Locked, Promise!Rules, Rules,
       Skipped, Kind, is_pack_disabled, is_overridable, apply_rule_override, None,
       Kinds
<1>4. ~Skipped(r) => Promise!Says(config, request, r) = Kind(r)
  BY <1>1, <1>2, RankValues
     DEF Promise!Says, Promise!Locked, Skipped, Kind, apply_rule_override,
         override_allowed, is_overridable, AtLeast, None, Kinds
<1>5. ~Skipped(r) => Promise!Excuses(config, request, now, r) = Cover(r)
  <2> SUFFICES ASSUME ~Skipped(r)
               PROVE  Promise!Excuses(config, request, now, r) = Cover(r)
    OBVIOUS
  <2>1. /\ now \in Nat
        /\ \A i \in 1..Len(config.allowlists) :
             config.allowlists[i].expires \in {-1, -2} \cup (0..MaxTime)
    <3>1. config \in Configs /\ now \in 0..MaxTime
      BY DEF StateInv
    <3>2. \A i \in 1..Len(config.allowlists) : config.allowlists[i] \in Entry
      BY <3>1, ConfigsAssumption
    <3>3. QED
      BY <3>1, <3>2, BoundsAssumption DEF Entry, Never, Malformed
  <2>2. \A i \in 1..Len(config.allowlists) :
          (\/ config.allowlists[i].expires = -1
           \/ config.allowlists[i].expires > now)
          <=> (\/ config.allowlists[i].expires = Never
               \/ /\ config.allowlists[i].expires # Malformed
                  /\ now < config.allowlists[i].expires)
    BY <2>1, BoundsAssumption DEF Never, Malformed
  <2>3. QED
    BY <1>4, <2>2 DEF Promise!Excuses, Cover, covering, allowlist_covers
<1>6. ~Skipped(r) => Promise!Voice(config, request, r)
                     = demote_with_floor(r, Kind(r), request.raw[r], config.mode)
  BY <1>4 DEF Promise!Voice, demote_with_floor, demote_for_mode
<1>7. QED
  BY <1>3, <1>4, <1>5, <1>6

\* A finished loop answers with the verdict the promise names.
LEMMA FinishAnswers == IInv /\ Finish => Promise!Answer
<1> SUFFICES ASSUME IInv, Finish PROVE Promise!Answer
  OBVIOUS
<1> DEFINE D == Demoted(fired, config.mode)
           k == StrictestKind(D)
           Speaks == Promise!Speaks(config, request, now)
<1>1. /\ pc = "eval" /\ pc' = "idle" /\ next = NRules + 1
      /\ outcome' = OutcomeOf(fired, hits, config.mode)
      /\ UNCHANGED <<config, calls, request, now>>
  BY DEF Finish
<1>2. k \in Kinds /\ k # None
  BY DEF StrictestKind, Kinds, None
<1>3. Surviving = Speaks
  <2>1. Surviving = {r \in Rules : ~Skipped(r) /\ Cover(r) = {}}
    BY <1>1, NRulesAssumption DEF Surviving, Rules
  <2>2. Promise!Rules = Rules
    BY DEF Promise!Rules, Rules
  <2>3. QED
    BY <2>1, <2>2, SameRuleMeaning DEF Promise!Speaks, Promise!Fires, IInv
<1>4. /\ \A r \in Speaks : r \in Rules /\ ~Skipped(r)
      /\ D = {[rule |-> r, kind |-> Promise!Voice(config, request, r)] : r \in Speaks}
  <2>1. \A r \in Speaks : r \in Rules /\ ~Skipped(r)
    BY <1>3, <1>1, NRulesAssumption DEF Surviving, Rules
  <2>2. fired = {Survivor(r) : r \in Speaks}
    BY <1>3 DEF IInv, LoopInv
  <2>3. \A r \in Speaks :
          /\ Survivor(r).rule = r /\ Survivor(r).kind = Kind(r)
          /\ Survivor(r).raw = request.raw[r]
          /\ Promise!Voice(config, request, r)
              = demote_with_floor(r, Kind(r), request.raw[r], config.mode)
    BY <2>1, SameRuleMeaning DEF Survivor, IInv
  <2> HIDE DEF Speaks
  <2>4. QED
    BY <2>1, <2>2, <2>3 DEF Demoted
<1>5. Promise!IsVerdict(config, request, now, k)
  <2>1. ASSUME NEW r \in Speaks
        PROVE  Promise!Voice(config, request, r) \in Kinds
    BY <1>4, SameRuleMeaning, Contributions
       DEF IInv, demote_with_floor, demote_for_mode, Kinds
  <2>2. k = "allow" \/ \E r \in Speaks : Promise!Voice(config, request, r) = k
    BY <1>4 DEF StrictestKind, HasKind
  <2>3. ASSUME NEW r \in Speaks
        PROVE  Promise!Severity[Promise!Voice(config, request, r)]
                 <= Promise!Severity[k]
    <3>1. HasKind(D, Promise!Voice(config, request, r))
      <4>1. PICK d \in D : d = [rule |-> r, kind |-> Promise!Voice(config, request, r)]
        BY <1>4
      <4>2. d.kind = Promise!Voice(config, request, r)
        BY <4>1
      <4> HIDE DEF D
      <4>3. QED
        BY <4>2 DEF HasKind
    <3>2. Promise!Severity = Rank
      BY DEF Promise!Severity, Rank, Kinds
    <3> HIDE DEF D
    <3>3. QED
      BY <2>1, <3>1, <3>2, RankValues DEF StrictestKind, Kinds
  <2>4. QED
    BY <2>2, <2>3 DEF Promise!IsVerdict
<1>6. HasKind(fired, "deny")
      <=> \E r \in Speaks : Promise!Says(config, request, r) = "deny"
  <2>1. \A r \in Speaks : Survivor(r).kind = Promise!Says(config, request, r)
    BY <1>4, SameRuleMeaning DEF Survivor, IInv
  <2>2. fired = {Survivor(r) : r \in Speaks}
    BY <1>3 DEF IInv, LoopInv
  <2> HIDE DEF Speaks
  <2>3. QED
    BY <2>1, <2>2 DEF HasKind
<1>7. /\ outcome'.kind = k
      /\ outcome'.mode_demoted = (HasKind(fired, "deny") /\ k # "deny")
  BY <1>1 DEF OutcomeOf
<1>8. k \in DOMAIN Promise!Severity
  BY <1>2 DEF Promise!Severity, Kinds
<1> HIDE DEF k, Speaks
<1>9. [kind |-> outcome'.kind, mode_demoted |-> outcome'.mode_demoted]
      = [kind |-> k,
         mode_demoted |->
           k # "deny" /\ \E r \in Speaks : Promise!Says(config, request, r) = "deny"]
  BY <1>6, <1>7
<1>10. QED
  BY <1>1, <1>2, <1>5, <1>7, <1>8, <1>9 DEF Promise!Answer, Speaks

\* Every behaviour of the loop is a behaviour of the promise.
THEOREM Refinement == Spec => ImplementsPolicyDecision
<1>1. Init => Promise!PInit
  BY DEF Init, Promise!PInit, Promise!NoAnswer, NoOutcome, NoRequest, None, Rules,
         Promise!Rules
<1>2. IInv /\ [Next]_vars => [Promise!PNext]_(Promise!pvars)
  <2> SUFFICES ASSUME IInv, [Next]_vars PROVE [Promise!PNext]_(Promise!pvars)
    OBVIOUS
  <2>1. ASSUME UNCHANGED <<config, pc, calls, request, now, outcome>>
        PROVE  UNCHANGED Promise!pvars
    BY <2>1 DEF Promise!pvars
  <2>2. ASSUME NEW q \in Requests, BeginDecide(q) PROVE Promise!PNext
    BY <2>2 DEF BeginDecide, Promise!PNext, Promise!Call, Promise!NoAnswer,
                NoOutcome, None, IInv, StateInv
  <2>3. CASE Finish
    BY <2>3, FinishAnswers DEF Promise!PNext
  <2>4. CASE EvaluateRule
    BY <2>1, <2>4 DEF EvaluateRule
  <2>5. CASE Tick
    BY <2>1, <2>5 DEF Tick
  <2>6. CASE DrainAuditWriteWarnings
    BY <2>1, <2>6 DEF DrainAuditWriteWarnings
  <2>7. CASE UNCHANGED vars
    BY <2>1, <2>7 DEF vars
  <2>8. QED
    BY <2>2, <2>3, <2>4, <2>5, <2>6, <2>7 DEF Next
<1>3. QED
  BY <1>1, <1>2, LoopCorrect, PTL DEF Spec, ImplementsPolicyDecision, Promise!PSpec
-----------------------------------------------------------------------------
\* What an allowlist entry is, once the loop has taken it.
LEMMA HitIsCover ==
  ASSUME IInv, NEW h \in hits
  PROVE  \E r \in Rules :
           /\ h.rule = r /\ h.entry \in Cover(r) /\ h.entry \in 1..Len(config.allowlists)
           /\ request.raw[r] # None
<1>1. PICK r \in Excused : h = Hit(r)
  BY DEF IInv, LoopInv
<1>2. r \in Rules /\ ~Skipped(r) /\ Cover(r) # {} /\ StateInv
  BY NRulesAssumption DEF Excused, IInv, StateInv, Rules
<1>3. h.rule = r /\ h.entry = Min(Cover(r)) /\ request.raw[r] # None
  BY <1>1, <1>2 DEF Hit, Skipped
<1>4. QED
  BY <1>2, <1>3, Contributions

\* Whatever the rules and entries, the allowlist id names an entry that was in
\* force for a rule that fired, and is set exactly when it is why nothing was said.
THEOREM AllowlistIdTheorem == Spec => []AllowlistIdExplainsAllow
<1>1. IInv => AllowlistIdExplainsAllow
  <2> SUFFICES ASSUME IInv, Answered PROVE AllowlistIdExplainsAllow
    BY DEF AllowlistIdExplainsAllow
  <2> DEFINE R == {h.rule : h \in hits}
             h0 == CHOOSE h \in hits : h.rule = Min(R)
  <2>1. /\ outcome.kind = StrictestKind(Demoted(fired, config.mode))
        /\ outcome.allowlist_id = IF outcome.kind = "allow" /\ hits # {} THEN h0.entry ELSE 0
    BY DEF Answered, NoOutcome, IInv, AnswerInv, OutcomeOf
  <2>2. ASSUME hits # {} PROVE h0 \in hits
    <3>1. R # {} /\ R \subseteq Nat
      BY <2>2, HitIsCover, NRulesAssumption DEF Rules
    <3> HIDE DEF R
    <3>2. Min(R) \in R
      BY <3>1, MinIn
    <3>3. \E h \in hits : h.rule = Min(R)
      BY <3>2 DEF R
    <3>4. QED
      BY <3>3
  <2> HIDE DEF h0
  <2>3. ASSUME hits # {}
        PROVE  \E r \in Rules :
                 /\ h0.entry \in Cover(r) /\ h0.entry \in 1..Len(config.allowlists)
                 /\ request.raw[r] # None
    BY <2>2, <2>3, HitIsCover
  <2>4. StateInv
    BY DEF IInv
  <2>5. Len(config.allowlists) \in Nat
    BY <2>4, ConfigsAssumption DEF StateInv
  <2>6. (outcome.allowlist_id # 0) <=> (outcome.kind = "allow" /\ hits # {})
    BY <2>1, <2>3, <2>5
  <2>7. ASSUME outcome.allowlist_id # 0
        PROVE  LET e == config.allowlists[outcome.allowlist_id]
               IN  /\ outcome.allowlist_id \in request.when
                   /\ e.expires = Never \/ now < e.expires
                   /\ \E r \in e.rules \ HardDeny : request.raw[r] # None
    <3>1. outcome.allowlist_id = h0.entry /\ hits # {}
      BY <2>1, <2>7
    <3>2. PICK r \in Rules : h0.entry \in Cover(r) /\ request.raw[r] # None
      BY <2>3, <3>1
    <3>3. /\ r \notin HardDeny
          /\ allowlist_covers(config, request, h0.entry, r, now)
      BY <3>2 DEF Cover, covering
    <3>4. QED
      BY <3>1, <3>2, <3>3 DEF allowlist_covers
  <2>8. QED
    BY <2>6, <2>7 DEF AllowlistIdExplainsAllow
<1>2. QED
  BY LoopCorrect, <1>1, PTL

\* What a rule says is in the answer, unless an entry or a switch silences it.
LEMMA VoiceIsHeard ==
  ASSUME IInv, Answered, NEW r \in Promise!Speaks(config, request, now)
  PROVE  /\ Promise!Voice(config, request, r) \in Kinds
         /\ outcome.kind \in Kinds
         /\ AtLeast(outcome.kind, Promise!Voice(config, request, r))
<1> DEFINE v == demote_with_floor(r, Kind(r), request.raw[r], config.mode)
<1>1. r \in Rules /\ r \in Promise!Fires(config, request)
      /\ Promise!Excuses(config, request, now, r) = {}
  BY DEF Promise!Speaks, Promise!Fires, Promise!Rules, Rules
<1>2. ~Skipped(r) /\ Cover(r) = {} /\ Promise!Voice(config, request, r) = v
  BY <1>1, SameRuleMeaning DEF IInv
<1>3. v \in Kinds
  BY <1>1, <1>2, Contributions DEF IInv, demote_with_floor, demote_for_mode, Kinds
<1>4. [rule |-> r, kind |-> v] \in Demoted(fired, config.mode)
  BY <1>1, <1>2, SurvivorsAreFired
<1> HIDE DEF v
<1>5. AtLeast(outcome.kind, v) /\ outcome.kind \in Kinds
  BY <1>3, <1>4, OutcomeIsStrictest DEF StrictestKind, Kinds
<1>6. QED
  BY <1>2, <1>3, <1>5

\* An override stricter than the rule is never the reason for a weaker answer.
THEOREM StricterOverrideTheorem == Spec => []StricterOverrideNeverWeakens
<1>1. IInv => StricterOverrideNeverWeakens
  <2> SUFFICES ASSUME IInv, Answered, NEW r \in Rules,
                      request.raw[r] # None, config.decision[r] # None,
                      Stricter(config.decision[r], request.raw[r]),
                      NEW k \in Kinds,
                      Promise!IsVerdict([config EXCEPT !.decision[r] = None],
                                        request, now, k)
               PROVE  AtLeast(outcome.kind, k)
    BY DEF StricterOverrideNeverWeakens
  <2> DEFINE loose == [config EXCEPT !.decision[r] = None]
  <2>0. StateInv /\ config \in Configs
    BY DEF IInv, StateInv
  <2>1. /\ loose.mode = config.mode /\ loose.packsOff = config.packsOff
        /\ loose.rulesOff = config.rulesOff /\ loose.allowlists = config.allowlists
        /\ loose.decision[r] = None
        /\ \A s \in Rules : s # r => loose.decision[s] = config.decision[s]
    BY <2>0, ConfigsAssumption, WellFormed
  <2> HIDE DEF loose
  <2>2. outcome.kind \in Kinds
    BY DEF IInv, AnswerInv, Answered, NoOutcome, OutcomeOf, StrictestKind, Kinds
  <2>3. CASE k = "allow"
    BY <2>2, <2>3, RankValues DEF AtLeast, Kinds
  <2>4. ASSUME NEW s \in Promise!Speaks(loose, request, now),
               Promise!Voice(loose, request, s) = k
        PROVE  AtLeast(outcome.kind, k)
    <3>1. s \in Rules /\ s \in Promise!Fires(config, request)
          /\ Promise!Excuses(loose, request, now, s) = {}
      BY <2>1 DEF Promise!Speaks, Promise!Fires, Promise!Silenced, Promise!Rules, Rules
    <3>2. CASE s # r
      <4>1. Promise!Says(loose, request, s) = Promise!Says(config, request, s)
        BY <2>1, <3>1, <3>2 DEF Promise!Says
      <4>2. /\ Promise!Excuses(config, request, now, s) = {}
            /\ Promise!Voice(config, request, s) = k
        BY <2>1, <2>4, <3>1, <4>1 DEF Promise!Excuses, Promise!Voice
      <4>3. s \in Promise!Speaks(config, request, now)
        BY <3>1, <4>2 DEF Promise!Speaks
      <4>4. QED
        BY <4>2, <4>3, VoiceIsHeard
    <3>3. CASE s = r
      <4>1. Promise!Severity = Rank
        BY DEF Promise!Severity, Rank, Kinds
      <4>2. /\ config.decision[r] \in Kinds /\ request.raw[r] \in {"monitor", "ask", "deny"}
            /\ config.mode \in Modes
        BY <2>0, WellFormed
      <4>3. /\ Promise!Says(loose, request, r) = request.raw[r]
            /\ Promise!Says(config, request, r) = config.decision[r]
            /\ config.decision[r] # "allow"
        BY <2>1, <4>1, <4>2, RankValues DEF Promise!Says, Stricter, Kinds, None
      <4>4. Promise!Excuses(config, request, now, r) = {}
        BY <2>1, <3>1, <3>3, <4>2, <4>3 DEF Promise!Excuses
      <4>5. r \in Promise!Speaks(config, request, now)
        BY <3>1, <3>3, <4>4 DEF Promise!Speaks
      <4>6. AtLeast(Promise!Voice(config, request, r), k)
        BY <2>1, <2>4, <3>3, <4>2, <4>3, RankValues
           DEF Promise!Voice, AtLeast, Stricter, Kinds, Modes
      <4>7. /\ AtLeast(outcome.kind, Promise!Voice(config, request, r))
            /\ Promise!Voice(config, request, r) \in Kinds
        BY <4>5, VoiceIsHeard
      <4>8. QED
        BY <2>2, <4>6, <4>7, RankValues DEF AtLeast, Kinds
    <3>4. QED
      BY <3>2, <3>3
  <2>5. QED
    BY <2>3, <2>4 DEF Promise!IsVerdict, loose
<1>2. QED
  BY LoopCorrect, <1>1, PTL

-----------------------------------------------------------------------------
\* The audit trail of monitor mode.

Trail == \E S : records \in Seq(S)

LEMMA TrailHolds == Spec => []Trail
<1>1. Init => Trail
  BY DEF Init, Trail
<1>2. Trail /\ [Next]_vars => Trail'
  <2> SUFFICES ASSUME Trail, [Next]_vars PROVE Trail'
    OBVIOUS
  <2>1. PICK S : records \in Seq(S)
    BY DEF Trail
  <2>2. CASE records' = records
    BY <2>1, <2>2 DEF Trail
  <2>3. ASSUME NEW o, records' = Append(records, o) PROVE Trail'
    <3>1. records \in Seq(S \cup {o})
      BY <2>1
    <3>2. Append(records, o) \in Seq(S \cup {o})
      BY <3>1
    <3>3. QED
      BY <2>3, <3>2 DEF Trail
  <2>4. QED
    BY <2>2, <2>3 DEF Next, Tick, BeginDecide, EvaluateRule, Finish, RecordAudit,
         DrainAuditWriteWarnings, vars
<1>3. QED
  BY <1>1, <1>2, PTL DEF Spec

\* A deny that monitor mode lets through is on record, or a warning says it is not.
THEOREM TrailTheorem == Spec => MonitorModeLeavesTrail
<1> DEFINE Kept ==
      (pc = "eval" /\ pc' = "idle" /\ config.sinkActive
         /\ HasKind(fired, "deny") /\ outcome'.kind # "deny")
        => \/ warnings' > warnings
           \/ /\ Len(records') = Len(records) + 1
              /\ records'[Len(records')].mode_demoted
<1>1. IInv /\ Trail /\ [Next]_vars => [Kept]_vars
  <2> SUFFICES ASSUME IInv, Trail, Next, pc = "eval", pc' = "idle", config.sinkActive,
                      HasKind(fired, "deny"), outcome'.kind # "deny"
               PROVE  \/ warnings' > warnings
                      \/ /\ Len(records') = Len(records) + 1
                         /\ records'[Len(records')].mode_demoted
    OBVIOUS
  <2> DEFINE D == Demoted(fired, config.mode)
  <2>1. Finish
    BY DEF Next, Tick, BeginDecide, EvaluateRule, DrainAuditWriteWarnings
  <2>2. /\ outcome'.kind = StrictestKind(D)
        /\ outcome'.mode_demoted = (HasKind(fired, "deny") /\ outcome'.kind # "deny")
    BY <2>1 DEF Finish, OutcomeOf
  <2>3. HasKind(D, "deny") \/ HasKind(D, "ask") \/ HasKind(D, "monitor")
    <3>1. PICK d \in fired : d.kind = "deny"
      BY DEF HasKind
    <3>2. demote_with_floor(d.rule, d.kind, d.raw, config.mode) \in {"deny", "ask", "monitor"}
      BY <3>1 DEF demote_with_floor, demote_for_mode
    <3>3. [rule |-> d.rule, kind |-> demote_with_floor(d.rule, d.kind, d.raw, config.mode)] \in D
      BY DEF Demoted
    <3> HIDE DEF D
    <3>4. QED
      BY <3>2, <3>3 DEF HasKind
  <2> HIDE DEF D
  <2>4. outcome'.kind \in {"ask", "monitor"} /\ outcome'.mode_demoted
    BY <2>2, <2>3 DEF StrictestKind
  <2>5. \/ records' = Append(records, outcome')
        \/ warnings' = warnings + 1
    BY <2>1, <2>4 DEF Finish, RecordAudit, should_record
  <2>6. CASE warnings' = warnings + 1
    BY <2>6 DEF IInv, StateInv
  <2>7. CASE records' = Append(records, outcome')
    <3>1. PICK S : records \in Seq(S)
      BY DEF Trail
    <3>2. records \in Seq(S \cup {outcome'})
      BY <3>1
    <3>3. Len(records') = Len(records) + 1 /\ records'[Len(records')] = outcome'
      BY <2>7, <3>2
    <3>4. QED
      BY <2>4, <3>3
  <2>8. QED
    BY <2>5, <2>6, <2>7
<1>2. QED
  BY <1>1, LoopCorrect, TrailHolds, PTL DEF Spec, MonitorModeLeavesTrail
=============================================================================
