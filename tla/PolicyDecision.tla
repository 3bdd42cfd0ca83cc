--------------------------- MODULE PolicyDecision ---------------------------
(***************************************************************************)
(* What a caller of `Engine::decide` is promised, without the loop: a call *)
(* reads the clock once, and its answer is a function of the merged        *)
(* configuration, the request and that instant.  The rules that may speak  *)
(* are a set, so neither the order of evaluation nor the time the loop     *)
(* takes shows in the answer.                                              *)
(***************************************************************************)
EXTENDS Integers, Sequences

CONSTANTS NRules, HardDeny, Overridable, PackKeys, Configs, Requests, MaxTime,
          MaxCalls

VARIABLES config, busy, calls, request, now, answer

pvars == <<config, busy, calls, request, now, answer>>

Rules == 1..NRules
Severity == [k \in {"allow", "monitor", "ask", "deny"} |->
               CASE k = "allow" -> 0 [] k = "monitor" -> 1
                 [] k = "ask" -> 2 [] k = "deny" -> 3]

\* Configuration may switch a rule off only when it is not locked.
Locked(r) == r \in HardDeny \/ r \notin Overridable
Silenced(c, r) ==
  ~Locked(r) /\ (r \in c.rulesOff \/ \E p \in PackKeys[r] : p \in c.packsOff)

\* A locked rule is only ever tightened.
Says(c, q, r) ==
  IF c.decision[r] = "none"
     \/ (Locked(r) /\ Severity[c.decision[r]] < Severity[q.raw[r]])
  THEN q.raw[r] ELSE c.decision[r]

Excuses(c, q, t, r) ==
  {i \in q.when \cap (1..Len(c.allowlists)) :
     /\ r \notin HardDeny
     /\ Says(c, q, r) # "allow"
     /\ r \in c.allowlists[i].rules
     /\ \/ c.allowlists[i].expires = -1
        \/ c.allowlists[i].expires > t}

Fires(c, q) == {r \in Rules : q.raw[r] # "none" /\ ~Silenced(c, r)}
Speaks(c, q, t) == {r \in Fires(c, q) : Excuses(c, q, t, r) = {}}

\* Monitor mode lets a deny pass unless the rule is hardDeny, and never
\* below the ask the rule itself returned.
Voice(c, q, r) ==
  IF c.mode = "monitor" /\ Says(c, q, r) = "deny" /\ r \notin HardDeny
  THEN IF q.raw[r] = "ask" THEN "ask" ELSE "monitor"
  ELSE Says(c, q, r)

\* k is the strictest of the voices, "allow" when nobody speaks.
IsVerdict(c, q, t, k) ==
  /\ k = "allow" \/ \E r \in Speaks(c, q, t) : Voice(c, q, r) = k
  /\ \A r \in Speaks(c, q, t) : Severity[Voice(c, q, r)] <= Severity[k]

NoAnswer == [kind |-> "none"]

PInit ==
  /\ config \in Configs
  /\ busy = FALSE
  /\ calls = 0
  /\ request = [raw |-> [r \in Rules |-> "none"], when |-> {}]
  /\ now \in 0..MaxTime
  /\ answer = NoAnswer

Call(q, t) ==
  /\ ~busy
  /\ calls < MaxCalls
  /\ busy' = TRUE
  /\ calls' = calls + 1
  /\ request' = q
  /\ now' = t
  /\ answer' = NoAnswer
  /\ UNCHANGED config

Answer ==
  /\ busy
  /\ busy' = FALSE
  /\ \E k \in DOMAIN Severity :
       /\ IsVerdict(config, request, now, k)
       /\ answer' = [kind |-> k,
                     mode_demoted |->
                       /\ k # "deny"
                       /\ \E r \in Speaks(config, request, now) :
                            Says(config, request, r) = "deny"]
  /\ UNCHANGED <<config, calls, request, now>>

PNext == (\E q \in Requests, t \in 0..MaxTime : Call(q, t)) \/ Answer

PSpec == PInit /\ [][PNext]_pvars
=============================================================================
