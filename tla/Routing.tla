-------------------------------- MODULE Routing --------------------------------
(***************************************************************************)
(* Route outcomes, route health and the choice of a route:                 *)
(* routing/store.py, routing/engine.py and the models they exchange.       *)
(*                                                                         *)
(* Activities record outcomes while planners read them.  An outcome takes  *)
(* its time before it waits for the store, so that outcomes are stored in  *)
(* any order of occurrence.  Risk, data classes and verification levels    *)
(* are their ranks; candidate and event ids are numbers, for their order.  *)
(***************************************************************************)
EXTENDS Naturals, Sequences, FiniteSets, SequencesExt

CONSTANTS
  Candidates,      \* candidate ids
  Profile,         \* their RouteCandidate
  Attempts,        \* what an attempt may report: candidate, kind, latency
  MaxEvents,       \* bound on the outcomes issued
  MaxTime,         \* bound on the clock
  None

VARIABLES
  now,
  outcomes,        \* table route_outcomes, in the order of arrival
  pending          \* outcomes issued and not yet stored

routingVars == <<now, outcomes, pending>>

Bps == 10000

(* RouteCandidate: the bounds of a profile.                                 *)
ValidCandidate(p) ==
  /\ p.success \in 0..Bps
  /\ p.weight \in 1..Bps
  /\ p.latency \in Nat \ {0}
  /\ p.cost \in Nat /\ p.priority \in Nat
  /\ p.maxRisk \in 0..2 /\ p.maxData \in 0..3 /\ p.maxLevel \in 0..3
  /\ p.approval \in BOOLEAN /\ p.enabled \in BOOLEAN

(* RoutingPolicy, with its RoutingWeights.                                  *)
ValidPolicy(policy) ==
  /\ policy.channels # {}
  /\ policy.allowed \cap policy.denied = {}
  /\ policy.minSuccess \in 0..Bps
  /\ policy.maxLatency \in Nat \ {0} /\ policy.maxCost \in Nat
  /\ policy.minSamples \in 0..Bps /\ policy.window \in 1..Bps
  /\ policy.threshold \in 1..100 /\ policy.cooldown \in Nat \ {0}
  /\ policy.fallbacks \in 0..15
  /\ policy.weights \in [{"reliability", "latency", "cost"} -> 0..1000]
  /\ \E w \in DOMAIN policy.weights : policy.weights[w] > 0

OutcomeKinds == {"success", "retryable", "terminal"}

ASSUME AttemptsAssumption == \A a \in Attempts : a.kind \in OutcomeKinds /\ a.latency \in Nat

ASSUME RoutingNone == None \notin Nat

ASSUME CandidatesAssumption ==
  IsFiniteSet(Candidates) /\ \A c \in Candidates : c \in Nat /\ ValidCandidate(Profile[c])

RoutingInit == now = 0 /\ outcomes = <<>> /\ pending = {}

-----------------------------------------------------------------------------
(* The outcome store.                                                       *)

(* _record_outcome: the event of an attempt; attempts past the hundredth    *)
(* share one, here the last may.                                            *)
IssueOutcome(attempt, shared) ==
  LET issued == Cardinality(pending) + Len(outcomes) IN
  /\ issued < MaxEvents /\ (shared => issued + 1 = MaxEvents)
  /\ pending' = pending \cup
       {[event |-> IF shared THEN issued ELSE issued + 1, candidate |-> attempt.candidate,
         kind |-> attempt.kind, latency |-> attempt.latency, at |-> now]}
  /\ UNCHANGED <<now, outcomes>>

(* append.  An event is stored once; the caller does not learn of a         *)
(* conflict, nor of a store that fails.                                     *)
AppendOutcome(o) ==
  /\ o \in pending
  /\ pending' = pending \ {o}
  /\ outcomes' = IF \E i \in DOMAIN outcomes : outcomes[i].event = o.event THEN outcomes
                 ELSE Append(outcomes, o)
  /\ UNCHANGED now

AppendFails(o) ==
  /\ o \in pending
  /\ pending' = pending \ {o}
  /\ UNCHANGED <<now, outcomes>>

Tick == now < MaxTime /\ now' = now + 1 /\ UNCHANGED <<outcomes, pending>>

(* A finite set in a strict total order, a set of pairs: each element after *)
(* those that come before it.                                               *)
Ranking(S, before) ==
  [k \in 1..Cardinality(S) |-> CHOOSE x \in S : Cardinality({y \in S : <<y, x>> \in before}) = k - 1]

UpTo(limit, s) == SubSeq(s, 1, IF Len(s) < limit THEN Len(s) ELSE limit)

(* Fault: the latest rows are the ones stored last.                         *)
ReplayFault(candidate, limit) ==
  UpTo(limit, Reverse(SelectSeq(outcomes, LAMBDA o : o.candidate = candidate)))

Recorded(candidate) == {o \in Range(outcomes) : o.candidate = candidate}

Later(rows) ==
  {p \in rows \X rows : p[1].at > p[2].at \/ (p[1].at = p[2].at /\ p[1].event > p[2].event)}

(* replay: the latest outcomes of a candidate, latest first.                *)
Replay(candidate, limit) ==
  UpTo(limit, Ranking(Recorded(candidate), Later(Recorded(candidate))))

(* health_snapshot.                                                         *)
HealthSnapshot(rows, policy, at) ==
  LET n == Len(rows)
      Count(kind) == Cardinality({i \in 1..n : rows[i].kind = kind})
      consecutive == CHOOSE k \in 0..n :
        /\ \A i \in 1..k : rows[i].kind # "success"
        /\ k = n \/ rows[k + 1].kind = "success"
      rank == (n * 95 + 99) \div 100
      p95 == CHOOSE l \in {o.latency : o \in Range(rows)} :
        /\ Cardinality({i \in 1..n : rows[i].latency < l}) < rank
        /\ Cardinality({i \in 1..n : rows[i].latency <= l}) >= rank
      expiry == rows[1].at + policy.cooldown
      status == IF n < policy.minSamples THEN "UNKNOWN"
                ELSE IF consecutive >= policy.threshold /\ expiry > at THEN "UNAVAILABLE"
                ELSE IF Count("success") < n THEN "DEGRADED" ELSE "HEALTHY"
  IN IF n = 0
     THEN [status |-> "UNKNOWN", samples |-> 0, success |-> 0, failures |-> 0,
           consecutive |-> 0, p95 |-> None, until |-> None]
     ELSE [status |-> status, samples |-> n, success |-> Count("success"),
           failures |-> Count("retryable") + Count("terminal"),
           consecutive |-> consecutive, p95 |-> p95,
           until |-> IF status = "UNAVAILABLE" THEN expiry ELSE None]

(* validate_counts.                                                         *)
ValidSnapshot(h, at) ==
  /\ h.success + h.failures = h.samples
  /\ h.consecutive <= h.samples
  /\ h.samples = 0 => h.p95 = None /\ h.until = None /\ h.status = "UNKNOWN"
  /\ h.samples > 0 => h.p95 # None
  /\ (h.status = "UNAVAILABLE") = (h.until # None)
  /\ h.until # None => h.until > at

-----------------------------------------------------------------------------
(* The engine.  A candidate is evaluated against a request, the policy and  *)
(* its health.                                                              *)

(* Fault: the samples observed are left out of the denominator.             *)
EffectiveSuccessFault(profile, health) ==
  IF health.samples = 0 THEN profile.success
  ELSE (profile.success * profile.weight + health.success * Bps) \div profile.weight

EffectiveSuccess(profile, health) ==
  IF health.samples = 0 THEN profile.success
  ELSE (profile.success * profile.weight + health.success * Bps)
         \div (profile.weight + health.samples)

(* A latency of 0 counts as none observed.                                  *)
EffectiveLatency(profile, health) ==
  IF health.p95 \in {None, 0} THEN profile.latency ELSE health.p95

(* Fault: more is better.                                                   *)
InverseScoreFault(value, maximum) ==
  IF maximum = 0 THEN (IF value = 0 THEN Bps ELSE 0)
  ELSE IF value > maximum THEN Bps ELSE (value * Bps) \div maximum

InverseScore(value, maximum) ==
  IF maximum = 0 THEN (IF value = 0 THEN Bps ELSE 0)
  ELSE IF value > maximum THEN 0 ELSE Bps - ((value * Bps) \div maximum)

RejectionReasons(c, request, policy, health) ==
  LET p == Profile[c]
      wanted == IF request.level > policy.minLevel THEN request.level ELSE policy.minLevel
      gates ==
        [candidate_disabled |-> ~p.enabled,
         channel_not_allowed |-> p.channel \notin policy.channels,
         candidate_not_allowed |-> policy.allowed # {} /\ c \notin policy.allowed,
         candidate_denied |-> c \in policy.denied,
         candidate_risk_unsupported |-> request.risk > p.maxRisk,
         policy_risk_exceeded |-> request.risk > policy.maxRisk,
         candidate_data_classification_unsupported |-> request.data > p.maxData,
         policy_data_classification_exceeded |-> request.data > policy.maxData,
         verification_level_unsupported |-> p.maxLevel < wanted,
         cost_limit_exceeded |-> p.cost > policy.maxCost,
         latency_limit_exceeded |-> EffectiveLatency(p, health) > policy.maxLatency,
         reliability_below_minimum |-> EffectiveSuccess(p, health) < policy.minSuccess,
         circuit_open |-> health.status = "UNAVAILABLE",
         approval_required |->
           policy.approvalAt # None /\ request.risk >= policy.approvalAt /\ ~p.approval]
  IN {reason \in DOMAIN gates : gates[reason]}

WeightedScore(c, policy, health) ==
  LET p == Profile[c]
      w == policy.weights
  IN (EffectiveSuccess(p, health) * w.reliability
        + InverseScore(EffectiveLatency(p, health), policy.maxLatency) * w.latency
        + InverseScore(p.cost, policy.maxCost) * w.cost)
     \div (w.reliability + w.latency + w.cost)

(* The bounds of RouteEvaluation's fields.                                  *)
ValidEvaluation(c, policy, health) ==
  /\ EffectiveSuccess(Profile[c], health) \in 0..Bps
  /\ WeightedScore(c, policy, health) \in 0..Bps

(* The sort key of select_route.                                            *)
Preferred(S, score) ==
  {p \in S \X S :
     \/ score[p[1]] > score[p[2]]
     \/ score[p[1]] = score[p[2]] /\ Profile[p[1]].priority < Profile[p[2]].priority
     \/ /\ score[p[1]] = score[p[2]] /\ Profile[p[1]].priority = Profile[p[2]].priority
        /\ p[1] < p[2]}

(* select_route: the ranking, and the fallbacks taken from it.  "health"    *)
(* has the candidates of the capability as its domain.                      *)
SelectRoute(request, policy, health) ==
  LET reasons == [c \in DOMAIN health |-> RejectionReasons(c, request, policy, health[c])]
      score == [c \in DOMAIN health |-> WeightedScore(c, policy, health[c])]
      eligible == {c \in DOMAIN health : reasons[c] = {}}
      ranked == Ranking(eligible, Preferred(eligible, score))
      others == {c \in eligible : request.risk = 0 /\ c # ranked[1] /\ ~Profile[c].approval}
  IN [reasons |-> reasons, ranked |-> ranked,
      fallbacks |-> UpTo(policy.fallbacks, Ranking(others, Preferred(others, score)))]

(* validate_decision: the ranking is of the eligible ones, each once, and   *)
(* the fallbacks follow its first in its order.                             *)
ValidDecision(d) ==
  LET eligible == {c \in DOMAIN d.reasons : d.reasons[c] = {}}
      Place(c) == {k \in 2..Len(d.ranked) : d.ranked[k] = c}
  IN /\ Range(d.ranked) = eligible
     /\ Len(d.ranked) = Cardinality(eligible)
     /\ \A i \in DOMAIN d.fallbacks : Place(d.fallbacks[i]) # {}
     /\ \A i, j \in DOMAIN d.fallbacks : i < j =>
          \A k \in Place(d.fallbacks[i]), l \in Place(d.fallbacks[j]) : k < l
=============================================================================
