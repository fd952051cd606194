------------------------------ MODULE Verification ------------------------------
(***************************************************************************)
(* Independent verification of an executed transaction: the verdict engine *)
(* (src/cargomesh/verification/engine.py), the append-only receipt store   *)
(* (store.py) and the verify activity that collects, stores and evaluates  *)
(* (activities.py), which Temporal may run again after it failed, timed    *)
(* out or lost its worker.                                                 *)
(*                                                                         *)
(* An observation is its own content digest: two observations are equal    *)
(* exactly when their digests are.  A definition XFault stands before X:   *)
(* X with the mistake its comment names, kept to see that it is noticed.   *)
(***************************************************************************)
EXTENDS Naturals, Sequences, SequencesExt, FiniteSets

CONSTANTS
  Txns,            \* transactions, with their tenant
  Claims,          \* claim names
  Fold,            \* casefold of a claim value
  MaxAge,          \* max_evidence_age_seconds
  Skew,            \* future_clock_skew_seconds
  MaxAttempts,     \* attempts of the verify activity
  MaxTime,         \* bound on the clock
  None

ASSUME VerificationAssumption ==
  MaxAge \in Nat \ {0} /\ Skew \in Nat /\ MaxAttempts \in Nat \ {0} /\ MaxTime \in Nat

ASSUME VerificationNone ==
  None \notin {"evidence_identity_mismatch", "evidence_from_future", "evidence_stale",
               "evidence_expired"}

VARIABLES
  clock,
  receipts,        \* table evidence_receipts
  verifying,       \* the verify activity of each transaction
  reports          \* the VerificationReport of each transaction

verificationVars == <<clock, receipts, verifying, reports>>

Values == DOMAIN Fold

(* A plan names its collectors in order, the level it requires and the      *)
(* claims it compares; a rule whose expected value cannot be resolved in    *)
(* the execution document expects None.                                     *)
ValidPlan(plan) ==
  /\ plan.level \in 1..3
  /\ Len(plan.collectors) > 0
  /\ plan.rules # {}
  /\ \A r, s \in plan.rules : r.claim = s.claim => r = s

(* validate_lifetime_and_digest                                             *)
ValidObservation(o) == o.expires # None => o.expires > o.observed

VerificationInit ==
  /\ clock = 0
  /\ receipts = {}
  /\ verifying = [t \in Txns |-> None]
  /\ reports = [t \in Txns |-> None]

-----------------------------------------------------------------------------
(* The engine.                                                              *)

(* Why an observation is left out of the evaluation, None if it is not.     *)
Discarded(o, t, at) ==
  IF o.txn # t THEN "evidence_identity_mismatch"
  ELSE IF o.observed > at + Skew THEN "evidence_from_future"
  ELSE IF at > o.observed + MaxAge THEN "evidence_stale"
  ELSE IF o.expires # None /\ o.expires <= at THEN "evidence_expired"
  ELSE None

(* Collected by another collector, in another collection, than any source   *)
(* of the execution.                                                        *)
LevelOne(obs, sources) ==
  {o \in obs : \A s \in sources : o.collector # s.adapter /\ o.collection # s.collection}

LevelTwo(obs, sources) ==
  {o \in LevelOne(obs, sources) : \A s \in sources : o.system # s.system}

(* _independence_level                                                      *)
IndependenceLevel(obs, sources) ==
  LET two == LevelTwo(obs, sources) IN
  IF sources = {} \/ LevelOne(obs, sources) = {} THEN [level |-> 0, independent |-> {}]
  ELSE IF two = {} THEN [level |-> 1, independent |-> LevelOne(obs, sources)]
  ELSE [level |-> IF Cardinality({o.system : o \in two}) >= 2
                       /\ Cardinality({o.channel : o \in two}) >= 2 THEN 3 ELSE 2,
        independent |-> two]

(* _normalized_key                                                          *)
NormalizedKey(value, rule) == IF rule.casefold THEN Fold[value] ELSE value

Observed(rule, obs) ==
  {NormalizedKey(o.claims[rule.claim], rule) : o \in {p \in obs : rule.claim \in DOMAIN p.claims}}

(* Fault: one observation that matches is enough, whatever others say.      *)
ClaimOutcomeFault(rule, obs) ==
  LET keys == Observed(rule, obs) IN
  CASE rule.expected = None -> "UNAVAILABLE"
    [] rule.expected # None /\ keys = {} -> "MISSING"
    [] rule.expected # None /\ keys # {} ->
         IF NormalizedKey(rule.expected, rule) \in keys THEN "MATCH" ELSE "MISMATCH"

(* The outcome of one claim rule over the independent observations.         *)
ClaimOutcome(rule, obs) ==
  LET keys == Observed(rule, obs) IN
  CASE rule.expected = None -> "UNAVAILABLE"
    [] rule.expected # None /\ keys = {} -> "MISSING"
    [] rule.expected # None /\ Cardinality(keys) > 1 -> "CONFLICT"
    [] rule.expected # None /\ Cardinality(keys) = 1 ->
         IF keys = {NormalizedKey(rule.expected, rule)} THEN "MATCH" ELSE "MISMATCH"

(* evaluate_verification                                                    *)
EvaluateVerification(t, plan, sources, obs, at) ==
  LET fresh == {o \in obs : Discarded(o, t, at) = None}
      found == IndependenceLevel(fresh, sources)
      outcomes == {ClaimOutcome(r, found.independent) : r \in plan.rules}
      halting == \/ \E o \in obs : Discarded(o, t, at) # None
                 \/ found.level < plan.level
                 \/ outcomes \cap {"MISSING", "UNAVAILABLE"} # {}
      verdict == IF halting THEN "HALTED"
                 ELSE IF outcomes \cap {"CONFLICT", "MISMATCH"} # {} THEN "NEEDS_REVIEW"
                 ELSE "VERIFIED"
  IN [verdict |-> verdict, level |-> found.level, outcomes |-> outcomes, at |-> at,
      evidence |-> {o \in obs : o.txn = t}]

(* validate_report: a report that does not support its verdict is refused.  *)
ValidReport(report, plan) ==
  /\ report.verdict = "VERIFIED" =>
       report.level >= plan.level /\ report.outcomes = {"MATCH"} /\ report.evidence # {}
  /\ report.verdict = "NEEDS_REVIEW" => report.outcomes \cap {"CONFLICT", "MISMATCH"} # {}

-----------------------------------------------------------------------------
(* The store.                                                               *)

ReceiptsWith(o) == {p \in receipts : p.txn = o.txn /\ p.id = o.id}

(* append, of new content or of the content that is stored already.         *)
AppendReceipt(o) == receipts' = receipts \cup {o}

(* Fault: a replayed evidence id is accepted whatever it says.              *)
ConflictsFault(o) == FALSE

(* EvidenceConflict                                                         *)
Conflicts(o) == \E p \in ReceiptsWith(o) : p # o

-----------------------------------------------------------------------------
(* The activity.                                                            *)

(* The workflow invokes the activity after the last step of the plan.       *)
StartVerification(t, plan, sources) ==
  /\ verifying[t] = None
  /\ ValidPlan(plan)
  /\ verifying' = [verifying EXCEPT ![t] =
       [plan |-> plan, sources |-> sources, attempt |-> 1, left |-> plan.collectors,
        got |-> {}, failure |-> None]]
  /\ UNCHANGED <<clock, receipts, reports>>

Running(t) == verifying[t] # None /\ verifying[t].failure = None /\ reports[t] = None

(* What Temporal does with an activity attempt that failed: another attempt *)
(* starts over, unless the error is not retryable or it was the last one.   *)
AfterFailure(t, code, retryable) ==
  LET v == verifying[t] IN
  verifying' = [verifying EXCEPT ![t] =
    IF retryable /\ v.attempt < MaxAttempts
      THEN [v EXCEPT !.attempt = @ + 1, !.left = v.plan.collectors, !.got = {}]
      ELSE [v EXCEPT !.failure = code]]

(* The next collector raises.                                               *)
CollectFails(t, code, retryable) ==
  /\ Running(t) /\ verifying[t].left # << >>
  /\ AfterFailure(t, code, retryable)
  /\ UNCHANGED <<clock, receipts, reports>>

(* The next collector answers: the observation is checked, stored and kept. *)
CollectAnswers(t, o) ==
  /\ Running(t) /\ verifying[t].left # << >>
  /\ ValidObservation(o)
  /\ IF o.txn # t
       THEN AfterFailure(t, "evidence_identity_mismatch", FALSE) /\ UNCHANGED receipts
     ELSE IF Conflicts(o)
       THEN AfterFailure(t, "evidence_conflict", FALSE) /\ UNCHANGED receipts
     ELSE /\ AppendReceipt(o)
          /\ verifying' = [verifying EXCEPT ![t] =
               [verifying[t] EXCEPT !.left = Tail(@), !.got = @ \cup {o}]]
  /\ UNCHANGED <<clock, reports>>

(* The store cannot be used: not retryable.                                 *)
StoreFails(t) ==
  /\ Running(t) /\ verifying[t].left # << >>
  /\ AfterFailure(t, "receipt_store_unavailable", FALSE)
  /\ UNCHANGED <<clock, receipts, reports>>

(* The worker is lost, or the attempt takes too long, at any point: what it *)
(* stored stays.                                                            *)
AttemptLost(t) ==
  /\ Running(t)
  /\ AfterFailure(t, "activity_timeout", TRUE)
  /\ UNCHANGED <<clock, receipts, reports>>

(* The evaluation; the report model accepts every report the engine makes,  *)
(* so that building it never raises.                                        *)
Evaluate(t) ==
  LET v == verifying[t]
      report == EvaluateVerification(t, v.plan, v.sources, v.got, clock)
  IN
  /\ Running(t) /\ v.left = << >>
  /\ ValidReport(report, v.plan)
  /\ reports' = [reports EXCEPT ![t] = report]
  /\ UNCHANGED <<clock, receipts, verifying>>

(* What may happen to one transaction's verification, whichever plans it is *)
(* started with and whatever its collectors answer.                         *)
VerificationOf(t, plans, sourceSets, observations, codes) ==
  \/ \E plan \in plans, sources \in sourceSets : StartVerification(t, plan, sources)
  \/ \E o \in observations : CollectAnswers(t, o)
  \/ \E code \in codes, retryable \in BOOLEAN : CollectFails(t, code, retryable)
  \/ StoreFails(t)
  \/ AttemptLost(t)
  \/ Evaluate(t)

Tick ==
  /\ clock < MaxTime
  /\ clock' = clock + 1
  /\ UNCHANGED <<receipts, verifying, reports>>

-----------------------------------------------------------------------------
(* The evidence of a report that speaks for its transaction: stored, in     *)
(* time when the report was made, and not of the adapter that acted; and    *)
(* that part of it that comes from another system than any source.          *)
GoodEvidence(t) ==
  {o \in receipts \cap reports[t].evidence :
     /\ o.txn = t
     /\ reports[t].at <= o.observed + MaxAge
     /\ o.observed <= reports[t].at + Skew
     /\ o.expires # None => reports[t].at < o.expires
     /\ \A s \in verifying[t].sources : o.collector # s.adapter /\ o.collection # s.collection}

ApartEvidence(t) ==
  {o \in GoodEvidence(t) : o.system \notin {s.system : s \in verifying[t].sources}}

(* An observation says what a rule expects.                                 *)
Confirms(o, rule) ==
  /\ rule.claim \in DOMAIN o.claims
  /\ \/ o.claims[rule.claim] = rule.expected
     \/ rule.casefold /\ Fold[o.claims[rule.claim]] = Fold[rule.expected]

(* Some observation says what a rule expects, and none says otherwise.      *)
Establish(obs, rule) ==
  /\ \E o \in obs : Confirms(o, rule)
  /\ \A o \in obs : rule.claim \in DOMAIN o.claims => Confirms(o, rule)

(* A transaction is VERIFIED only on the strength of receipts that are      *)
(* stored, that were taken within MaxAge and by someone other than the      *)
(* adapter that acted, that reach the level its plan asks for, and that     *)
(* establish every claim without contradicting each other:                  *)
(* evaluate_verification after any number of lost and repeated attempts,    *)
(* over evidence of other transactions, other sources and other times.      *)
VerifiedOnEvidence ==
  \A t \in Txns :
    reports[t] # None /\ reports[t].verdict = "VERIFIED" =>
      LET plan == verifying[t].plan
          used == IF ApartEvidence(t) = {} THEN GoodEvidence(t) ELSE ApartEvidence(t)
      IN /\ verifying[t].sources # {}
         /\ \A r \in plan.rules : Establish(used, r)
         /\ plan.level >= 2 => ApartEvidence(t) # {}
         /\ plan.level = 3 => \E o, p \in ApartEvidence(t) : o.system # p.system
         /\ plan.level = 3 => \E o, p \in ApartEvidence(t) : o.channel # p.channel

(* An evidence id stands for one content, although every attempt, and every *)
(* collector of the same record, appends what it saw itself.                *)
OneContentPerEvidence ==
  \A o, p \in receipts : o.txn = p.txn /\ o.id = p.id => o = p

=============================================================================
