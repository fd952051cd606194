---------------------------- MODULE Booking_proofs ----------------------------
(***************************************************************************)
(* What verification and booking promise, for any number of transactions,  *)
(* any sharing of external references, any inputs, plans and evidence, and *)
(* any loss or delay of messages.                                          *)
(*                                                                         *)
(* Verification: the observations an attempt has kept are stored, fresh or *)
(* halting, and about its own transaction, and a report is what the engine *)
(* makes of exactly these.  Booking: there is one POST per transaction, so *)
(* where it is - not sent, on the wire, answered, lost - tells what the    *)
(* carrier can have done.                                                  *)
(***************************************************************************)
EXTENDS Booking, FiniteSetTheorems, TLAPS

-----------------------------------------------------------------------------
(* Verification.                                                            *)

(* An observation with its times.                                           *)
Timed(o) == o.observed \in Nat /\ (o.expires = None \/ o.expires \in Nat)

(* The fields of a running activity.                                        *)
Fields == {"plan", "sources", "attempt", "left", "got", "failure"}

(* What an attempt holds is stored, finite and about its transaction.       *)
Collected(t) ==
  verifying[t] # None =>
    /\ DOMAIN verifying[t] = Fields
    /\ ValidPlan(verifying[t].plan)
    /\ IsFiniteSet(verifying[t].got)
    /\ \A o \in verifying[t].got : o \in receipts /\ o.txn = t /\ Timed(o)

(* A report is the evaluation of what the activity held, and stays so.      *)
Reported(t) ==
  reports[t] # None =>
    /\ verifying[t] # None
    /\ reports[t].at \in Nat
    /\ reports[t] = EvaluateVerification(t, verifying[t].plan, verifying[t].sources,
                                         verifying[t].got, reports[t].at)

EvidenceInv ==
  /\ clock \in Nat
  /\ DOMAIN verifying = Txns /\ DOMAIN reports = Txns
  /\ \A t \in Txns : Collected(t) /\ Reported(t)

(* The evidence GoodEvidence and ApartEvidence select, of the observations  *)
(* an attempt holds.                                                        *)
GoodOf(sources, obs, at) ==
  {o \in obs :
     /\ at <= o.observed + MaxAge
     /\ o.observed <= at + Skew
     /\ o.expires # None => at < o.expires
     /\ \A s \in sources : o.collector # s.adapter /\ o.collection # s.collection}

ApartOf(sources, obs, at) ==
  {o \in GoodOf(sources, obs, at) : o.system \notin {s.system : s \in sources}}

(* The conclusion of VerifiedOnEvidence over the observations of an attempt. *)
Supported(plan, sources, good, apart) ==
  /\ sources # {}
  /\ \A r \in plan.rules : Establish(IF apart = {} THEN good ELSE apart, r)
  /\ plan.level >= 2 => apart # {}
  /\ plan.level = 3 => \E o, p \in apart : o.system # p.system
  /\ plan.level = 3 => \E o, p \in apart : o.channel # p.channel

(* An observation that is not discarded is in time.                         *)
LEMMA KeptIsFresh ==
  ASSUME NEW o, Timed(o), NEW t, NEW at \in Nat, Discarded(o, t, at) = None
  PROVE  /\ at <= o.observed + MaxAge
         /\ o.observed <= at + Skew
         /\ o.expires # None => at < o.expires
<1>1. /\ ~(o.observed > at + Skew) /\ ~(at > o.observed + MaxAge)
      /\ ~(o.expires # None /\ o.expires <= at)
  BY VerificationNone DEF Discarded
<1> QED BY <1>1, VerificationAssumption DEF Timed

(* A claim that matches was observed with the expected value and no other.  *)
LEMMA MatchIsObserved ==
  ASSUME NEW rule, NEW obs, IsFiniteSet(obs),
         ClaimOutcome(rule, obs) \notin {"MISSING", "UNAVAILABLE", "CONFLICT", "MISMATCH"}
  PROVE  Establish(obs, rule)
<1> DEFINE with == {p \in obs : rule.claim \in DOMAIN p.claims}
           keys == {NormalizedKey(o.claims[rule.claim], rule) : o \in with}
<1>1. IsFiniteSet(with)
  BY FS_Subset
<1>2. IsFiniteSet(keys)
  <2> DEFINE f == [o \in with |-> NormalizedKey(o.claims[rule.claim], rule)]
  <2>1. f \in Surjection(with, keys)
    BY DEF Surjection
  <2> HIDE DEF f, with, keys
  <2> QED BY <1>1, <2>1, FS_Surjection
<1>3. Cardinality(keys) \in Nat /\ (Cardinality(keys) = 0 <=> keys = {})
  BY <1>2, FS_CardinalityType, FS_EmptySet
<1>4. keys = {NormalizedKey(rule.expected, rule)}
  BY <1>3 DEF ClaimOutcome, Observed
<1>5. PICK o \in with : NormalizedKey(o.claims[rule.claim], rule) = NormalizedKey(rule.expected, rule)
  BY <1>4
<1>6. ASSUME NEW p \in with PROVE Confirms(p, rule)
  <2>1. NormalizedKey(p.claims[rule.claim], rule) = NormalizedKey(rule.expected, rule)
    BY <1>4
  <2> QED BY <2>1 DEF NormalizedKey, Confirms
<1> QED BY <1>5, <1>6 DEF Establish

(* Two values among the observations need two observations.                 *)
LEMMA TwoValues ==
  ASSUME NEW S, NEW v, v \in [S -> {v[o] : o \in S}], Cardinality({v[o] : o \in S}) >= 2
  PROVE  \E o, p \in S : v[o] # v[p]
<1> SUFFICES ASSUME \A o, p \in S : v[o] = v[p] PROVE FALSE
  OBVIOUS
<1> DEFINE T == {v[o] : o \in S}
<1>1. T = {} \/ \E x : T = {x}
  <2>1. CASE S = {}
    BY <2>1
  <2>2. CASE S # {}
    <3>1. PICK o \in S : TRUE
      BY <2>2
    <3>2. T = {v[o]}
      BY <3>1
    <3> QED BY <3>2
  <2> QED BY <2>1, <2>2
<1>2. Cardinality(T) \in {0, 1}
  <2> HIDE DEF T
  <2> QED BY <1>1, FS_EmptySet, FS_Singleton
<1> QED BY <1>2

(* The engine verifies only what the evidence supports.                     *)
LEMMA VerdictSupported ==
  ASSUME NEW t, NEW plan, ValidPlan(plan), NEW sources, NEW obs, IsFiniteSet(obs),
         \A o \in obs : o.txn = t /\ Timed(o), NEW at \in Nat,
         EvaluateVerification(t, plan, sources, obs, at).verdict = "VERIFIED"
  PROVE  Supported(plan, sources, GoodOf(sources, obs, at), ApartOf(sources, obs, at))
<1> DEFINE fresh == {o \in obs : Discarded(o, t, at) = None}
           found == IndependenceLevel(fresh, sources)
           good == GoodOf(sources, obs, at)
           apart == ApartOf(sources, obs, at)
<1>1. /\ \A o \in obs : Discarded(o, t, at) = None
      /\ ~(found.level < plan.level)
      /\ \A r \in plan.rules : ClaimOutcome(r, found.independent)
                                 \notin {"MISSING", "UNAVAILABLE", "CONFLICT", "MISMATCH"}
  BY DEF EvaluateVerification
<1>2. fresh = obs
  BY <1>1
<1>3. LevelOne(fresh, sources) = good
  BY <1>1, <1>2, KeptIsFresh DEF LevelOne, GoodOf
<1>4. LevelTwo(fresh, sources) = apart
  BY <1>3 DEF LevelTwo, ApartOf
<1>5. plan.level \in 1..3
  BY DEF ValidPlan
<1> DEFINE systems == {o.system : o \in apart}
           channels == {o.channel : o \in apart}
<1>6. found = IF sources = {} \/ good = {} THEN [level |-> 0, independent |-> {}]
              ELSE IF apart = {} THEN [level |-> 1, independent |-> good]
              ELSE [level |-> IF Cardinality(systems) >= 2 /\ Cardinality(channels) >= 2
                              THEN 3 ELSE 2,
                    independent |-> apart]
  BY <1>3, <1>4 DEF IndependenceLevel
<1>7. IsFiniteSet(good) /\ IsFiniteSet(apart)
  <2>1. good \subseteq obs /\ apart \subseteq obs
    BY DEF GoodOf, ApartOf
  <2> QED BY <2>1, FS_Subset
<1> HIDE DEF fresh, found, good, apart, systems, channels
<1>8. /\ sources # {} /\ good # {}
      /\ found.independent = IF apart = {} THEN good ELSE apart
      /\ plan.level >= 2 => apart # {}
      /\ plan.level = 3 => Cardinality(systems) >= 2 /\ Cardinality(channels) >= 2
  BY <1>1, <1>5, <1>6
<1>9. ASSUME NEW r \in plan.rules
      PROVE  Establish(IF apart = {} THEN good ELSE apart, r)
  BY <1>1, <1>7, <1>8, MatchIsObserved
<1>10. plan.level = 3 => \E o, p \in apart : o.system # p.system
  <2> SUFFICES ASSUME plan.level = 3 PROVE \E o, p \in apart : o.system # p.system
    OBVIOUS
  <2> DEFINE v == [o \in apart |-> o.system]
  <2>1. systems = {v[o] : o \in apart}
    BY DEF systems
  <2>2. v \in [apart -> {v[o] : o \in apart}]
    OBVIOUS
  <2>3. \E o, p \in apart : v[o] # v[p]
    <3> HIDE DEF v
    <3> QED BY <1>8, <2>1, <2>2, TwoValues
  <2> QED BY <2>3
<1>11. plan.level = 3 => \E o, p \in apart : o.channel # p.channel
  <2> SUFFICES ASSUME plan.level = 3 PROVE \E o, p \in apart : o.channel # p.channel
    OBVIOUS
  <2> DEFINE v == [o \in apart |-> o.channel]
  <2>1. channels = {v[o] : o \in apart}
    BY DEF channels
  <2>2. v \in [apart -> {v[o] : o \in apart}]
    OBVIOUS
  <2>3. \E o, p \in apart : v[o] # v[p]
    <3> HIDE DEF v
    <3> QED BY <1>8, <2>1, <2>2, TwoValues
  <2> QED BY <2>3
<1> QED
  BY <1>8, <1>9, <1>10, <1>11 DEF Supported, good, apart

(* A failed attempt keeps what it holds, or starts over with nothing.       *)
LEMMA AfterFailureKeeps ==
  ASSUME EvidenceInv, NEW t \in Txns, Running(t), NEW code, NEW retryable,
         AfterFailure(t, code, retryable), UNCHANGED <<clock, receipts, reports>>
  PROVE  EvidenceInv'
<1> DEFINE v == verifying[t]
           again == [v EXCEPT !.attempt = @ + 1, !.left = v.plan.collectors, !.got = {}]
           over == [v EXCEPT !.failure = code]
<1>1. v # None /\ reports[t] = None
  BY DEF Running
<1>2. /\ DOMAIN v = Fields /\ ValidPlan(v.plan) /\ IsFiniteSet(v.got)
      /\ \A o \in v.got : o \in receipts /\ o.txn = t /\ Timed(o)
  BY <1>1 DEF EvidenceInv, Collected
<1>3. /\ DOMAIN again = Fields /\ again.plan = v.plan /\ again.got = {}
      /\ DOMAIN over = Fields /\ over.plan = v.plan /\ over.got = v.got
  BY <1>2 DEF Fields
<1>4. DOMAIN verifying' = Txns /\ verifying'[t] \in {again, over}
      /\ \A u \in Txns : u # t => verifying'[u] = verifying[u]
  BY DEF AfterFailure, EvidenceInv
<1>5. /\ DOMAIN verifying'[t] = Fields /\ ValidPlan(verifying'[t].plan) /\ IsFiniteSet(verifying'[t].got)
      /\ \A o \in verifying'[t].got : o \in receipts /\ o.txn = t /\ Timed(o)
  <2>1. CASE verifying'[t] = again
    BY <1>2, <1>3, <2>1, FS_EmptySet
  <2>2. CASE verifying'[t] = over
    BY <1>2, <1>3, <2>2
  <2> QED BY <1>4, <2>1, <2>2
<1> HIDE DEF v, again, over
<1>6. ASSUME NEW u \in Txns PROVE Collected(u)' /\ Reported(u)'
  <2>1. CASE u = t
    BY <1>1, <1>5, <2>1 DEF Collected, Reported
  <2>2. CASE u # t
    BY <1>4, <2>2 DEF EvidenceInv, Collected, Reported
  <2> QED BY <2>1, <2>2
<1> QED BY <1>4, <1>6 DEF EvidenceInv

(* Every step of a verification keeps evidence and reports together.        *)
LEMMA EvidenceStep ==
  ASSUME EvidenceInv, NEW t \in Txns, NEW plans, NEW sourceSets, NEW observations, NEW codes,
         \A o \in observations : Timed(o),
         VerificationOf(t, plans, sourceSets, observations, codes)
  PROVE  EvidenceInv'
<1>1. ASSUME NEW plan \in plans, NEW sources \in sourceSets, StartVerification(t, plan, sources)
      PROVE  EvidenceInv'
  <2> DEFINE new == [plan |-> plan, sources |-> sources, attempt |-> 1, left |-> plan.collectors,
                     got |-> {}, failure |-> None]
  <2>1. DOMAIN verifying' = Txns /\ verifying'[t] = new
        /\ \A u \in Txns : u # t => verifying'[u] = verifying[u]
    BY <1>1 DEF StartVerification, EvidenceInv
  <2>2. UNCHANGED <<clock, receipts, reports>> /\ ValidPlan(plan) /\ verifying[t] = None
    BY <1>1 DEF StartVerification
  <2>3. DOMAIN new = Fields /\ new.plan = plan /\ new.got = {}
    BY DEF Fields
  <2> HIDE DEF new
  <2>4. ASSUME NEW u \in Txns PROVE Collected(u)' /\ Reported(u)'
    <3>1. CASE u = t
      BY <2>1, <2>2, <2>3, <3>1, FS_EmptySet DEF EvidenceInv, Collected, Reported
    <3>2. CASE u # t
      BY <2>1, <2>2, <3>2 DEF EvidenceInv, Collected, Reported
    <3> QED BY <3>1, <3>2
  <2> QED BY <2>1, <2>2, <2>4 DEF EvidenceInv
<1>2. ASSUME NEW o \in observations, CollectAnswers(t, o) PROVE EvidenceInv'
  <2>1. Running(t) /\ UNCHANGED <<clock, reports>>
    BY <1>2 DEF CollectAnswers
  <2>2. CASE \E code : AfterFailure(t, code, FALSE) /\ UNCHANGED receipts
    BY <2>1, <2>2, AfterFailureKeeps
  <2>3. CASE /\ o.txn = t /\ AppendReceipt(o)
             /\ verifying' = [verifying EXCEPT ![t] =
                              [verifying[t] EXCEPT !.left = Tail(@), !.got = @ \cup {o}]]
    <3> DEFINE v == verifying[t]
               more == [v EXCEPT !.left = Tail(@), !.got = @ \cup {o}]
    <3>1. v # None /\ reports[t] = None
      BY <2>1 DEF Running
    <3>2. /\ DOMAIN v = Fields /\ ValidPlan(v.plan) /\ IsFiniteSet(v.got)
          /\ \A p \in v.got : p \in receipts /\ p.txn = t /\ Timed(p)
      BY <3>1 DEF EvidenceInv, Collected
    <3>4. DOMAIN verifying' = Txns /\ verifying'[t] = more
          /\ \A u \in Txns : u # t => verifying'[u] = verifying[u]
      BY <2>3 DEF EvidenceInv
    <3>5. IsFiniteSet(v.got \cup {o})
      BY <3>2, FS_AddElement
    <3>6. DOMAIN more = Fields /\ more.plan = v.plan /\ more.got = v.got \cup {o}
      BY <3>2 DEF Fields
    <3>7. receipts' = receipts \cup {o} /\ Timed(o)
      BY <2>3 DEF AppendReceipt
    <3> HIDE DEF v, more
    <3>8. ASSUME NEW u \in Txns PROVE Collected(u)' /\ Reported(u)'
      <4>1. CASE u = t
        BY <2>1, <2>3, <3>1, <3>2, <3>4, <3>5, <3>6, <3>7, <4>1 DEF Collected, Reported
      <4>2. CASE u # t
        BY <2>1, <3>4, <3>7, <4>2 DEF EvidenceInv, Collected, Reported
      <4> QED BY <4>1, <4>2
    <3> QED BY <2>1, <3>4, <3>8 DEF EvidenceInv
  <2> QED BY <1>2, <2>2, <2>3 DEF CollectAnswers
<1>3. ASSUME NEW code, NEW retryable, CollectFails(t, code, retryable) PROVE EvidenceInv'
  BY <1>3, AfterFailureKeeps DEF CollectFails
<1>4. CASE StoreFails(t) \/ AttemptLost(t)
  BY <1>4, AfterFailureKeeps DEF StoreFails, AttemptLost
<1>5. CASE Evaluate(t)
  <2> DEFINE report == EvaluateVerification(t, verifying[t].plan, verifying[t].sources,
                                            verifying[t].got, clock)
  <2>1. /\ verifying[t] # None /\ UNCHANGED <<clock, receipts, verifying>>
        /\ DOMAIN reports' = Txns /\ reports'[t] = report
        /\ \A u \in Txns : u # t => reports'[u] = reports[u]
    BY <1>5 DEF Evaluate, Running, EvidenceInv
  <2>2. report.at = clock
    BY DEF EvaluateVerification
  <2> HIDE DEF report
  <2>3. ASSUME NEW u \in Txns PROVE Collected(u)' /\ Reported(u)'
    <3>1. CASE u = t
      BY <2>1, <2>2, <3>1 DEF EvidenceInv, Collected, Reported, report
    <3>2. CASE u # t
      BY <2>1, <3>2 DEF EvidenceInv, Collected, Reported
    <3> QED BY <3>1, <3>2
  <2> QED BY <2>1, <2>3 DEF EvidenceInv
<1> QED
  BY <1>1, <1>2, <1>3, <1>4, <1>5 DEF VerificationOf

(* Time passing changes neither evidence nor reports.                       *)
LEMMA EvidenceTick ==
  ASSUME EvidenceInv, Tick \/ UNCHANGED verificationVars
  PROVE  EvidenceInv'
<1>1. clock' \in Nat /\ UNCHANGED <<receipts, verifying, reports>>
  BY DEF EvidenceInv, Tick, verificationVars
<1>2. ASSUME NEW u \in Txns PROVE Collected(u)' /\ Reported(u)'
  BY <1>1 DEF EvidenceInv, Collected, Reported
<1> QED BY <1>1, <1>2 DEF EvidenceInv

(* A VERIFIED report has the evidence the property asks for.                *)
LEMMA EvidenceSuffices == EvidenceInv => VerifiedOnEvidence
<1> SUFFICES ASSUME EvidenceInv, NEW t \in Txns, reports[t] # None, reports[t].verdict = "VERIFIED"
             PROVE  Supported(verifying[t].plan, verifying[t].sources, GoodEvidence(t),
                              ApartEvidence(t))
  BY DEF VerifiedOnEvidence, Supported
<1> DEFINE v == verifying[t]
           at == reports[t].at
<1>1. /\ v # None /\ at \in Nat
      /\ reports[t] = EvaluateVerification(t, v.plan, v.sources, v.got, at)
  BY DEF EvidenceInv, Reported
<1>2. /\ ValidPlan(v.plan) /\ IsFiniteSet(v.got)
      /\ \A o \in v.got : o \in receipts /\ o.txn = t /\ Timed(o)
  BY <1>1 DEF EvidenceInv, Collected
<1>3. Supported(v.plan, v.sources, GoodOf(v.sources, v.got, at), ApartOf(v.sources, v.got, at))
  BY <1>1, <1>2, VerdictSupported
<1>4. reports[t].evidence = {o \in v.got : o.txn = t}
  BY <1>1 DEF EvaluateVerification
<1>5. receipts \cap reports[t].evidence = v.got
  BY <1>2, <1>4
<1>6. GoodEvidence(t) = GoodOf(v.sources, v.got, at)
  BY <1>2, <1>5 DEF GoodOf, GoodEvidence
<1>7. ApartEvidence(t) = ApartOf(v.sources, v.got, at)
  BY <1>6 DEF ApartOf, ApartEvidence
<1> QED
  BY <1>3, <1>6, <1>7

(* The behaviours of the verify activities alone, over any plans, sources,  *)
(* observations and error codes.                                            *)
VerificationSteps(plans, sourceSets, observations, codes) ==
  (\E t \in Txns : VerificationOf(t, plans, sourceSets, observations, codes)) \/ Tick

(* Every verification, whatever its plan and collectors, reports VERIFIED   *)
(* only on stored, fresh and independent evidence that confirms every       *)
(* claim: activities.py over engine.py and store.py, with attempts lost and *)
(* repeated at any point.                                                   *)
THEOREM VerdictsRestOnEvidence ==
  ASSUME NEW CONSTANT plans, NEW CONSTANT sourceSets, NEW CONSTANT observations,
         NEW CONSTANT codes, \A o \in observations : Timed(o)
  PROVE  VerificationInit
           /\ [][VerificationSteps(plans, sourceSets, observations, codes)]_verificationVars
         => []VerifiedOnEvidence
<1>1. VerificationInit => EvidenceInv
  BY DEF VerificationInit, EvidenceInv, Collected, Reported
<1>2. EvidenceInv /\ [VerificationSteps(plans, sourceSets, observations, codes)]_verificationVars
        => EvidenceInv'
  BY EvidenceStep, EvidenceTick DEF VerificationSteps
<1>3. EvidenceInv => VerifiedOnEvidence
  BY EvidenceSuffices
<1> QED BY <1>1, <1>2, <1>3, PTL

(* Every append to the receipts is of new content for its id.               *)
LEMMA ReceiptsStep ==
  ASSUME OneContentPerEvidence, NEW t, NEW plans, NEW sourceSets, NEW observations, NEW codes,
         VerificationOf(t, plans, sourceSets, observations, codes)
  PROVE  OneContentPerEvidence'
<1>1. \/ UNCHANGED receipts
      \/ \E o : ~Conflicts(o) /\ receipts' = receipts \cup {o}
  BY DEF VerificationOf, StartVerification, CollectAnswers, CollectFails, StoreFails, AttemptLost,
         Evaluate, AppendReceipt
<1> QED
  BY <1>1 DEF OneContentPerEvidence, Conflicts, ReceiptsWith

(* An evidence id has one content for good, whichever collectors and        *)
(* attempts append under it: store.py's digest comparison.                  *)
THEOREM EvidenceIsImmutable ==
  ASSUME NEW CONSTANT plans, NEW CONSTANT sourceSets, NEW CONSTANT observations,
         NEW CONSTANT codes
  PROVE  VerificationInit
           /\ [][VerificationSteps(plans, sourceSets, observations, codes)]_verificationVars
         => []OneContentPerEvidence
<1>1. VerificationInit => OneContentPerEvidence
  BY DEF VerificationInit, OneContentPerEvidence
<1>2. OneContentPerEvidence
        /\ [VerificationSteps(plans, sourceSets, observations, codes)]_verificationVars
        => OneContentPerEvidence'
  <2>1. Tick \/ UNCHANGED verificationVars => UNCHANGED receipts
    BY DEF Tick, verificationVars
  <2> QED BY <2>1, ReceiptsStep DEF VerificationSteps, OneContentPerEvidence
<1> QED BY <1>1, <1>2, PTL

-----------------------------------------------------------------------------
(* Booking.                                                                 *)

allVars == <<bookingVars, verificationVars>>

(* Every behaviour of the bookings.                                         *)
BookingBehaviour == BookingInit /\ [][BookingNext]_allVars

HasAnswer(t, method) == answers[t] # None /\ answers[t].method = method

(* The one POST of a transaction: what the carrier can have done follows    *)
(* from where it is, and the submit step's phase follows it.                *)
PostState(t) ==
  /\ call[t].phase \in {"new", "prepared"} =>
       t \notin effects /\ Post(t) \notin wire /\ answers[t] = None
  /\ Post(t) \in wire => t \notin effects /\ ~HasAnswer(t, "POST")
  /\ HasAnswer(t, "POST") /\ answers[t].status = 202 => t \in effects
  /\ HasAnswer(t, "POST") /\ answers[t].status = 400 => t \notin effects
  /\ Patch(t) \in wire => call[t].phase = "ended"
  /\ call[t].phase = "getting" => t \in effects
  /\ call[t].code = "ok" => t \in effects
  /\ call[t].phase = "new" => call[t].code = None
  /\ call[t].code \notin {None, "activity_failed"} => call[t].phase = "ended"
  /\ call[t].code \in DefiniteCodes => t \notin effects /\ Post(t) \notin wire

PostInv ==
  /\ \A t \in Txns : DOMAIN call[t] = {"phase", "code", "input"}
  /\ DOMAIN call = Txns /\ DOMAIN answers = Txns
  /\ effects \subseteq Txns
  /\ \A t \in Txns : PostState(t)

(* A submit that has been prepared has an input with a request, and the     *)
(* rows of the table hold such requests.                                    *)
InputOK(t) == call[t].input \in Inputs /\ MapIrToBooking(call[t].input) # None

RowInv ==
  /\ DOMAIN bookings = Refs
  /\ \A r \in Refs : bookings[r] = None \/ bookings[r] \in BookingRows
  /\ \A t \in Txns : call[t].phase \in {"prepared", "posting", "getting"} => InputOK(t)
  /\ \A t \in Txns : Post(t) \in wire => InputOK(t)
  /\ \A t \in effects : bookings[RefOf[t]] \in BookingRows /\ bookings[RefOf[t]].request = Body(t)

(* A cancellation that was answered, or known to have succeeded, is in the  *)
(* table.                                                                   *)
CancelInv ==
  /\ DOMAIN comp = Txns
  /\ \A t \in Txns :
       \/ HasAnswer(t, "PATCH") /\ answers[t].status = 202
       \/ comp[t] = "ok"
       => bookings[RefOf[t]] \in BookingRows /\ bookings[RefOf[t]].status = "CANCELLED"

(* Leases are held between the preparation and the end of the activity.     *)
LeaseInv ==
  /\ DOMAIN leases = Txns
  /\ \A t \in Txns : call[t].phase \in {"new", "ended"} => leases[t] = {}

(* Only a submit that ended is verified, and only one that succeeded has an *)
(* execution source.                                                        *)
SourceInv ==
  \A t \in Txns :
    verifying[t] # None =>
      /\ call[t].phase = "ended"
      /\ verifying[t].sources # {} => call[t].code = "ok"

(* How the two ways of changing a submit step change it.                    *)
LEMMA EndChanges ==
  ASSUME PostInv, NEW t \in Txns, NEW code, End(t, code)
  PROVE  /\ DOMAIN call' = Txns /\ \A u \in Txns : DOMAIN call'[u] = {"phase", "code", "input"}
         /\ \A u \in Txns \ {t} : call'[u] = call[u]
         /\ call'[t].phase = "ended" /\ call'[t].input = call[t].input
         /\ call'[t].code = IF call[t].code = None THEN code ELSE call[t].code
  BY DEF End, PostInv

(* Moving a call to its next phase touches that call's phase and nothing else. *)
LEMMA MoveChanges ==
  ASSUME PostInv, NEW t \in Txns, NEW phase, Move(t, phase)
  PROVE  /\ DOMAIN call' = Txns /\ \A u \in Txns : DOMAIN call'[u] = {"phase", "code", "input"}
         /\ \A u \in Txns \ {t} : call'[u] = call[u]
         /\ call'[t].phase = phase /\ call'[t].code = call[t].code
         /\ call'[t].input = call[t].input
  BY DEF Move, PostInv

(* A response takes the place of whatever was on its way to the adapter.    *)
LEMMA AnswerChanges ==
  ASSUME PostInv, NEW t \in Txns, NEW method, NEW status, Answer(t, method, status)
  PROVE  /\ DOMAIN answers' = Txns /\ \A u \in Txns \ {t} : answers'[u] = answers[u]
         /\ answers'[t].method = method /\ answers'[t].status = status
  BY DEF Answer, PostInv

(* A timeout of the activity changes what the workflow was told and no more. *)
LEMMA TimeoutChanges ==
  ASSUME PostInv, NEW t \in Txns, ActivityTimesOut(t)
  PROVE  /\ DOMAIN call' = Txns /\ \A u \in Txns : DOMAIN call'[u] = {"phase", "code", "input"}
         /\ \A u \in Txns \ {t} : call'[u] = call[u]
         /\ call'[t].phase = call[t].phase /\ call'[t].code = "activity_failed"
         /\ call'[t].input = call[t].input /\ call[t].code = None
         /\ call[t].phase \in {"prepared", "posting", "getting"}
         /\ UNCHANGED <<bookings, comp, leases, wire, answers, effects, verificationVars>>
  BY DEF ActivityTimesOut, PostInv

(* What a step of one transaction leaves alone of the others.               *)
Elsewhere(t) ==
  /\ DOMAIN call' = Txns /\ DOMAIN answers' = Txns
  /\ \A u \in Txns : DOMAIN call'[u] = {"phase", "code", "input"}
  /\ \A u \in Txns \ {t} :
       /\ call'[u] = call[u] /\ answers'[u] = answers[u]
       /\ Post(u) \in wire' <=> Post(u) \in wire
       /\ Patch(u) \in wire' => Patch(u) \in wire
       /\ u \in effects' <=> u \in effects
  /\ effects' \subseteq Txns

(* The messages of different transactions, and a POST and a PATCH, differ.  *)
LEMMA MessagesDiffer ==
  ASSUME NEW t, NEW u
  PROVE  /\ Post(t) = Post(u) => t = u
         /\ Patch(t) = Patch(u) => t = u
         /\ Post(t) # Patch(u)
         /\ Post(t).txn = t
  BY DEF Post, Patch

(* A step that keeps to transaction t keeps PostInv if t's own POST state holds after it. *)
LEMMA PostElsewhere ==
  ASSUME PostInv, NEW t \in Txns, Elsewhere(t), PostState(t)'
  PROVE  PostInv'
<1>1. ASSUME NEW u \in Txns PROVE PostState(u)'
  <2>1. CASE u = t
    BY <2>1
  <2>2. CASE u # t
    <3>1. PostState(u) /\ call'[u] = call[u] /\ answers'[u] = answers[u]
          /\ (Post(u) \in wire' <=> Post(u) \in wire) /\ (Patch(u) \in wire' => Patch(u) \in wire)
          /\ (u \in effects' <=> u \in effects)
      BY <2>2 DEF Elsewhere, PostInv
    <3>2. Post(u)' = Post(u) /\ Patch(u)' = Patch(u)
      BY DEF Post, Patch
    <3> QED BY <3>1, <3>2 DEF PostState, HasAnswer
  <2> QED BY <2>1, <2>2
<1> QED BY <1>1 DEF PostInv, Elsewhere

(* Every step of a transaction keeps to it, and leaves its POST where its phase says. *)
LEMMA PostStep ==
  ASSUME PostInv, NEW t \in Txns, BookingOf(t)
  PROVE  Elsewhere(t) /\ PostState(t)'
<1>0. /\ PostState(t) /\ DOMAIN call = Txns /\ DOMAIN answers = Txns
      /\ Post(t)' = Post(t) /\ Patch(t)' = Patch(t)
  BY DEF PostInv, Post, Patch
<1>1. ASSUME NEW input, Prepare(t, input) PROVE Elsewhere(t) /\ PostState(t)'
  <2>1. /\ DOMAIN call' = Txns /\ \A u \in Txns : DOMAIN call'[u] = {"phase", "code", "input"}
        /\ \A u \in Txns \ {t} : call'[u] = call[u]
        /\ call'[t].phase \in {"prepared", "ended"}
        /\ call'[t].phase = "prepared" => call'[t].code = None
        /\ call'[t].phase = "ended" => call'[t].code = "booking_schema_rejected"
    BY <1>1 DEF Prepare, PostInv
  <2> QED BY <1>0, <1>1, <2>1, BookingNone
          DEF Prepare, Elsewhere, PostState, HasAnswer, PostInv, DefiniteCodes
<1>2. ASSUME NEW secret, LeaseSecret(t, secret) PROVE Elsewhere(t) /\ PostState(t)'
  BY <1>0, <1>2 DEF LeaseSecret, Elsewhere, PostState, HasAnswer, PostInv
<1>3. CASE ResolveFails(t) \/ \E code \in {"booking_schema_rejected", "booking_credential_unavailable"} :
                                SubmitRefused(t, code)
  <2>1. PICK code : /\ code \notin {None, "ok"} /\ End(t, code)
                    /\ call[t].phase = "prepared"
                    /\ UNCHANGED <<wire, answers, effects>>
    BY <1>3, BookingNone DEF ResolveFails, SubmitRefused, DefiniteCodes
  <2> QED BY <1>0, <2>1, EndChanges DEF Elsewhere, PostState, HasAnswer, PostInv
<1>4. CASE SendPost(t)
  <2>1. /\ \A u \in Txns \ {t} : Post(u) \in wire' <=> Post(u) \in wire
        /\ \A u \in Txns : Patch(u) \in wire' => Patch(u) \in wire
    BY <1>4, MessagesDiffer DEF SendPost
  <2>2. Move(t, "posting") /\ call[t].phase = "prepared" /\ UNCHANGED <<answers, effects>>
    BY <1>4 DEF SendPost
  <2>3. call[t].code \notin DefiniteCodes \cup {"ok"}
    BY <1>0, <2>2, BookingNone DEF PostState, DefiniteCodes
  <2> QED BY <1>0, <2>1, <2>2, <2>3, MoveChanges, BookingNone
          DEF Elsewhere, PostState, HasAnswer, PostInv
<1>5. CASE PostAnswered(t)
  <2>1. /\ DOMAIN answers' = Txns /\ answers'[t] = None
        /\ \A u \in Txns \ {t} : answers'[u] = answers[u]
        /\ HasAnswer(t, "POST") /\ UNCHANGED <<wire, effects>>
        /\ call[t].phase = "posting"
    BY <1>0, <1>5 DEF PostAnswered, HasAnswer
  <2>2. CASE answers[t].status = 202
    <3>1. Move(t, "getting")
      BY <1>5, <2>2 DEF PostAnswered
    <3> QED BY <1>0, <2>1, <2>2, <3>1, MoveChanges, BookingNone
            DEF Elsewhere, PostState, HasAnswer, PostInv
  <2>3. CASE answers[t].status # 202
    <3>1. End(t, PostCode(answers[t].status))
      BY <1>5, <2>3 DEF PostAnswered
    <3>2. PostCode(answers[t].status) # "booking_effect_unknown" => answers[t].status = 400
      BY DEF PostCode
    <3>3. PostCode(answers[t].status) # "ok" /\ "booking_effect_unknown" \notin DefiniteCodes
      BY DEF PostCode, DefiniteCodes
    <3> HIDE DEF PostCode
    <3> QED BY <1>0, <2>1, <3>1, <3>2, <3>3, EndChanges
            DEF Elsewhere, PostState, HasAnswer, PostInv
  <2> QED BY <2>2, <2>3
<1>6. CASE PostTimesOut(t) \/ \E answered \in BOOLEAN : StatusRead(t, answered)
  <2>1. PICK code : /\ End(t, code) /\ code \in {"ok", "booking_effect_unknown"}
                    /\ code = "ok" => t \in effects
                    /\ UNCHANGED <<wire, answers, effects>>
                    /\ call[t].phase \in {"posting", "getting"}
    BY <1>0, <1>6 DEF PostTimesOut, StatusRead, PostState
  <2>2. code \notin DefiniteCodes
    BY <2>1 DEF DefiniteCodes
  <2> QED BY <1>0, <2>1, <2>2, EndChanges DEF Elsewhere, PostState, HasAnswer, PostInv
<1>7. CASE SendCancel(t)
  <2>1. /\ \A u \in Txns : Post(u) \in wire' <=> Post(u) \in wire
        /\ \A u \in Txns \ {t} : Patch(u) \in wire' => Patch(u) \in wire
    BY <1>7, MessagesDiffer DEF SendCancel
  <2>2. call[t].code = "ok" /\ UNCHANGED <<call, answers, effects>>
    BY <1>7 DEF SendCancel
  <2> QED BY <1>0, <2>1, <2>2, BookingNone DEF Elsewhere, PostState, HasAnswer, PostInv
<1>8. CASE CancelAnswered(t) \/ CancelTimesOut(t)
  <2>1. /\ DOMAIN answers' = Txns /\ answers'[t] \in {None, answers[t]}
        /\ \A u \in Txns \ {t} : answers'[u] = answers[u]
        /\ UNCHANGED <<call, wire, effects>>
    BY <1>0, <1>8 DEF CancelAnswered, CancelTimesOut
  <2> QED BY <1>0, <2>1 DEF Elsewhere, PostState, HasAnswer, PostInv
<1>9. ASSUME NEW status, CarrierAccepts(t, status) PROVE Elsewhere(t) /\ PostState(t)'
  <2>1. /\ \A u \in Txns \ {t} : Post(u) \in wire' <=> Post(u) \in wire
        /\ \A u \in Txns : Patch(u) \in wire' => Patch(u) \in wire
    BY <1>9, MessagesDiffer DEF CarrierAccepts
  <2>2. /\ Answer(t, "POST", status) /\ status \in {202, 503} /\ Post(t) \notin wire'
        /\ effects' = effects \cup {t} /\ UNCHANGED call /\ Post(t) \in wire
    BY <1>9 DEF CarrierAccepts
  <2> QED BY <1>0, <2>1, <2>2, AnswerChanges DEF Elsewhere, PostState, HasAnswer, PostInv
<1>10. ASSUME NEW status, CarrierRefuses(t, status) PROVE Elsewhere(t) /\ PostState(t)'
  <2>1. /\ \A u \in Txns \ {t} : Post(u) \in wire' <=> Post(u) \in wire
        /\ \A u \in Txns : Patch(u) \in wire' => Patch(u) \in wire
    BY <1>10, MessagesDiffer DEF CarrierRefuses
  <2>2. /\ Answer(t, "POST", status) /\ status # 202 /\ Post(t) \notin wire'
        /\ UNCHANGED <<call, effects>> /\ Post(t) \in wire
    BY <1>10 DEF CarrierRefuses
  <2> QED BY <1>0, <2>1, <2>2, AnswerChanges DEF Elsewhere, PostState, HasAnswer, PostInv
<1>11. ASSUME NEW status, CarrierCancels(t, status) PROVE Elsewhere(t) /\ PostState(t)'
  <2>1. /\ \A u \in Txns : Post(u) \in wire' <=> Post(u) \in wire
        /\ \A u \in Txns \ {t} : Patch(u) \in wire' => Patch(u) \in wire
    BY <1>11, MessagesDiffer DEF CarrierCancels
  <2>2. Answer(t, "PATCH", status) /\ UNCHANGED <<call, effects>>
        /\ Patch(t) \in wire /\ wire' \subseteq wire
    BY <1>11 DEF CarrierCancels
  <2> QED BY <1>0, <2>1, <2>2, AnswerChanges DEF Elsewhere, PostState, HasAnswer, PostInv
<1>12. CASE MessageLost(t)
  <2>1. /\ \A u \in Txns \ {t} : Post(u) \in wire' <=> Post(u) \in wire
        /\ \A u \in Txns : Patch(u) \in wire' => Patch(u) \in wire
    BY <1>12, MessagesDiffer DEF MessageLost
  <2>2. /\ DOMAIN answers' = Txns /\ answers'[t] \in {None, answers[t]}
        /\ \A u \in Txns \ {t} : answers'[u] = answers[u]
        /\ wire' \subseteq wire /\ UNCHANGED <<call, effects>>
    BY <1>0, <1>12 DEF MessageLost
  <2> QED BY <1>0, <2>1, <2>2 DEF Elsewhere, PostState, HasAnswer, PostInv
<1>13. CASE BookingVerification(t)
  <2>1. UNCHANGED bookingVars
    BY <1>13 DEF BookingVerification, VerifyBooking, LedgerAnswers, LedgerFails, LedgerUnreachable
  <2> QED BY <1>0, <2>1 DEF bookingVars, Elsewhere, PostState, HasAnswer, PostInv
<1>14. CASE AdapterRaises(t) \/ WorkerLost(t)
  <2>1. PICK code : /\ End(t, code) /\ code \in {"activity_failed", "adapter_internal"}
                    /\ UNCHANGED <<wire, answers, effects>> /\ call[t].phase # "ended"
    BY <1>14 DEF AdapterRaises, WorkerLost
  <2>2. code \notin DefiniteCodes \cup {None, "ok"}
    BY <2>1, BookingNone DEF DefiniteCodes
  <2> QED BY <1>0, <2>1, <2>2, EndChanges DEF Elsewhere, PostState, HasAnswer, PostInv
<1>15. CASE ActivityTimesOut(t)
  <2>1. "activity_failed" \notin DefiniteCodes \cup {None, "ok"}
    BY BookingNone DEF DefiniteCodes
  <2> QED BY <1>0, <1>15, <2>1, TimeoutChanges DEF Elsewhere, PostState, HasAnswer, PostInv
<1> QED
  BY <1>1, <1>2, <1>3, <1>4, <1>5, <1>6, <1>7, <1>8, <1>9, <1>10, <1>11, <1>12, <1>13, <1>14, <1>15
  DEF BookingOf

(* Rows are created once; a request never changes and a cancelled row stays *)
(* cancelled.                                                               *)
RowsPersist ==
  /\ DOMAIN bookings' = Refs
  /\ \A r \in Refs :
       /\ bookings'[r] = None \/ bookings'[r] \in BookingRows
       /\ bookings[r] \in BookingRows =>
            /\ bookings'[r] \in BookingRows
            /\ bookings'[r].request = bookings[r].request
            /\ bookings[r].status = "CANCELLED" => bookings'[r].status = "CANCELLED"

(* The input of a submit step is chosen once, and a request on the wire or  *)
(* an active step has one that was accepted.                                *)
InputsPersist ==
  \A u \in Txns :
    /\ call[u].phase # "new" => call'[u].input = call[u].input
    /\ call'[u].phase \in {"prepared", "posting", "getting"} => InputOK(u)'
    /\ Post(u) \in wire' => InputOK(u)'
    /\ call[u].phase = "ended" => call'[u].phase = "ended" /\ call'[u].code = call[u].code

(* No step changes the input of a call that has begun.                      *)
LEMMA InputStep ==
  ASSUME PostInv, RowInv, NEW t \in Txns, BookingOf(t)
  PROVE  InputsPersist
<1> USE DEF InputsPersist, InputOK
<1>0. /\ \A u \in Txns : PostState(u) /\ Post(u)' = Post(u)
      /\ DOMAIN call = Txns
      /\ \A u \in Txns : call[u].phase \in {"prepared", "posting", "getting"} => InputOK(u)
      /\ \A u \in Txns : Post(u) \in wire => InputOK(u)
  BY DEF PostInv, RowInv, Post
<1>1. ASSUME NEW input \in Inputs, Prepare(t, input) PROVE InputsPersist
  <2>1. /\ \A u \in Txns \ {t} : call'[u] = call[u]
        /\ call[t].phase = "new" /\ UNCHANGED wire
        /\ call'[t].input = input
        /\ call'[t].phase = "prepared" => MapIrToBooking(input) # None
        /\ call'[t].phase \in {"prepared", "ended"}
    BY <1>1 DEF Prepare, PostInv
  <2>2. Post(t) \notin wire'
    BY <1>0, <2>1 DEF PostState
  <2> QED BY <1>0, <2>1, <2>2
<1>2. CASE UNCHANGED call /\ wire' \subseteq wire
  BY <1>0, <1>2
<1>3. ASSUME NEW code, End(t, code), UNCHANGED wire,
             call[t].phase # "ended"
      PROVE  InputsPersist
  BY <1>0, <1>3, EndChanges
<1>4. ASSUME NEW phase, Move(t, phase), UNCHANGED wire \/ wire' = wire \cup {Post(t)},
             call[t].phase \in {"prepared", "posting", "getting"}
      PROVE  InputsPersist
  <2>1. \A u \in Txns : Post(u) \in wire' => Post(u) \in wire \/ u = t
    BY <1>4, MessagesDiffer
  <2> QED BY <1>0, <1>4, <2>1, MoveChanges
<1>5. CASE SendCancel(t)
  <2>1. UNCHANGED call /\ \A u \in Txns : Post(u) \in wire' => Post(u) \in wire
    BY <1>5, MessagesDiffer DEF SendCancel
  <2> QED BY <1>0, <2>1
<1>6. ASSUME NEW secret, LeaseSecret(t, secret) PROVE InputsPersist
  BY <1>2, <1>6 DEF LeaseSecret
<1>7. CASE ResolveFails(t)
  BY <1>3, <1>7 DEF ResolveFails
<1>8. ASSUME NEW code, SubmitRefused(t, code) PROVE InputsPersist
  BY <1>3, <1>8 DEF SubmitRefused
<1>9. CASE SendPost(t)
  BY <1>4, <1>9 DEF SendPost
<1>10. CASE PostAnswered(t)
  BY <1>3, <1>4, <1>10 DEF PostAnswered
<1>11. CASE PostTimesOut(t)
  BY <1>3, <1>11 DEF PostTimesOut
<1>12. ASSUME NEW answered, StatusRead(t, answered) PROVE InputsPersist
  BY <1>3, <1>12 DEF StatusRead
<1>13. CASE CancelAnswered(t) \/ CancelTimesOut(t) \/ MessageLost(t)
  BY <1>2, <1>13 DEF CancelAnswered, CancelTimesOut, MessageLost
<1>14. ASSUME NEW status, CarrierAccepts(t, status) \/ CarrierRefuses(t, status) \/ CarrierCancels(t, status)
       PROVE  InputsPersist
  BY <1>2, <1>14 DEF CarrierAccepts, CarrierRefuses, CarrierCancels
<1>15. CASE BookingVerification(t)
  <2>1. UNCHANGED <<call, wire>>
    BY <1>15 DEF BookingVerification, VerifyBooking, LedgerAnswers, LedgerFails,
                 LedgerUnreachable, bookingVars
  <2> QED BY <1>2, <2>1
<1>16. CASE AdapterRaises(t) \/ WorkerLost(t)
  BY <1>3, <1>16 DEF AdapterRaises, WorkerLost
<1>17. CASE ActivityTimesOut(t)
  BY <1>0, <1>17, TimeoutChanges
<1> QED
  BY <1>1, <1>5, <1>6, <1>7, <1>8, <1>9, <1>10, <1>11, <1>12, <1>13, <1>14, <1>15, <1>16, <1>17
  DEF BookingOf

(* Only the carrier writes the table.                                       *)
LEMMA TableWriters ==
  ASSUME NEW t, BookingOf(t)
  PROVE  \/ UNCHANGED <<bookings, effects>>
         \/ \E status : CarrierAccepts(t, status)
         \/ /\ UNCHANGED effects /\ Found(t) # None /\ bookings' = Cancelled(t)
            /\ \E status : CarrierCancels(t, status)
<1>1. BookingVerification(t) => UNCHANGED <<bookings, effects>>
  BY DEF BookingVerification, VerifyBooking, LedgerAnswers, LedgerFails, LedgerUnreachable,
         bookingVars
<1> QED
  BY <1>1 DEF BookingOf, Prepare, LeaseSecret, ResolveFails, SubmitRefused, SendPost, PostAnswered,
      PostTimesOut, StatusRead, AdapterRaises, ActivityTimesOut, WorkerLost,
      SendCancel, CancelAnswered, CancelTimesOut, MessageLost,
      CarrierRefuses, CarrierCancels

(* What an accepted POST leaves in the table.                               *)
LEMMA AcceptedRow ==
  ASSUME RowInv, NEW t \in Txns, NEW status, CarrierAccepts(t, status)
  PROVE  /\ RowsPersist /\ RefOf[t] \in Refs
         /\ bookings'[RefOf[t]] \in BookingRows /\ bookings'[RefOf[t]].request = Body(t)
<1> DEFINE r == RefOf[t]
           new == [request |-> Body(t), status |-> "RECEIVED"]
<1>1. r \in Refs /\ DOMAIN bookings = Refs /\ (bookings[r] = None \/ bookings[r] \in BookingRows)
  BY DEF Refs, RowInv
<1>2. Body(t) \in DcsaBodies
  BY DEF CarrierAccepts, RowInv, InputOK, Body, DcsaBodies
<1>3. new \in BookingRows /\ new.request = Body(t)
  BY <1>2 DEF BookingRows
<1>4. CASE bookings[r] = None
  <2>1. bookings' = [bookings EXCEPT ![r] = new]
    BY <1>4 DEF CarrierAccepts, Created
  <2> HIDE DEF new
  <2> QED BY <1>1, <1>3, <1>4, <2>1, BookingNone DEF RowsPersist, RowInv
<1>5. CASE bookings[r] # None
  <2>1. bookings' = bookings /\ bookings[r].request = Body(t)
    BY <1>5 DEF CarrierAccepts, Created, SameRequest
  <2> QED BY <1>1, <1>5, <2>1 DEF RowsPersist, RowInv
<1> QED BY <1>4, <1>5

(* What an accepted cancellation leaves in the table.                       *)
LEMMA CancelledRow ==
  ASSUME RowInv, NEW t \in Txns, Found(t) # None, bookings' = Cancelled(t)
  PROVE  /\ RowsPersist /\ RefOf[t] \in Refs
         /\ bookings'[RefOf[t]] \in BookingRows /\ bookings'[RefOf[t]].status = "CANCELLED"
<1> DEFINE r == RefOf[t]
<1>1. r \in Refs /\ DOMAIN bookings = Refs /\ bookings[r] \in BookingRows
  BY DEF Refs, RowInv, Found
<1>2. bookings' = [bookings EXCEPT ![r].status = "CANCELLED"]
  BY DEF Cancelled
<1>3. /\ DOMAIN bookings' = Refs /\ \A q \in Refs \ {r} : bookings'[q] = bookings[q]
      /\ bookings'[r] = [bookings[r] EXCEPT !.status = "CANCELLED"]
  BY <1>1, <1>2
<1>4. /\ bookings'[r] \in BookingRows /\ bookings'[r].request = bookings[r].request
      /\ bookings'[r].status = "CANCELLED"
  BY <1>1, <1>3 DEF BookingRows
<1> QED BY <1>1, <1>3, <1>4 DEF RowsPersist, RowInv

(* A row the carrier stored keeps its request, whatever call arrives next.  *)
LEMMA RowStep ==
  ASSUME PostInv, RowInv, NEW t \in Txns, BookingOf(t)
  PROVE  RowsPersist /\ RowInv'
<1>1. RowsPersist
  <2>1. UNCHANGED <<bookings, effects>> => RowsPersist
    BY DEF RowsPersist, RowInv
  <2> QED BY <2>1, TableWriters, AcceptedRow, CancelledRow
<1>2. InputsPersist
  BY InputStep
<1>3. \A u \in effects' : u \in effects \/ (u = t /\ \E status : CarrierAccepts(t, status))
  BY TableWriters DEF CarrierAccepts
<1>4. ASSUME NEW u \in effects'
      PROVE  bookings'[RefOf[u]] \in BookingRows /\ bookings'[RefOf[u]].request = Body(u)'
  <2>1. CASE u \in effects
    <3>1. u \in Txns /\ RefOf[u] \in Refs /\ call[u].phase # "new"
      BY <2>1 DEF PostInv, PostState, Refs
    <3>2. Body(u)' = Body(u)
      BY <1>2, <3>1 DEF InputsPersist, Body
    <3> QED BY <1>1, <2>1, <3>1, <3>2 DEF RowsPersist, RowInv
  <2>2. ASSUME NEW status, u = t, CarrierAccepts(t, status)
        PROVE  bookings'[RefOf[u]] \in BookingRows /\ bookings'[RefOf[u]].request = Body(u)'
    <3>1. Body(u)' = Body(u)
      BY <2>2 DEF CarrierAccepts, Body
    <3> QED BY <2>2, <3>1, AcceptedRow
  <2> QED BY <1>3, <2>1, <2>2
<1>5. \A u \in Txns : Post(u)' = Post(u)
  BY DEF Post
<1> QED
  BY <1>1, <1>2, <1>4, <1>5 DEF RowInv, RowsPersist, InputsPersist

(* A cancelled booking stays cancelled, a late or repeated create included. *)
LEMMA CancelStep ==
  ASSUME PostInv, RowInv, CancelInv, NEW t \in Txns, BookingOf(t)
  PROVE  CancelInv'
<1>1. RowsPersist /\ Elsewhere(t)
  BY RowStep, PostStep
<1>2. \A u \in Txns : RefOf[u] \in Refs
  BY DEF Refs
<1> DEFINE Done(u) == bookings[RefOf[u]] \in BookingRows /\ bookings[RefOf[u]].status = "CANCELLED"
           Known(u) == (HasAnswer(u, "PATCH") /\ answers[u].status = 202) \/ comp[u] = "ok"
<1>3. \A u \in Txns : Done(u) => Done(u)'
  BY <1>1, <1>2 DEF RowsPersist
<1>4. DOMAIN comp' = Txns /\ \A u \in Txns \ {t} : comp'[u] = comp[u]
  <2>1. BookingVerification(t) => UNCHANGED comp
    BY DEF BookingVerification, VerifyBooking, LedgerAnswers, LedgerFails, LedgerUnreachable,
           bookingVars
  <2> QED
    BY <2>1 DEF CancelInv, BookingOf, Prepare, LeaseSecret, ResolveFails, SubmitRefused, SendPost,
        PostAnswered, PostTimesOut, StatusRead, AdapterRaises, ActivityTimesOut, WorkerLost,
        SendCancel, CancelAnswered, CancelTimesOut,
        MessageLost, CarrierAccepts, CarrierRefuses, CarrierCancels
<1>5. Known(t)' => Known(t) \/ Done(t)'
  <2>1. ASSUME NEW status, CarrierCancels(t, status) PROVE Known(t)' => Known(t) \/ Done(t)'
    <3>1. Answer(t, "PATCH", status) /\ UNCHANGED comp
          /\ (status = 202 => Found(t) # None /\ bookings' = Cancelled(t))
      BY <2>1 DEF CarrierCancels
    <3> QED BY <3>1, AnswerChanges, CancelledRow DEF HasAnswer
  <2>2. ASSUME NEW status, CarrierAccepts(t, status) \/ CarrierRefuses(t, status)
        PROVE  Known(t)' => Known(t) \/ Done(t)'
    <3>1. Answer(t, "POST", status) /\ UNCHANGED comp
      BY <2>2 DEF CarrierAccepts, CarrierRefuses
    <3> QED BY <3>1, AnswerChanges DEF HasAnswer
  <2>3. CASE CancelAnswered(t)
    <3>1. comp'[t] = "ok" => HasAnswer(t, "PATCH") /\ answers[t].status = 202
      BY <2>3 DEF CancelAnswered, CancelInv, HasAnswer
    <3>2. ~HasAnswer(t, "PATCH")'
      BY <2>3 DEF CancelAnswered, PostInv, HasAnswer
    <3> QED BY <3>1, <3>2
  <2>4. CASE answers'[t] \in {None, answers[t]} /\ comp'[t] \in {comp[t], "sent", "failed"}
    BY <2>4 DEF HasAnswer
  <2>5. CASE SendCancel(t) \/ CancelTimesOut(t) \/ MessageLost(t) \/ PostAnswered(t)
    BY <2>4, <2>5 DEF SendCancel, CancelTimesOut, MessageLost, PostAnswered, PostInv, CancelInv
  <2>6. CASE BookingVerification(t)
    BY <2>4, <2>6 DEF BookingVerification, VerifyBooking, LedgerAnswers, LedgerFails,
                      LedgerUnreachable, bookingVars
  <2> HIDE DEF Done, Known
  <2> QED
    BY <2>1, <2>2, <2>3, <2>4, <2>5, <2>6
    DEF BookingOf, Prepare, LeaseSecret, ResolveFails, SubmitRefused, SendPost, PostTimesOut,
        StatusRead, AdapterRaises, ActivityTimesOut, WorkerLost
<1>6. ASSUME NEW u \in Txns PROVE Known(u)' => Done(u)'
  <2>1. Known(u) => Done(u)
    BY DEF CancelInv
  <2>2. u # t => (Known(u)' => Known(u))
    BY <1>1, <1>4 DEF Elsewhere, HasAnswer
  <2> HIDE DEF Known, Done
  <2> QED BY <1>3, <1>5, <2>1, <2>2
<1> QED BY <1>4, <1>6 DEF CancelInv

(* Every exit of the activity, an error or a crash included, closes its leases. *)
LEMMA LeaseStep ==
  ASSUME PostInv, RowInv, LeaseInv, NEW t \in Txns, BookingOf(t)
  PROVE  LeaseInv'
<1>1. ASSUME UNCHANGED leases, call'[t].phase \in {"new", "ended"} => call[t].phase \in {"new", "ended"}
      PROVE  LeaseInv'
  BY <1>1, PostStep DEF LeaseInv, Elsewhere
<1>2. ASSUME NEW code, End(t, code) PROVE LeaseInv'
  BY <1>2, EndChanges DEF End, Released, LeaseInv
<1>3. ASSUME NEW secret, LeaseSecret(t, secret) PROVE LeaseInv'
  BY <1>3 DEF LeaseSecret, LeaseInv
<1>4. ASSUME NEW phase, Move(t, phase), UNCHANGED leases, phase \notin {"new", "ended"}
      PROVE  LeaseInv'
  BY <1>1, <1>4, MoveChanges
<1>5. CASE UNCHANGED <<call, leases>>
  BY <1>1, <1>5
<1>6. ASSUME NEW input, Prepare(t, input) PROVE LeaseInv'
  BY <1>1, <1>6 DEF Prepare
<1>7. CASE BookingVerification(t)
  BY <1>5, <1>7 DEF BookingVerification, VerifyBooking, LedgerAnswers, LedgerFails,
                    LedgerUnreachable, bookingVars
<1>8. CASE ActivityTimesOut(t)
  BY <1>1, <1>8, TimeoutChanges
<1> QED
  BY <1>2, <1>3, <1>4, <1>5, <1>6, <1>7, <1>8
  DEF BookingOf, ResolveFails, SubmitRefused, SendPost, PostAnswered, PostTimesOut, StatusRead,
      AdapterRaises, ActivityTimesOut, WorkerLost,
      SendCancel, CancelAnswered, CancelTimesOut, MessageLost, CarrierAccepts, CarrierRefuses,
      CarrierCancels

(* The plans, sources and observations of a booking's verification.         *)
BookingPlans == {BookingPlan(t) : t \in Txns}
BookingSourceSets ==
  {{}, {[system |-> "synthetic.carrier", adapter |-> "synthetic.booking.api",
         collection |-> "booking"]}}
LedgerObservations ==
  {[txn |-> t, id |-> RefOf[t], system |-> "synthetic.ledger", channel |-> "SYSTEM_RECORD",
    collector |-> "synthetic.booking.ledger", collection |-> "booking-ledger",
    observed |-> n, expires |-> None,
    claims |-> [c \in Claims |-> IF c = "booking.status" THEN status ELSE RefOf[t]]] :
     t \in Txns, n \in Nat, status \in {"RECEIVED", "CANCELLED"}}
LedgerCodes == {"evidence_unavailable", "invalid_response_schema"}

(* What happens to the verification of a booking is a verification step.    *)
LEMMA BookingVerifies ==
  ASSUME EvidenceInv, RowInv, NEW t \in Txns, BookingVerification(t)
  PROVE  /\ VerificationOf(t, BookingPlans, BookingSourceSets, LedgerObservations, LedgerCodes)
         /\ UNCHANGED bookingVars
<1>1. BookingPlan(t) \in BookingPlans /\ Sources(t) \in BookingSourceSets
  BY DEF BookingPlans, Sources, BookingSourceSets
<1>2. Found(t) # None => LedgerObservation(t, Found(t).status) \in LedgerObservations
  <2> SUFFICES ASSUME Found(t) # None
               PROVE  LedgerObservation(t, Found(t).status) \in LedgerObservations
    OBVIOUS
  <2>1. Found(t).status \in {"RECEIVED", "CANCELLED"} /\ clock \in Nat
    BY DEF Found, RowInv, Refs, BookingRows, EvidenceInv
  <2> QED BY <2>1 DEF LedgerObservation, LedgerObservations
<1> QED
  BY <1>1, <1>2
  DEF BookingVerification, VerifyBooking, LedgerAnswers, LedgerFails, LedgerUnreachable,
      VerificationOf, LedgerCodes

(* An observation of the ledger carries the time at which it was made.      *)
LEMMA LedgerIsTimed == \A o \in LedgerObservations : Timed(o)
  BY DEF LedgerObservations, Timed

(* Only the verification's own steps touch its state.                       *)
LEMMA VerificationUntouched ==
  ASSUME NEW t, BookingOf(t)
  PROVE  UNCHANGED verificationVars \/ BookingVerification(t)
  BY DEF BookingOf, Prepare, LeaseSecret, ResolveFails, SubmitRefused, SendPost, PostAnswered,
         PostTimesOut, StatusRead, AdapterRaises, ActivityTimesOut, WorkerLost,
         SendCancel, CancelAnswered, CancelTimesOut, MessageLost,
         CarrierAccepts, CarrierRefuses, CarrierCancels

(* An execution source stands only for a call that was answered with a booking. *)
LEMMA SourceStep ==
  ASSUME EvidenceInv, PostInv, RowInv, SourceInv, NEW t \in Txns, BookingOf(t)
  PROVE  SourceInv'
<1>1. \A u \in Txns : call[u].phase = "ended" => call'[u].phase = "ended" /\ call'[u].code = call[u].code
  BY InputStep DEF InputsPersist
<1>2. ASSUME \A u \in Txns : verifying'[u] # None =>
                verifying[u] # None /\ verifying'[u].sources = verifying[u].sources
      PROVE  SourceInv'
  BY <1>1, <1>2 DEF SourceInv
<1>3. ASSUME NEW code, NEW retryable, Running(t), AfterFailure(t, code, retryable) PROVE SourceInv'
  <2> DEFINE v == verifying[t]
  <2>1. v # None /\ DOMAIN v = Fields /\ DOMAIN verifying = Txns
    BY <1>3 DEF Running, EvidenceInv, Collected
  <2>2. verifying'[t].sources = v.sources /\ \A u \in Txns \ {t} : verifying'[u] = verifying[u]
    BY <1>3, <2>1 DEF AfterFailure, Fields
  <2> QED BY <1>2, <2>1, <2>2
<1>4. CASE VerifyBooking(t)
  <2>1. /\ DOMAIN verifying = Txns /\ UNCHANGED call
        /\ \A u \in Txns \ {t} : verifying'[u] = verifying[u]
        /\ verifying'[t].sources = Sources(t)
        /\ call[t].code \in {"ok", "booking_effect_unknown"}
    BY <1>4 DEF VerifyBooking, StartVerification, EvidenceInv, bookingVars
  <2>2. call[t].phase = "ended"
    BY <2>1, BookingNone DEF PostInv, PostState
  <2> QED BY <2>1, <2>2 DEF SourceInv, Sources
<1>5. CASE LedgerAnswers(t)
  <2> DEFINE o == LedgerObservation(t, Found(t).status)
             v == verifying[t]
  <2>1. v # None /\ DOMAIN v = Fields /\ DOMAIN verifying = Txns /\ Running(t)
    BY <1>5 DEF LedgerAnswers, CollectAnswers, Running, EvidenceInv, Collected
  <2>2. CASE \E code : AfterFailure(t, code, FALSE)
    BY <1>3, <2>1, <2>2
  <2>3. CASE verifying' = [verifying EXCEPT ![t] = [v EXCEPT !.left = Tail(@), !.got = @ \cup {o}]]
    <3> HIDE DEF o
    <3>1. verifying'[t].sources = v.sources /\ \A u \in Txns \ {t} : verifying'[u] = verifying[u]
      BY <2>1, <2>3 DEF Fields
    <3> QED BY <1>2, <2>1, <3>1
  <2> QED BY <1>5, <2>2, <2>3 DEF LedgerAnswers, CollectAnswers
<1>6. CASE UNCHANGED verifying
  BY <1>2, <1>6
<1>7. CASE BookingVerification(t)
  BY <1>3, <1>4, <1>5, <1>6, <1>7
  DEF BookingVerification, LedgerFails, LedgerUnreachable, CollectFails, StoreFails, AttemptLost,
      Evaluate
<1> QED
  BY <1>6, <1>7, VerificationUntouched DEF verificationVars

(* The inductive invariant of the bookings.                                 *)
BookingInv == EvidenceInv /\ PostInv /\ RowInv /\ CancelInv /\ LeaseInv /\ SourceInv

(* The invariant holds before the first call.                               *)
LEMMA BookingInvInit == BookingInit => BookingInv
<1> SUFFICES ASSUME BookingInit PROVE BookingInv
  OBVIOUS
<1> USE DEF BookingInit
<1>1. EvidenceInv
  BY DEF VerificationInit, EvidenceInv, Collected, Reported
<1>2. \A t \in Txns : DOMAIN call[t] = {"phase", "code", "input"} /\ call[t].phase = "new"
                       /\ call[t].code = None
  OBVIOUS
<1>3. PostInv
  BY <1>2, BookingNone DEF PostInv, PostState, HasAnswer
<1>4. RowInv
  BY <1>2 DEF RowInv
<1>5. CancelInv
  BY DEF CancelInv, HasAnswer
<1>6. LeaseInv
  BY DEF LeaseInv
<1>7. SourceInv
  BY DEF VerificationInit, SourceInv
<1> QED BY <1>1, <1>3, <1>4, <1>5, <1>6, <1>7 DEF BookingInv

(* Every step keeps it: one case per handler, one lemma above per conjunct. *)
LEMMA BookingInvStep == BookingInv /\ [BookingNext]_allVars => BookingInv'
<1> SUFFICES ASSUME BookingInv, [BookingNext]_allVars PROVE BookingInv'
  OBVIOUS
<1> USE DEF BookingInv
<1>1. ASSUME NEW t \in Txns, BookingOf(t) PROVE BookingInv'
  <2>1. EvidenceInv'
    BY <1>1, VerificationUntouched, BookingVerifies, LedgerIsTimed, EvidenceStep, EvidenceTick
  <2>2. PostInv'
    BY <1>1, PostStep, PostElsewhere
  <2> QED
    BY <1>1, <2>1, <2>2, RowStep, CancelStep, LeaseStep, SourceStep
<1>2. CASE UNCHANGED bookingVars /\ (Tick \/ UNCHANGED verificationVars)
  <2>1. EvidenceInv' /\ UNCHANGED <<verifying, receipts>>
    BY <1>2, EvidenceTick DEF Tick, verificationVars
  <2>2. PostInv' /\ RowInv' /\ CancelInv' /\ LeaseInv'
    <3> USE <1>2 DEF bookingVars
    <3>1. \A t \in Txns : PostState(t) => PostState(t)'
      BY DEF PostState, HasAnswer, Post, Patch
    <3>2. PostInv'
      BY <3>1 DEF PostInv
    <3>3. RowInv'
      BY DEF RowInv, InputOK, Post, Body
    <3> QED BY <3>2, <3>3 DEF CancelInv, LeaseInv, HasAnswer
  <2>3. SourceInv'
    BY <1>2, <2>1 DEF SourceInv, bookingVars
  <2> QED BY <2>1, <2>2, <2>3
<1> QED
  BY <1>1, <1>2 DEF BookingNext, allVars

(* The invariant holds in every reachable state.                            *)
LEMMA BookingInvHolds == BookingBehaviour => []BookingInv
<1> QED BY BookingInvInit, BookingInvStep, PTL DEF BookingBehaviour

(* A submit reported to have booked nothing has booked nothing, and no      *)
(* request of it is on its way: the adapter's mapping of timeouts, lost     *)
(* answers and refusals to error codes, with the activity's own timeout,    *)
(* the loss of its worker and exceptions at every point of the call.        *)
THEOREM DefiniteFailuresAreHarmless == BookingBehaviour => []DefiniteFailureHasNoEffect
<1>1. BookingInv => DefiniteFailureHasNoEffect
  BY DEF BookingInv, PostInv, PostState, DefiniteFailureHasNoEffect
<1> QED BY <1>1, BookingInvHolds, PTL

(* The carrier's row under a transaction's reference is the transaction's   *)
(* own request whenever its POST was accepted, however many transactions    *)
(* share the reference: create_booking's comparison of the stored request.  *)
THEOREM AcceptedRequestsMatch == BookingBehaviour => []AcceptedIsThisRequest
<1>1. BookingInv => AcceptedIsThisRequest
  BY DEF BookingInv, RowInv, AcceptedIsThisRequest
<1> QED BY <1>1, BookingInvHolds, PTL

(* A compensation that succeeded is final: no create, repeated or late,     *)
(* brings the booking back.                                                 *)
THEOREM CompensationIsFinal == BookingBehaviour => []CompensatedIsCancelled
<1>1. BookingInv => CompensatedIsCancelled
  BY DEF BookingInv, CancelInv, CompensatedIsCancelled
<1> QED BY <1>1, BookingInvHolds, PTL

(* A VERIFIED transaction booked something itself: only a submit that       *)
(* succeeded has an execution source, and without one nothing verifies.     *)
THEOREM VerifiedBookingsExist == BookingBehaviour => []VerifiedMeansBooked
<1>1. BookingInv => VerifiedMeansBooked
  <2> SUFFICES ASSUME BookingInv, NEW t \in Txns, reports[t] # None,
                      reports[t].verdict = "VERIFIED"
               PROVE  t \in effects
    BY DEF VerifiedMeansBooked
  <2>1. verifying[t] # None /\ verifying[t].sources # {}
    BY EvidenceSuffices DEF BookingInv, VerifiedOnEvidence, EvidenceInv, Reported
  <2>2. call[t].code = "ok"
    BY <2>1 DEF BookingInv, SourceInv
  <2> QED BY <2>2 DEF BookingInv, PostInv, PostState
<1> QED BY <1>1, BookingInvHolds, PTL

(* Every way a submit activity ends closes the leases it obtained.          *)
THEOREM LeasesAreClosed == BookingBehaviour => []SecretsReleased
<1>1. BookingInv => SecretsReleased
  BY DEF BookingInv, LeaseInv, SecretsReleased
<1> QED BY <1>1, BookingInvHolds, PTL

(* The verdicts of bookings rest on evidence too: their collector is one of *)
(* the collectors the generic theorems speak of.                            *)
THEOREM BookingVerdictsRestOnEvidence ==
  BookingBehaviour => [](VerifiedOnEvidence /\ OneContentPerEvidence)
<1>1. BookingInv => VerifiedOnEvidence
  BY EvidenceSuffices DEF BookingInv
<1>2. BookingInit => OneContentPerEvidence
  BY DEF BookingInit, VerificationInit, OneContentPerEvidence
<1>3. BookingInv /\ OneContentPerEvidence /\ [BookingNext]_allVars => OneContentPerEvidence'
  <2>1. ASSUME BookingInv, OneContentPerEvidence, NEW t \in Txns, BookingOf(t)
        PROVE  OneContentPerEvidence'
    <3>1. CASE UNCHANGED verificationVars
      BY <2>1, <3>1 DEF verificationVars, OneContentPerEvidence
    <3>2. CASE BookingVerification(t)
      BY <2>1, <3>2, BookingVerifies, ReceiptsStep DEF BookingInv
    <3> QED BY <2>1, <3>1, <3>2, VerificationUntouched
  <2>2. Tick \/ UNCHANGED verificationVars => UNCHANGED receipts
    BY DEF Tick, verificationVars
  <2> QED BY <2>1, <2>2 DEF BookingNext, allVars, OneContentPerEvidence
<1> QED
  BY <1>1, <1>2, <1>3, BookingInvHolds, PTL DEF BookingBehaviour

=============================================================================
