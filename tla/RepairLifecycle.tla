---------------------------- MODULE RepairLifecycle ----------------------------
(***************************************************************************)
(* The life of one repair request: RepairLifecycle and its transition      *)
(* chain SQLiteRepairLifecycle of src/cargomesh/repair/lifecycle.py.       *)
(*                                                                         *)
(* An append to the chain is one BEGIN IMMEDIATE transaction that refuses  *)
(* a transition the table of allowed ones does not have.  canary and       *)
(* promote call the canary executor and the deployment between appends:    *)
(* each such call is an action of its own, and the caller may die before   *)
(* the next.  Both are injected; the deployment may refuse, or raise with  *)
(* or without having done its work.                                        *)
(*                                                                         *)
(* A request may have several candidates (one per sandbox attempt); the    *)
(* caller names the one it means in every call.  A candidate stands for    *)
(* its report and proposal too; only a candidate whose validation passed   *)
(* has a proposal (sandbox.py).  A definition XFault stands before X: X    *)
(* with the mistake its comment names.                                     *)
(***************************************************************************)
EXTENDS Integers, Sequences, SequencesExt

CONSTANTS
  Candidates,      \* candidates generated for the request
  Sound,           \* those whose validation report passed
  Callers,
  MinObservations, MinSuccessPpm,    \* CanaryThresholds
  Million,         \* 1_000_000
  MaxCount,        \* bound on the counters of the canary evidence
  Base             \* the package in service before

ASSUME LifecycleAssumption ==
  /\ Sound \subseteq Candidates
  /\ MinObservations \in Nat \ {0} /\ MinSuccessPpm \in 0..Million
  /\ Million \in Nat \ {0} /\ MaxCount \in Nat

VARIABLES
  chain,       \* table repair_transitions
  deployed,    \* the package in service
  decisions,   \* CanaryDecision objects, with the evidence they rest on
  expired,     \* the candidates whose proposal has expired
  stage, work     \* per caller: what it does next, and for which candidate

lifecycleVars == <<chain, deployed, decisions, expired, stage, work>>

States == {"generated", "validated", "proposed", "approved", "canary", "promoted",
           "rolled_back", "rejected", "failed"}

Evidence == {e \in [observations: 0..MaxCount, successes: 0..MaxCount,
                    violations: 0..1, verified: BOOLEAN] :
               e.successes <= e.observations}

Decisions == [candidate: Candidates, evidence: Evidence, passed: BOOLEAN]

LifecycleInit ==
  /\ chain = <<>>
  /\ deployed = Base
  /\ decisions = {}
  /\ expired = {}
  /\ stage = [k \in Callers |-> "idle"]
  /\ work = [k \in Callers |-> Base]

-----------------------------------------------------------------------------
LastState == IF chain = <<>> THEN "none" ELSE Last(chain).state

(* _ALLOWED_TRANSITIONS                                                     *)
Allowed(from) ==
  CASE from = "none"      -> {"generated"}
    [] from = "generated" -> {"validated", "rejected"}
    [] from = "validated" -> {"proposed"}
    [] from = "proposed"  -> {"approved"}
    [] from = "approved"  -> {"canary"}
    [] from = "canary"    -> {"promoted", "rolled_back", "failed"}
    [] OTHER -> {}

MayAppend(state) == state \in Allowed(LastState)

AppendTransition(state, subject) ==
  chain' = Append(chain, [state |-> state, subject |-> subject])

Record(state, c) ==
  /\ MayAppend(state)
  /\ AppendTransition(state, c)
  /\ UNCHANGED <<deployed, decisions, expired, stage, work>>

RecordCandidate(c) == Record("generated", c)

RecordValidation(c) == Record(IF c \in Sound THEN "validated" ELSE "rejected", c)

RecordProposal(c) == c \in Sound /\ Record("proposed", c)

(* The attestation was verified.                                            *)
Approve(c) == c \in Sound /\ c \notin expired /\ Record("approved", c)

Expire(c) ==
  /\ expired' = expired \cup {c}
  /\ UNCHANGED <<chain, deployed, decisions, stage, work>>

-----------------------------------------------------------------------------
(* Fault: the violations are not counted.                                   *)
PassedFault(e) ==
  /\ e.verified
  /\ e.observations >= MinObservations
  /\ (IF e.observations = 0 THEN 0 ELSE (e.successes * Million) \div e.observations)
       >= MinSuccessPpm

(* _evaluate_canary                                                         *)
Passed(e) ==
  /\ e.verified
  /\ e.observations >= MinObservations
  /\ (IF e.observations = 0 THEN 0 ELSE (e.successes * Million) \div e.observations)
       >= MinSuccessPpm
  /\ e.violations = 0

Proceed(k, label) == stage' = [stage EXCEPT ![k] = label]

(* canary: the transition is recorded before the canary runs.               *)
StartCanary(k, c) ==
  /\ stage[k] = "idle"
  /\ c \in Sound /\ c \notin expired
  /\ MayAppend("canary")
  /\ AppendTransition("canary", c)
  /\ Proceed(k, "canary") /\ work' = [work EXCEPT ![k] = c]
  /\ UNCHANGED <<deployed, decisions, expired>>

(* A decision that failed is returned with the result of the rollback, when *)
(* the chain has ended and promote takes no decision any more.              *)
CanaryDecided(k, e) ==
  /\ stage[k] = "canary"
  /\ decisions' = decisions \cup
       {d \in {[candidate |-> work[k], evidence |-> e, passed |-> Passed(e)]} : d.passed}
  /\ Proceed(k, IF Passed(e) THEN "idle" ELSE "rolling_back")
  /\ UNCHANGED <<chain, deployed, expired, work>>

CanaryUnavailable(k) ==
  /\ stage[k] = "canary"
  /\ Proceed(k, "rolling_back")
  /\ UNCHANGED <<chain, deployed, decisions, expired, work>>

MayPromote == LastState = "canary"

StartPromotion(k, d) ==
  /\ stage[k] = "idle"
  /\ MayPromote
  /\ Proceed(k, IF d.passed THEN "promoting" ELSE "rolling_back")
  /\ work' = [work EXCEPT ![k] = d.candidate]
  /\ UNCHANGED <<chain, deployed, decisions, expired>>

(* deployment.promote returns True, or does not: the package may be in      *)
(* service all the same when the call raised.                               *)
DeploymentPromotes(k) ==
  /\ stage[k] = "promoting"
  /\ deployed' = work[k]
  /\ Proceed(k, "promoted")
  /\ UNCHANGED <<chain, decisions, expired, work>>

DeploymentRefuses(k) ==
  /\ stage[k] = "promoting"
  /\ deployed' \in {deployed, work[k]}
  /\ Proceed(k, "rolling_back")
  /\ UNCHANGED <<chain, decisions, expired, work>>

(* The last append of promote; if it is refused, promote raises.            *)
RecordPromoted(k) ==
  /\ stage[k] = "promoted"
  /\ IF MayAppend("promoted") THEN AppendTransition("promoted", work[k])
     ELSE UNCHANGED chain
  /\ Proceed(k, "idle")
  /\ UNCHANGED <<deployed, decisions, expired, work>>

(* _rollback_release: the deployment goes back to the base, or raises.      *)
DeploymentRollsBack(k) ==
  /\ stage[k] = "rolling_back"
  /\ deployed' = Base
  /\ Proceed(k, "rolled_back")
  /\ UNCHANGED <<chain, decisions, expired, work>>

RollbackRaises(k) ==
  /\ stage[k] = "rolling_back"
  /\ deployed' \in {deployed, Base}
  /\ Proceed(k, "failed")
  /\ UNCHANGED <<chain, decisions, expired, work>>

RollbackState(k) == stage[k]

RecordRollback(k) ==
  /\ stage[k] \in {"rolled_back", "failed"}
  /\ IF MayAppend(RollbackState(k)) THEN AppendTransition(RollbackState(k), Base)
     ELSE UNCHANGED chain
  /\ Proceed(k, "idle")
  /\ UNCHANGED <<deployed, decisions, expired, work>>

(* The process dies; it may come back and call again.                       *)
CallerDies(k) ==
  /\ stage[k] # "idle"
  /\ Proceed(k, "idle")
  /\ UNCHANGED <<chain, deployed, decisions, expired, work>>

Call(k) ==
  \/ \E c \in Candidates : StartCanary(k, c)
  \/ \E e \in Evidence : CanaryDecided(k, e)
  \/ CanaryUnavailable(k)
  \/ \E d \in decisions : StartPromotion(k, d)
  \/ DeploymentPromotes(k) \/ DeploymentRefuses(k) \/ RecordPromoted(k)
  \/ DeploymentRollsBack(k) \/ RollbackRaises(k) \/ RecordRollback(k)
  \/ CallerDies(k)

LifecycleNext ==
  \/ \E c \in Candidates : \/ RecordCandidate(c) \/ RecordValidation(c)
                           \/ RecordProposal(c) \/ Approve(c) \/ Expire(c)
  \/ \E k \in Callers : Call(k)

LifecycleSpec == LifecycleInit /\ [][LifecycleNext]_lifecycleVars

-----------------------------------------------------------------------------
(* The ratio of the canary, without rounding.                               *)
MeetsThresholds(e) ==
  /\ e.verified /\ e.violations = 0
  /\ e.observations >= MinObservations
  /\ e.successes * Million >= MinSuccessPpm * e.observations

(* A package is in service only after generation, validation, proposal,     *)
(* approval and canary are on record (board-12-implementation-contract.md,  *)
(* 45-46), and only when its own canary met the frozen thresholds with no   *)
(* violation, whatever is retried or dies in between and however the ratio  *)
(* is rounded to parts per million.                                         *)
ReleaseIsJustified ==
  deployed # Base =>
    /\ {"generated", "validated", "proposed", "approved", "canary"}
         \subseteq {chain[j].state : j \in DOMAIN chain}
    /\ \E d \in decisions : /\ d.candidate = deployed
                            /\ d.passed /\ MeetsThresholds(d.evidence)

(* board-12-acceptance.md:24-26: "Approval expiry/attestation, canary       *)
(* proposal identity ... are enforced before injected deployment calls": a  *)
(* candidate in service is the one that was approved.                       *)
DeployedWasApproved ==
  deployed # Base =>
    \E i \in DOMAIN chain : chain[i].state = "approved" /\ chain[i].subject = deployed

=============================================================================
