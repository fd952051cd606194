------------------------- MODULE TransactionWorkflow -------------------------
(***************************************************************************)
(* One durable transaction: CargoMeshTransactionWorkflow of                *)
(* src/cargomesh/runtime/temporal.py, run by Temporal, together with the   *)
(* outside world its adapter activities act on.                            *)
(*                                                                         *)
(* The workflow is single threaded: between two awaits it runs atomically, *)
(* and only signals, timers and activity results interleave with it.  Each *)
(* action below is therefore the whole code between one await and the      *)
(* next.  pc says which await the coroutine is suspended in.  The value of *)
(* a status inside such a block is passed on as "cur", so that two         *)
(* transitions made in one block are both checked.                         *)
(*                                                                         *)
(* A definition XFault stands before X: it is X with the mistake its       *)
(* comment names, kept to see that the properties notice it.               *)
(***************************************************************************)
EXTENDS ExecutionStatus, Naturals, Sequences

CONSTANTS
  Plans,        \* the frozen execution plans that may be submitted
  MaxSteps,     \* upper bound on the number of steps of a plan
  ErrorCodes,   \* ApplicationError types that match the safe-code pattern
  Decisions,    \* approval decisions an operator may send
  Approving,    \* the decisions with approved = True
  NoDecision,   \* no decision recorded
  LateEffects   \* TRUE: an attempt Temporal has timed out may still take effect

VARIABLES
  plan,          \* the plan the run started from
  pc,            \* "new", "approval", "activity", "compensating", "verifying",
                 \* "reconciling" or "done"
  alt, attempt,  \* route alternative and Temporal attempt of the current step
  queue,         \* steps whose compensation is still to run
  requested,     \* what _finish_with_compensation was asked to end in
  status, current, awaiting, compensated, failure, report,
  outputs,       \* the fields of ExecutionSnapshot; outputs[i] is that of step i
  routeAttempts,
  approvals, conflict, cancel,   \* what the signals left behind
  effect,        \* per step: is its external effect absent, present or undone?
  calls,         \* per step: forward adapter attempts started so far
  zombies        \* steps with a timed-out attempt that may still take effect

snapshot == <<status, current, awaiting, outputs, compensated, failure, report,
              routeAttempts>>
control == <<pc, alt, attempt, queue, requested>>
signals == <<approvals, conflict, cancel>>
world == <<effect, calls, zombies>>
workflowVars == <<plan, control, snapshot, signals, world>>

-----------------------------------------------------------------------------
(* Plans.  A step is identified by its position, which also satisfies the   *)
(* "no forward dependency" rule of the plan contract.                       *)

StepIds == 1..MaxSteps
NoStep == 0

RiskClasses == {"READ_ONLY", "REVERSIBLE_WRITE", "CONSEQUENTIAL_WRITE"}

(* _activity_failure_code: an ApplicationError with a bounded type keeps it; *)
(* free text, timeouts and lost workers ("opaque") all become one code.      *)
RawFailures == ErrorCodes \cup {"opaque"}
FailureCodes == ErrorCodes \cup {"activity_failed"}

ActivityFailureCode(f) == IF f \in ErrorCodes THEN f ELSE "activity_failed"

(* One way to carry a step out: the selected route or a frozen fallback.    *)
Alternatives ==
  [safe: SUBSET FailureCodes,        \* fallback_on_error_codes
   attempts: Nat \ {0},              \* retry.maximum_attempts
   final: SUBSET ErrorCodes]         \* retry.non_retryable_error_types

Steps ==
  [risk: RiskClasses,
   approval: BOOLEAN,                \* requires_approval
   timed: BOOLEAN,                   \* approval_timeout_seconds is set
   compensation: {"none", "plain", "referenced"},
   unknown: SUBSET FailureCodes,     \* unknown_effect_error_codes
   routed: BOOLEAN,                  \* route_candidate_id is set
   routes: Seq(Alternatives)]        \* the selected route, then the fallbacks

IsWrite(s) == s.risk # "READ_ONLY"

ValidStep(s) ==
  /\ s.timed => s.approval
  /\ ~IsWrite(s) => s.compensation = "none"
  /\ s.routes # <<>>
  /\ s.unknown # {} => IsWrite(s) /\ s.routes[1].attempts = 1
  /\ ~s.routed => Len(s.routes) = 1 /\ s.routes[1].safe = {}
  /\ Len(s.routes) > 1 => ~IsWrite(s)

ValidPlan(p) ==
  /\ p.steps \in Seq(Steps)
  /\ p.steps # <<>>
  /\ Len(p.steps) <= MaxSteps
  /\ \A i \in 1..Len(p.steps) : ValidStep(p.steps[i])
  /\ p.verification \in BOOLEAN
  /\ p.level \in 0..3

ASSUME ConstantsAssumption ==
  /\ MaxSteps \in Nat
  /\ "opaque" \notin ErrorCodes
  /\ "activity_failed" \notin ErrorCodes
  /\ Approving \subseteq Decisions
  /\ NoDecision \notin Decisions
  /\ LateEffects \in BOOLEAN

ASSUME PlansAssumption == \A p \in Plans : ValidPlan(p)

StepOf(i) == plan.steps[i]
StepCount == Len(plan.steps)

(* completed_steps: always the first steps of the plan, one per output.     *)
Completed == Len(outputs)
Running == Completed + 1      \* the step the loop is at

MoreSteps(i) == i <= StepCount

StopRequested == cancel

-----------------------------------------------------------------------------
WorkflowInit ==
  /\ plan \in Plans
  /\ pc = "new" /\ alt = 1 /\ attempt = 1 /\ queue = {}
  /\ requested = [terminal |-> "HALTED", code |-> "none",
                  unresolved |-> FALSE, any |-> FALSE]
  /\ status = "ACCEPTED" /\ current = NoStep /\ awaiting = NoStep
  /\ outputs = <<>> /\ compensated = <<>> /\ failure = "none"
  /\ report = "none" /\ routeAttempts = <<>>
  /\ approvals = [s \in StepIds |-> NoDecision]
  /\ conflict = FALSE /\ cancel = FALSE
  /\ effect = [s \in StepIds |-> "absent"]
  /\ calls = [s \in StepIds |-> 0]
  /\ zombies = {}

-----------------------------------------------------------------------------
(* The blocks the actions are made of.                                      *)

(* _finish_with_compensation after its loop: the requested terminal, unless *)
(* an effect stays uncompensated.                                           *)
Conclude(cur, req) ==
  LET terminal == IF req.unresolved \/ (req.terminal = "COMPENSATED" /\ ~req.any)
                  THEN "HALTED" ELSE req.terminal
  IN  /\ pc' = "done"
      /\ status' = Transition(cur, terminal)
      /\ failure' = IF req.unresolved THEN "uncompensated_effect" ELSE req.code
      /\ current' = NoStep
      /\ awaiting' = NoStep

(* The early returns inside the compensation loop leave the awaiting field. *)
HaltCompensation(cur, code) ==
  /\ pc' = "done"
  /\ status' = Transition(cur, "HALTED")
  /\ failure' = code
  /\ current' = NoStep
  /\ UNCHANGED awaiting

ReferenceMissing(s, outs) ==
  /\ StepOf(s).compensation = "referenced"
  /\ s \in DOMAIN outs => ~outs[s].reference

(* reversed(compensatable): the latest step first.                          *)
NextToCompensate(q) == CHOOSE s \in q : \A t \in q : t <= s

(* One turn of the compensation loop: up to the next activity, or out.      *)
RunCompensations(cur, q, outs, req) ==
  /\ queue' = q
  /\ requested' = req
  /\ \/ /\ q = {}
        /\ Conclude(cur, req)
     \/ /\ q # {}
        /\ ReferenceMissing(NextToCompensate(q), outs)
        /\ HaltCompensation(cur, "compensation_reference_missing")
     \/ /\ q # {}
        /\ ~ReferenceMissing(NextToCompensate(q), outs)
        /\ pc' = "compensating"
        /\ status' = cur
        /\ UNCHANGED <<failure, current, awaiting>>

(* Fault: a write without compensation is taken for harmless.               *)
UnresolvedEffectFault(n) == FALSE

(* A write among the first n steps that cannot be taken back.               *)
UnresolvedEffect(n) ==
  \E s \in 1..n : IsWrite(StepOf(s)) /\ StepOf(s).compensation = "none"

(* n: the first n steps of the plan are the ones handed over for undoing.   *)
FinishWithCompensation(cur, n, outs, terminal, code) ==
  LET compensatable == {s \in 1..n : StepOf(s).compensation # "none"}
      req == [terminal |-> terminal, code |-> code,
              unresolved |-> UnresolvedEffect(n), any |-> compensatable # {}]
      begun == IF compensatable = {} THEN cur ELSE Transition(cur, "COMPENSATING")
  IN  /\ RunCompensations(begun, compensatable, outs, req)
      /\ UNCHANGED <<alt, attempt, calls, report>>

(* Schedule the first attempt of alternative a of step i.                   *)
Invoke(i, a) ==
  /\ pc' = "activity"
  /\ alt' = a
  /\ attempt' = 1
  /\ calls' = [calls EXCEPT ![i] = @ + 1]
  /\ UNCHANGED <<queue, requested, report>>

Dispatch(cur, i) ==
  /\ Invoke(i, 1)
  /\ status' = cur
  /\ current' = i
  /\ awaiting' = NoStep
  /\ UNCHANGED failure

(* The top of the step loop with outs recorded so far, or what follows it.  *)
Proceed(cur, outs) ==
  LET i == Len(outs) + 1 IN
  \/ /\ StopRequested
     /\ FinishWithCompensation(cur, Len(outs), outs, "CANCELLED", "cancelled")
  \/ /\ ~StopRequested
     /\ MoreSteps(i)
     /\ StepOf(i).approval
     /\ pc' = "approval"
     /\ status' = Transition(cur, "WAITING_APPROVAL")
     /\ current' = i
     /\ awaiting' = i
     /\ UNCHANGED <<alt, attempt, queue, requested, failure, calls, report>>
  \/ /\ ~StopRequested
     /\ MoreSteps(i)
     /\ ~StepOf(i).approval
     /\ Dispatch(cur, i)
  \/ /\ ~StopRequested
     /\ ~MoreSteps(i)
     /\ current' = NoStep
     /\ IF plan.verification
        THEN pc' = "verifying" /\ status' = Transition(cur, "VERIFYING")
        ELSE pc' = "done" /\ status' = Transition(cur, "EXECUTED_UNVERIFIED")
     /\ UNCHANGED <<alt, attempt, queue, requested, awaiting, failure, calls, report>>

-----------------------------------------------------------------------------
(* The run of the workflow.                                                 *)

Start ==
  /\ pc = "new"
  /\ Proceed(Transition(status, "RUNNING"), outputs)
  /\ UNCHANGED <<plan, outputs, compensated, routeAttempts, signals, effect, zombies>>

(* Fault: any decision counts as an approval.                               *)
GrantedFault(decision) == decision # NoDecision

Granted(decision) == decision \in Approving

(* Fault: the wait does not look at cancellation.                           *)
WaitSatisfiedFault == approvals[Running] # NoDecision

WaitSatisfied == approvals[Running] # NoDecision \/ cancel

(* wait_condition is satisfied and the coroutine resumes.                   *)
ApprovalDecided ==
  LET decision == approvals[Running]
      cur == IF Granted(decision) THEN Transition(status, "RUNNING") ELSE status
  IN  /\ pc = "approval"
      /\ WaitSatisfied
      /\ IF cancel
         THEN FinishWithCompensation(status, Completed, outputs, "CANCELLED", "cancelled")
         ELSE IF conflict
         THEN FinishWithCompensation(cur, Completed, outputs, "HALTED", "approval_conflict")
         ELSE IF ~Granted(decision)
         THEN FinishWithCompensation(cur, Completed, outputs, "REJECTED", "none")
         ELSE Dispatch(cur, Running)
      /\ UNCHANGED <<plan, outputs, compensated, routeAttempts, signals, effect, zombies>>

(* Fault: no timeout is handed to the wait.                                 *)
TimerArmedFault(s) == FALSE

TimerArmed(s) == s.timed

(* The approval timer fires.  It may win over a decision delivered in the   *)
(* same activation.                                                         *)
ApprovalTimeout ==
  /\ pc = "approval"
  /\ TimerArmed(StepOf(Running))
  /\ IF cancel
     THEN FinishWithCompensation(status, Completed, outputs, "CANCELLED", "cancelled")
     ELSE FinishWithCompensation(status, Completed, outputs, "HALTED", "approval_timeout")
  /\ UNCHANGED <<plan, outputs, compensated, routeAttempts, signals, effect, zombies>>

RecordRoute(outcome, code) ==
  routeAttempts' =
    IF StepOf(Running).routed
    THEN Append(routeAttempts, [step |-> Running, candidate |-> alt,
                                status |-> outcome, code |-> code])
    ELSE routeAttempts

(* The adapter activity returns an AdapterResult.                           *)
StepSucceeds(result) ==
  /\ pc = "activity"
  /\ effect' = IF IsWrite(StepOf(Running))
               THEN [effect EXCEPT ![Running] = "present"] ELSE effect
  /\ outputs' = Append(outputs, result)
  /\ RecordRoute("SUCCEEDED", "none")
  /\ Proceed(status, outputs')
  /\ UNCHANGED <<plan, compensated, signals, zombies>>

(* What a failed attempt may have done outside: nothing, the effect, or -   *)
(* when it timed out and is still running somewhere - the effect later.     *)
FailedAttempt(f) ==
  \/ UNCHANGED <<effect, zombies>>
  \/ /\ IsWrite(StepOf(Running))
     /\ effect' = [effect EXCEPT ![Running] = "present"]
     /\ UNCHANGED zombies
  \/ /\ LateEffects
     /\ IsWrite(StepOf(Running))
     /\ f = "opaque"
     /\ zombies' = zombies \cup {Running}
     /\ UNCHANGED effect

(* Temporal retries a failed attempt within retry.maximum_attempts, unless  *)
(* its type is listed as final.                                             *)
StepRetries(f) ==
  /\ pc = "activity"
  /\ attempt < StepOf(Running).routes[alt].attempts
  /\ f \notin StepOf(Running).routes[alt].final
  /\ FailedAttempt(f)
  /\ attempt' = attempt + 1
  /\ calls' = [calls EXCEPT ![Running] = @ + 1]
  /\ UNCHANGED <<plan, pc, alt, queue, requested, snapshot, signals>>

(* Fault: any failure code allows the next route.                           *)
CanFallbackFault(code) ==
  ~IsWrite(StepOf(Running)) /\ alt < Len(StepOf(Running).routes)

CanFallback(code) ==
  LET s == StepOf(Running) IN
  ~IsWrite(s) /\ alt < Len(s.routes) /\ code \in s.routes[alt].safe

FinishUnknownEffect(code) ==
  /\ current' = NoStep
  /\ awaiting' = NoStep
  /\ failure' = code
  /\ IF plan.verification
     THEN pc' = "reconciling" /\ status' = Transition(status, "VERIFYING")
     ELSE pc' = "done" /\ status' = Transition(status, "HALTED")
  /\ UNCHANGED <<alt, attempt, queue, requested, calls, report>>

(* Fault: an unknown effect is treated like any other failure.              *)
EffectUnknownFault(code) == FALSE

EffectUnknown(code) == code \in StepOf(Running).unknown

(* How many steps may have left an effect when the running one has failed.  *)
PossiblyEffectful == IF IsWrite(StepOf(Running)) THEN Running ELSE Completed

(* The activity fails for good: the adapter said so or attempts ran out.    *)
StepFails(f) ==
  LET code == ActivityFailureCode(f)
      terminal == IF IsWrite(StepOf(Running)) THEN "COMPENSATED" ELSE "HALTED"
  IN  /\ pc = "activity"
      /\ FailedAttempt(f)
      /\ RecordRoute("FAILED", code)
      /\ \/ /\ CanFallback(code)
            /\ Invoke(Running, alt + 1)
            /\ UNCHANGED <<status, current, awaiting, failure>>
         \/ /\ ~CanFallback(code)
            /\ EffectUnknown(code)
            /\ FinishUnknownEffect(code)
         \/ /\ ~CanFallback(code)
            /\ ~EffectUnknown(code)
            /\ FinishWithCompensation(status, PossiblyEffectful, outputs, terminal, code)
      /\ UNCHANGED <<plan, outputs, compensated, signals>>

CompensationSucceeds ==
  LET s == NextToCompensate(queue) IN
  /\ pc = "compensating"
  /\ compensated' = Append(compensated, s)
  /\ effect' = [effect EXCEPT ![s] = IF @ = "present" THEN "undone" ELSE @]
  /\ RunCompensations(status, queue \ {s}, outputs, requested)
  /\ UNCHANGED <<plan, alt, attempt, outputs, report, routeAttempts, signals,
                 calls, zombies>>

(* A failed compensation may still have been carried out.                   *)
CompensationFails ==
  LET s == NextToCompensate(queue) IN
  /\ pc = "compensating"
  /\ effect' \in {effect, [effect EXCEPT ![s] = IF @ = "present" THEN "undone" ELSE @]}
  /\ HaltCompensation(status, "compensation_failed")
  /\ UNCHANGED <<plan, alt, attempt, queue, requested, outputs, compensated,
                 report, routeAttempts, signals, calls, zombies>>

(* The verification activity fails, in run or in _finish_unknown_effect.    *)
VerificationFails(f) ==
  /\ pc \in {"verifying", "reconciling"}
  /\ failure' = IF pc = "verifying" THEN ActivityFailureCode(f)
                ELSE "unknown_effect_verification_failed"
  /\ status' = Transition(status, "HALTED")
  /\ pc' = "done"
  /\ UNCHANGED <<plan, alt, attempt, queue, requested, current, awaiting, outputs,
                 compensated, report, routeAttempts, signals, world>>

(* A report bound to another transaction, digest or level.                  *)
VerificationMismatch ==
  /\ pc \in {"verifying", "reconciling"}
  /\ failure' = "verification_report_mismatch"
  /\ status' = Transition(status, "HALTED")
  /\ pc' = "done"
  /\ UNCHANGED <<plan, alt, attempt, queue, requested, current, awaiting, outputs,
                 compensated, report, routeAttempts, signals, world>>

(* evaluate_verification on the execution sources of the outputs: without   *)
(* any source only level 0 can be reached.                                  *)
PossibleVerdicts ==
  IF plan.level = 0 \/ \E i \in 1..Completed : outputs[i].source
  THEN {"VERIFIED", "NEEDS_REVIEW", "HALTED"}
  ELSE {"HALTED"}

VerificationReports ==
  /\ pc \in {"verifying", "reconciling"}
  /\ \E verdict \in PossibleVerdicts :
       /\ report' = verdict
       /\ status' = Transition(status, verdict)
  /\ pc' = "done"
  /\ UNCHANGED <<plan, alt, attempt, queue, requested, current, awaiting, outputs,
                 compensated, failure, routeAttempts, signals, world>>

-----------------------------------------------------------------------------
(* Signals.  Temporal delivers none to a closed workflow.                   *)

Approve(s, decision) ==
  /\ pc # "done"
  /\ IF approvals[s] = NoDecision
     THEN /\ approvals' = [approvals EXCEPT ![s] = decision]
          /\ UNCHANGED conflict
     ELSE /\ conflict' = (conflict \/ approvals[s] # decision)
          /\ UNCHANGED approvals
  /\ UNCHANGED <<plan, control, snapshot, cancel, world>>

RequestCancel ==
  /\ pc # "done"
  /\ cancel' = TRUE
  /\ UNCHANGED <<plan, control, snapshot, approvals, conflict, world>>

(* The outside world: a timed-out attempt takes effect after all.           *)
LateEffect(s) ==
  /\ s \in zombies
  /\ effect' = [effect EXCEPT ![s] = "present"]
  /\ zombies' = zombies \ {s}
  /\ UNCHANGED <<plan, control, snapshot, signals, calls>>

(* The closed workflow, kept so that an open one that is stuck is a deadlock. *)
Closed == pc = "done" /\ UNCHANGED workflowVars

-----------------------------------------------------------------------------
ActivityResults == [reference: BOOLEAN, source: BOOLEAN]

(* What Temporal drives: activity results, and timers and satisfied waits.  *)
Progress ==
  \/ Start
  \/ ApprovalDecided
  \/ ApprovalTimeout
  \/ \E result \in ActivityResults : StepSucceeds(result)
  \/ \E f \in RawFailures : StepRetries(f) \/ StepFails(f)
  \/ CompensationSucceeds
  \/ CompensationFails
  \/ \E f \in RawFailures : VerificationFails(f)
  \/ VerificationMismatch
  \/ VerificationReports

Signal ==
  \/ \E s \in StepIds, d \in Decisions : Approve(s, d)
  \/ RequestCancel

WorkflowNext ==
  \/ Progress
  \/ Signal
  \/ Closed

(* The same in a world with LateEffects; without them no attempt is left to *)
(* take effect late, and WorkflowNext is all there is.                      *)
LateWorkflowNext ==
  \/ WorkflowNext
  \/ \E s \in StepIds : LateEffect(s)

WorkflowSpec == WorkflowInit /\ [][WorkflowNext]_workflowVars

(* Timers are durable, activities have a start-to-close timeout and a       *)
(* bounded number of attempts, and a worker polls the task queue.  Nothing  *)
(* is assumed of operators: signals need never come.                        *)
FairWorkflowSpec ==
  WorkflowInit /\ [][LateWorkflowNext]_workflowVars /\ WF_workflowVars(Progress)

-----------------------------------------------------------------------------
RouteAttemptRecords ==
  [step: StepIds, candidate: Nat, status: {"SUCCEEDED", "FAILED"},
   code: FailureCodes \cup {"none"}]

InternalCodes == {"none", "cancelled", "approval_timeout", "approval_conflict",
                  "uncompensated_effect", "compensation_reference_missing",
                  "compensation_failed", "verification_report_mismatch",
                  "unknown_effect_verification_failed"}

(* Every variable ranges over what the code can store in it.                *)
WorkflowTypeOK ==
  /\ plan \in Plans
  /\ pc \in {"new", "approval", "activity", "compensating", "verifying",
             "reconciling", "done"}
  /\ alt \in Nat /\ attempt \in Nat
  /\ queue \subseteq StepIds
  /\ requested \in [terminal: Terminal, code: FailureCodes \cup InternalCodes,
                    unresolved: BOOLEAN, any: BOOLEAN]
  /\ status \in Statuses \cup {INVALID}
  /\ current \in StepIds \cup {NoStep}
  /\ awaiting \in StepIds \cup {NoStep}
  /\ outputs \in Seq(ActivityResults)
  /\ compensated \in Seq(StepIds)
  /\ failure \in FailureCodes \cup InternalCodes
  /\ report \in {"none", "VERIFIED", "NEEDS_REVIEW", "HALTED"}
  /\ routeAttempts \in Seq(RouteAttemptRecords)
  /\ approvals \in [StepIds -> Decisions \cup {NoDecision}]
  /\ conflict \in BOOLEAN /\ cancel \in BOOLEAN
  /\ effect \in [StepIds -> {"absent", "present", "undone"}]
  /\ calls \in [StepIds -> Nat]
  /\ zombies \subseteq StepIds

(* Whatever the order of signals, timers, failures and compensations, the   *)
(* workflow only asks _set_status for transitions of the table: it never    *)
(* raises InvalidExecutionTransition, which would wedge the transaction.    *)
NoInvalidTransition == status # INVALID

(* No adapter is called for a step behind an approval boundary unless the   *)
(* decision recorded for that very step approves it, whatever was signalled *)
(* before, after or in conflict with it.                                    *)
ApprovedBeforeCall ==
  \A i \in 1..StepCount :
    StepOf(i).approval /\ calls[i] > 0 => approvals[i] \in Approving

(* An attempt that ended in an unknown-effect code is neither repeated nor  *)
(* compensated, and neither is anything before it: it is only reconciled.   *)
UnknownEffectLeftAlone ==
  Completed < StepCount /\ failure \in StepOf(Running).unknown
    => compensated = <<>> /\ calls[Running] = 1

(* The recorded route attempts: a step is tried again, with the next        *)
(* candidate, only when it is read-only and failed with a code its          *)
(* candidate declares safe; a success is final.                             *)
FallbackIsSafe ==
  \A j \in 1..(Len(routeAttempts) - 1) :
    LET a == routeAttempts[j]
        b == routeAttempts[j + 1]
    IN  \/ b.step > a.step /\ a.status = "SUCCEEDED" /\ b.candidate = 1
        \/ /\ b.step = a.step
           /\ b.candidate = a.candidate + 1
           /\ a.status = "FAILED"
           /\ ~IsWrite(StepOf(a.step))
           /\ a.code \in StepOf(a.step).routes[a.candidate].safe

(* A cancelled transaction closes: bounded attempts and the race-free wait  *)
(* condition leave it no await to hang in.                                  *)
CancelCloses == cancel ~> pc = "done"

(* A plan whose approvals all have a timeout closes without any operator.   *)
TimedPlansClose ==
  (\A i \in 1..StepCount : StepOf(i).approval => StepOf(i).timed) ~> pc = "done"

-----------------------------------------------------------------------------
(* The transaction as its submitter sees it.                                *)
Outcome == INSTANCE TransactionOutcome WITH
  Steps <- StepIds,
  writes <- {i \in 1..StepCount : IsWrite(StepOf(i))},
  undoable <- {i \in 1..StepCount : StepOf(i).compensation # "none"},
  outcome <- IF pc = "done" THEN status ELSE "OPEN"

(* Every run of the workflow is a run of TransactionOutcome: writes happen  *)
(* in plan order, are undone latest first, and the reported terminal status *)
(* is honest about them.                                                    *)
ImplementsOutcome == Outcome!Spec

=============================================================================
