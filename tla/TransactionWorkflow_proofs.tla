---------------------- MODULE TransactionWorkflow_proofs ----------------------
(***************************************************************************)
(* What the transaction workflow promises, for plans of any length and     *)
(* shape, any error codes, any number of attempts and any signals.         *)
(*                                                                         *)
(* The invariants below are layered.  ControlInv ties the await the        *)
(* coroutine is suspended in to the status and to the loop counters;       *)
(* CallsInv, RouteInv and EffectInv say what each await has left behind in *)
(* the adapter calls, in the route attempts and in the outside world.      *)
(***************************************************************************)
EXTENDS TransactionWorkflow, WellFoundedInduction, TLAPS

CompensationTerminals == {"COMPENSATED", "REJECTED", "HALTED", "CANCELLED"}

(* The step loop has not been left yet.                                     *)
InLoop == pc \in {"new", "approval", "activity"}

(* Between two steps: the step the loop is at has not been called.          *)
BetweenSteps == pc \in {"new", "approval"}

(* Which status and which counters go with which await.                     *)
ControlInv ==
  /\ Completed <= StepCount
  /\ pc = "new" => status = "ACCEPTED" /\ outputs = <<>>
  /\ pc = "approval" => status = "WAITING_APPROVAL"
  /\ InLoop => Completed < StepCount
  /\ pc = "activity" =>
       /\ status = "RUNNING"
       /\ alt \in 1..Len(StepOf(Running).routes)
       /\ attempt \in 1..StepOf(Running).routes[alt].attempts
  /\ pc = "compensating" =>
       /\ status = "COMPENSATING"
       /\ queue # {}
       /\ requested.any
       /\ requested.terminal \in CompensationTerminals
  /\ pc = "verifying" => Completed = StepCount
  /\ pc = "reconciling" => Completed < StepCount
  /\ pc \in {"verifying", "reconciling"} => status = "VERIFYING"
  /\ pc = "done" => status \in Terminal

(* Calls are made in plan order, at most one per attempt, and only behind a *)
(* granted approval.                                                        *)
CallsInv ==
  /\ ApprovedBeforeCall
  /\ \A i \in StepIds : i > Running \/ (i = Running /\ BetweenSteps) => calls[i] = 0
  /\ pc = "activity" => calls[Running] > 0
  /\ pc = "activity" /\ alt = 1 => calls[Running] = attempt

(* A failure code is written when the run closes, or when an unknown effect *)
(* is handed over for reconciliation, and nothing is compensated before     *)
(* _finish_with_compensation.                                               *)
UnknownInv ==
  /\ pc \notin {"reconciling", "done"} => failure = "none"
  /\ pc \notin {"compensating", "done"} => compensated = <<>>
  /\ pc = "reconciling" => calls[Running] = 1
  /\ pc = "compensating" /\ Completed < StepCount =>
       requested.code \notin StepOf(Running).unknown
  /\ UnknownEffectLeftAlone

LastRoute == routeAttempts[Len(routeAttempts)]

(* What the latest route attempt was, seen from inside the step loop.       *)
RouteInv ==
  /\ FallbackIsSafe
  /\ (BetweenSteps \/ (pc = "activity" /\ alt = 1)) /\ routeAttempts # <<>> =>
       LastRoute.step < Running /\ LastRoute.status = "SUCCEEDED"
  /\ pc = "activity" /\ alt > 1 =>
       /\ routeAttempts # <<>>
       /\ LastRoute.step = Running
       /\ LastRoute.candidate = alt - 1
       /\ LastRoute.status = "FAILED"
       /\ LastRoute.code \in StepOf(Running).routes[alt - 1].safe

(* Where external effects can be.  While the step loop runs, or after it    *)
(* when nothing is to be undone, all completed writes are in place; once    *)
(* compensation runs, what can still be undone is queued.                   *)
EffectInv ==
  /\ \A i \in StepIds : effect[i] # "absent" => i <= StepCount /\ IsWrite(StepOf(i))
  /\ pc \notin {"compensating", "done"} =>
       /\ \A i \in StepIds : effect[i] # "undone"
       /\ \A i \in 1..Completed : IsWrite(StepOf(i)) => effect[i] = "present"
       /\ \A i \in StepIds : i > Running \/ (i = Running /\ BetweenSteps)
                               => effect[i] = "absent"
  /\ pc = "compensating" =>
       /\ \A i \in queue : i <= StepCount /\ StepOf(i).compensation # "none"
       /\ \A i \in StepIds :
            effect[i] = "present" /\ (StepOf(i).compensation # "none" \/ ~requested.unresolved)
              => i \in queue

-----------------------------------------------------------------------------
(* Lemmas about the operators.                                              *)

(* The rows of the transition table the workflow uses.                      *)
LEMMA TransitionRows ==
  /\ Transition("ACCEPTED", "RUNNING") = "RUNNING"
  /\ \A t \in {"WAITING_APPROVAL", "COMPENSATING", "VERIFYING", "EXECUTED_UNVERIFIED",
               "CANCELLED", "HALTED"} : Transition("RUNNING", t) = t
  /\ \A t \in {"RUNNING", "COMPENSATING", "REJECTED", "CANCELLED", "HALTED"} :
       Transition("WAITING_APPROVAL", t) = t
  /\ \A t \in CompensationTerminals : Transition("COMPENSATING", t) = t
  /\ \A t \in {"VERIFIED", "NEEDS_REVIEW", "HALTED"} : Transition("VERIFYING", t) = t
<1>1. /\ AllowedTransitions["ACCEPTED"] = {"RUNNING", "CANCELLED", "HALTED"}
      /\ AllowedTransitions["RUNNING"] =
           {"WAITING_APPROVAL", "COMPENSATING", "VERIFYING", "EXECUTED_UNVERIFIED",
            "CANCELLED", "HALTED"}
  BY DEF AllowedTransitions, Statuses
<1>2. /\ AllowedTransitions["WAITING_APPROVAL"] =
           {"RUNNING", "COMPENSATING", "REJECTED", "CANCELLED", "HALTED"}
      /\ AllowedTransitions["COMPENSATING"] = CompensationTerminals
      /\ AllowedTransitions["VERIFYING"] = {"VERIFIED", "NEEDS_REVIEW", "HALTED", "CANCELLED"}
  BY DEF AllowedTransitions, Statuses, CompensationTerminals
<1> QED
  BY <1>1, <1>2 DEF Transition

(* What the plan contract gives about the steps of a plan.                  *)
LEMMA PlanFacts ==
  ASSUME plan \in Plans
  PROVE  /\ StepCount \in Nat /\ 0 < StepCount /\ StepCount <= MaxSteps
         /\ plan.verification \in BOOLEAN
         /\ \A i \in 1..StepCount :
              i \in StepIds /\ StepOf(i) \in Steps /\ ValidStep(StepOf(i))
<1>1. ValidPlan(plan)
  BY PlansAssumption
<1>2. plan.steps \in Seq(Steps) /\ plan.steps # <<>> /\ Len(plan.steps) <= MaxSteps
  BY <1>1 DEF ValidPlan
<1>3. MaxSteps \in Nat
  BY ConstantsAssumption
<1> QED
  BY <1>1, <1>2, <1>3 DEF ValidPlan, StepCount, StepOf, StepIds

(* The routes of a step.                                                    *)
LEMMA RouteFacts ==
  ASSUME NEW s \in Steps, ValidStep(s)
  PROVE  /\ s.routes \in Seq(Alternatives) /\ Len(s.routes) \in Nat /\ 1 <= Len(s.routes)
         /\ \A a \in 1..Len(s.routes) :
              /\ s.routes[a] \in Alternatives
              /\ s.routes[a].attempts \in Nat /\ 1 <= s.routes[a].attempts
         /\ IsWrite(s) => Len(s.routes) = 1
         /\ Len(s.routes) > 1 => s.routed
         /\ s.unknown # {} => Len(s.routes) = 1 /\ s.routes[1].attempts = 1
<1>1. s.routes \in Seq(Alternatives) /\ s.routes # <<>>
  BY DEF Steps, ValidStep
<1>2. Len(s.routes) \in Nat /\ 1 <= Len(s.routes)
  BY <1>1
<1>3. ASSUME NEW a \in 1..Len(s.routes)
      PROVE  /\ s.routes[a] \in Alternatives
             /\ s.routes[a].attempts \in Nat /\ 1 <= s.routes[a].attempts
  <2>1. s.routes[a] \in Alternatives
    BY <1>1, <1>2
  <2> QED BY <2>1 DEF Alternatives
<1>4. IsWrite(s) => Len(s.routes) = 1
  <2>1. Len(s.routes) > 1 => ~IsWrite(s)
    BY DEF ValidStep
  <2>2. ASSUME NEW n \in Nat, 1 <= n, ~(n > 1) PROVE n = 1
    BY <2>2
  <2>3. ~(Len(s.routes) > 1) => Len(s.routes) = 1
    BY <1>2, <2>2
  <2> QED BY <2>1, <2>3, Zenon
<1>5. Len(s.routes) > 1 => s.routed
  <2>1. ~s.routed => Len(s.routes) = 1
    BY DEF ValidStep
  <2>2. ~(1 > 1)
    OBVIOUS
  <2> QED BY <2>1, <2>2, Zenon
<1>6. s.unknown # {} => Len(s.routes) = 1 /\ s.routes[1].attempts = 1
  BY <1>4 DEF ValidStep
<1> QED BY <1>1, <1>2, <1>3, <1>4, <1>5, <1>6

(* Every bounded non-empty set of positions has a latest one.               *)
LEMMA LatestExists ==
  ASSUME NEW N \in Nat, NEW Q \in SUBSET (1..N), Q # {}
  PROVE  \E s \in Q : \A t \in Q : t <= s
<1> DEFINE R == {N - q : q \in Q}
<1>1. R \subseteq Nat
  OBVIOUS
<1>2. R # {}
  OBVIOUS
<1>3. PICK r \in R : \A t \in R : ~(<<t, r>> \in OpToRel(<, Nat))
  <2> HIDE DEF R
  <2> QED BY <1>1, <1>2, NatLessThanWellFounded, WFMin
<1>4. \A t \in R : ~(t < r)
  BY <1>1, <1>3 DEF OpToRel
<1>5. PICK s \in Q : r = N - s
  OBVIOUS
<1>6. ASSUME NEW t \in Q PROVE t <= s
  <2>1. ~(N - t < N - s)
    BY <1>4, <1>5
  <2> QED BY <2>1
<1> QED BY <1>6

(* reversed(compensatable) begins with the latest step.                     *)
LEMMA Latest ==
  ASSUME NEW Q \in SUBSET StepIds, Q # {}
  PROVE  NextToCompensate(Q) \in Q /\ \A t \in Q : t <= NextToCompensate(Q)
<1>1. \E s \in Q : \A t \in Q : t <= s
  BY LatestExists, ConstantsAssumption DEF StepIds
<1> QED BY <1>1 DEF NextToCompensate

-----------------------------------------------------------------------------
(* Lemmas about the blocks the actions are made of.                         *)

Undoable(n) == {s \in 1..n : StepOf(s).compensation # "none"}

(* What _finish_with_compensation leaves: the run suspended in its first    *)
(* compensation with everything undoable queued, or closed; and closed with *)
(* the terminal it was asked for only when there is nothing to undo.        *)
Finished(n, terminal, code) ==
  /\ queue' = Undoable(n)
  /\ requested' = [terminal |-> terminal, code |-> code,
                   unresolved |-> UnresolvedEffect(n), any |-> Undoable(n) # {}]
  /\ UNCHANGED <<alt, attempt, calls, report>>
  /\ \/ /\ pc' = "compensating" /\ status' = "COMPENSATING" /\ Undoable(n) # {}
        /\ UNCHANGED <<failure, current, awaiting>>
     \/ /\ pc' = "done" /\ status' = "HALTED" /\ current' = NoStep
        /\ failure' \in {code, "uncompensated_effect", "compensation_reference_missing"}
        /\ awaiting' \in {awaiting, NoStep}
     \/ /\ pc' = "done" /\ status' = terminal /\ current' = NoStep
        /\ terminal \in Terminal /\ failure' = code /\ awaiting' = NoStep
        /\ ~UnresolvedEffect(n) /\ Undoable(n) = {}

(* The statuses _finish_with_compensation is called in, and its terminals.  *)
Finishable(cur, terminal) ==
  \/ cur = "RUNNING" /\ terminal \in {"CANCELLED", "HALTED", "COMPENSATED"}
  \/ cur = "WAITING_APPROVAL" /\ terminal \in {"CANCELLED", "HALTED", "REJECTED"}

(* _finish_with_compensation does that wherever the workflow calls it.      *)
LEMMA FinishShape ==
  ASSUME NEW cur, NEW n \in Nat, NEW outs, NEW terminal, NEW code,
         Finishable(cur, terminal),
         FinishWithCompensation(cur, n, outs, terminal, code)
  PROVE  Finished(n, terminal, code)
<1> USE DEF Finishable
<1> DEFINE Q == Undoable(n)
           req == [terminal |-> terminal, code |-> code,
                   unresolved |-> UnresolvedEffect(n), any |-> Q # {}]
           begun == IF Q = {} THEN cur ELSE Transition(cur, "COMPENSATING")
<1>1. RunCompensations(begun, Q, outs, req) /\ UNCHANGED <<alt, attempt, calls, report>>
  BY DEF FinishWithCompensation, Undoable
<1>2. Q # {} => begun = "COMPENSATING"
  BY TransitionRows
<1>3. Q = {} => begun = cur
  OBVIOUS
<1>4. /\ req.terminal = terminal /\ req.code = code
      /\ req.unresolved = UnresolvedEffect(n) /\ req.any = (Q # {})
  OBVIOUS
<1> HIDE DEF Q, req, Finished, begun
<1>5. queue' = Q /\ requested' = req
  BY <1>1 DEF RunCompensations
<1>6. CASE Q = {} /\ Conclude(begun, req)
  <2>1. begun = cur /\ ~req.any
    BY <1>3, <1>4, <1>6
  <2>2. CASE req.unresolved \/ terminal = "COMPENSATED"
    <3>1. status' = "HALTED"
      BY <1>4, <1>6, <2>1, <2>2, TransitionRows DEF Conclude
    <3>2. failure' \in {code, "uncompensated_effect"} /\ pc' = "done"
          /\ current' = NoStep /\ awaiting' = NoStep
      BY <1>4, <1>6 DEF Conclude
    <3> QED BY <1>1, <1>5, <3>1, <3>2 DEF Q, req, Finished
  <2>3. CASE ~(req.unresolved \/ terminal = "COMPENSATED")
    <3>1. status' = terminal /\ terminal \in Terminal
      BY <1>4, <1>6, <2>1, <2>3, TransitionRows DEF Conclude, Terminal
    <3>2. failure' = code /\ pc' = "done" /\ current' = NoStep /\ awaiting' = NoStep
      BY <1>4, <1>6, <2>3 DEF Conclude
    <3>3. ~UnresolvedEffect(n)
      BY <1>4, <2>3
    <3> QED BY <1>1, <1>5, <1>6, <3>1, <3>2, <3>3 DEF Q, req, Finished
  <2> QED BY <2>2, <2>3
<1>7. CASE Q # {} /\ HaltCompensation(begun, "compensation_reference_missing")
  <2>1. status' = "HALTED" /\ pc' = "done" /\ current' = NoStep /\ UNCHANGED awaiting
        /\ failure' = "compensation_reference_missing"
    BY <1>2, <1>7, TransitionRows DEF HaltCompensation, CompensationTerminals
  <2> QED BY <1>1, <1>5, <2>1 DEF Q, req, Finished
<1>8. CASE Q # {} /\ pc' = "compensating" /\ status' = begun
           /\ UNCHANGED <<failure, current, awaiting>>
  BY <1>1, <1>2, <1>5, <1>8 DEF Q, req, Finished
<1> QED
  BY <1>1, <1>6, <1>7, <1>8 DEF RunCompensations

(* The types of what the workflow stores in one block: its control state    *)
(* and the fields of the snapshot that every block may write.               *)
BlockTypes ==
  /\ pc' \in {"new", "approval", "activity", "compensating", "verifying",
              "reconciling", "done"}
  /\ alt' \in Nat /\ attempt' \in Nat
  /\ queue' \subseteq StepIds
  /\ requested' \in [terminal: Terminal, code: FailureCodes \cup InternalCodes,
                     unresolved: BOOLEAN, any: BOOLEAN]
  /\ status' \in Statuses \cup {INVALID}
  /\ current' \in StepIds \cup {NoStep}
  /\ awaiting' \in StepIds \cup {NoStep}
  /\ failure' \in FailureCodes \cup InternalCodes
  /\ report' \in {"none", "VERIFIED", "NEEDS_REVIEW", "HALTED"}
  /\ calls' \in [StepIds -> Nat]

(* What _finish_with_compensation stores has its type.                      *)
LEMMA FinishTypes ==
  ASSUME WorkflowTypeOK, NEW n \in 0..StepCount, NEW terminal \in Terminal,
         NEW code \in FailureCodes \cup InternalCodes,
         Finished(n, terminal, code)
  PROVE  BlockTypes
<1>1. Undoable(n) \subseteq StepIds
  BY PlanFacts DEF Undoable, WorkflowTypeOK
<1>2. UnresolvedEffect(n) \in BOOLEAN
  BY DEF UnresolvedEffect
<1>3. requested' \in [terminal: Terminal, code: FailureCodes \cup InternalCodes,
                     unresolved: BOOLEAN, any: BOOLEAN]
  BY <1>2 DEF Finished
<1>4. /\ pc' \in {"compensating", "done"} /\ status' \in Statuses
      /\ failure' \in FailureCodes \cup InternalCodes
      /\ current' \in {current, NoStep} /\ awaiting' \in {awaiting, NoStep}
  BY DEF Finished, Statuses, Terminal, WorkflowTypeOK, InternalCodes
<1>5. queue' = Undoable(n) /\ UNCHANGED <<alt, attempt, calls, report>>
  BY DEF Finished
<1> QED
  BY <1>1, <1>3, <1>4, <1>5 DEF BlockTypes, WorkflowTypeOK

(* The top of the step loop: cancelled, waiting, calling, or at the end.    *)
Proceeded(outs) ==
  \/ cancel /\ Finished(Len(outs), "CANCELLED", "cancelled")
  \/ /\ Len(outs) < StepCount
     /\ pc' = "approval" /\ status' = "WAITING_APPROVAL"
     /\ current' = Len(outs) + 1 /\ awaiting' = Len(outs) + 1
     /\ UNCHANGED <<alt, attempt, queue, requested, failure, calls, report>>
  \/ /\ Len(outs) < StepCount /\ ~StepOf(Len(outs) + 1).approval
     /\ Dispatch("RUNNING", Len(outs) + 1)
  \/ /\ Len(outs) = StepCount
     /\ current' = NoStep
     /\ \/ pc' = "verifying" /\ status' = "VERIFYING"
        \/ pc' = "done" /\ status' = "EXECUTED_UNVERIFIED"
     /\ UNCHANGED <<alt, attempt, queue, requested, awaiting, failure, calls, report>>

(* Proceed does one of these.                                               *)
LEMMA ProceedShape ==
  ASSUME NEW outs, Len(outs) \in Nat, plan \in Plans, Len(outs) <= StepCount,
         Proceed("RUNNING", outs)
  PROVE  Proceeded(outs)
<1> USE PlanFacts
<1>1. CASE FinishWithCompensation("RUNNING", Len(outs), outs, "CANCELLED", "cancelled") /\ cancel
  <2>1. Finished(Len(outs), "CANCELLED", "cancelled")
    BY <1>1, FinishShape DEF Finishable
  <2> QED BY <1>1, <2>1 DEF Proceeded
<1>2. CASE Len(outs) + 1 <= StepCount
  <2>1. Len(outs) < StepCount
    BY <1>2
  <2> QED BY <1>1, <1>2, <2>1, TransitionRows DEF Proceed, Proceeded, StopRequested, MoreSteps
<1>3. CASE ~(Len(outs) + 1 <= StepCount)
  <2>1. Len(outs) = StepCount
    BY <1>3
  <2> QED BY <1>1, <1>3, <2>1, TransitionRows DEF Proceed, Proceeded, StopRequested, MoreSteps
<1> QED BY <1>2, <1>3

(* What the loop stores has its type.                                       *)
LEMMA ProceedTypes ==
  ASSUME WorkflowTypeOK, NEW outs, Len(outs) \in Nat, Len(outs) <= StepCount, Proceeded(outs)
  PROVE  BlockTypes
<1> USE PlanFacts DEF WorkflowTypeOK
<1>1. CASE Finished(Len(outs), "CANCELLED", "cancelled")
  <2>1. "CANCELLED" \in Terminal /\ "cancelled" \in FailureCodes \cup InternalCodes
    BY DEF Terminal, InternalCodes
  <2> QED BY <1>1, <2>1, FinishTypes
<1>2. CASE ~Finished(Len(outs), "CANCELLED", "cancelled")
  <2>1. Len(outs) < StepCount => Len(outs) + 1 \in StepIds
    OBVIOUS
  <2>2. CASE Len(outs) < StepCount /\ Dispatch("RUNNING", Len(outs) + 1)
    <3>1. calls' \in [StepIds -> Nat]
      BY <2>1, <2>2 DEF Dispatch, Invoke
    <3> QED BY <2>1, <2>2, <3>1 DEF BlockTypes, Dispatch, Invoke, Statuses
  <2>3. CASE ~(Len(outs) < StepCount /\ Dispatch("RUNNING", Len(outs) + 1))
    BY <1>2, <2>1, <2>3 DEF Proceeded, BlockTypes, Statuses, Terminal
  <2> QED BY <2>2, <2>3
<1> QED BY <1>1, <1>2

-----------------------------------------------------------------------------
(* Lemmas about the actions: what each does, with the blocks resolved.      *)

BaseInv == WorkflowTypeOK /\ ControlInv

(* The numbers of the loop.                                                 *)
LEMMA LoopFacts ==
  ASSUME BaseInv
  PROVE  /\ plan \in Plans
         /\ Completed \in Nat /\ Running = Completed + 1 /\ Completed <= StepCount
         /\ Completed \in 0..StepCount
         /\ InLoop \/ pc = "reconciling" =>
              /\ Running \in 1..StepCount /\ Running \in StepIds
              /\ StepOf(Running) \in Steps /\ ValidStep(StepOf(Running))
<1>1. plan \in Plans /\ Completed \in Nat /\ Completed <= StepCount
  BY DEF BaseInv, WorkflowTypeOK, ControlInv, Completed
<1>2. InLoop \/ pc = "reconciling" => Completed < StepCount
  BY DEF BaseInv, ControlInv
<1> QED
  BY <1>1, <1>2, PlanFacts DEF Running

(* Starting, or leaving the approval wait.                                  *)
BetweenStep ==
  /\ BetweenSteps
  /\ UNCHANGED <<plan, outputs, compensated, routeAttempts, signals, effect, zombies>>
  /\ \/ Proceeded(outputs)
     \/ \E terminal \in {"CANCELLED", "HALTED", "REJECTED"}, code \in InternalCodes :
          Finished(Completed, terminal, code)
     \/ approvals[Running] \in Approving /\ Dispatch("RUNNING", Running)

(* Start, ApprovalDecided and ApprovalTimeout do just that.                 *)
LEMMA BetweenShape ==
  ASSUME BaseInv, Start \/ ApprovalDecided \/ ApprovalTimeout
  PROVE  BetweenStep
<1> USE LoopFacts
<1>1. CASE Start
  <2>1. Proceed("RUNNING", outputs)
    BY <1>1, TransitionRows DEF Start, BaseInv, ControlInv
  <2>2. Proceeded(outputs)
    BY <2>1, ProceedShape DEF Completed
  <2> QED BY <1>1, <2>2 DEF Start, BetweenStep, BetweenSteps
<1>2. CASE ApprovalDecided
  <2> DEFINE cur == IF Granted(approvals[Running]) THEN Transition(status, "RUNNING") ELSE status
  <2>0. pc = "approval" /\ status = "WAITING_APPROVAL"
    BY <1>2 DEF ApprovalDecided, BaseInv, ControlInv
  <2>1. cur = IF Granted(approvals[Running]) THEN "RUNNING" ELSE "WAITING_APPROVAL"
    BY <2>0, TransitionRows
  <2>2. \/ FinishWithCompensation(status, Completed, outputs, "CANCELLED", "cancelled")
        \/ FinishWithCompensation(cur, Completed, outputs, "HALTED", "approval_conflict")
        \/ /\ ~Granted(approvals[Running])
           /\ FinishWithCompensation(cur, Completed, outputs, "REJECTED", "none")
        \/ Granted(approvals[Running]) /\ Dispatch(cur, Running)
    BY <1>2 DEF ApprovalDecided
  <2> HIDE DEF cur
  <2>3. \/ Finished(Completed, "CANCELLED", "cancelled")
        \/ Finished(Completed, "HALTED", "approval_conflict")
        \/ Finished(Completed, "REJECTED", "none")
        \/ Granted(approvals[Running]) /\ Dispatch("RUNNING", Running)
    BY <2>0, <2>1, <2>2, FinishShape DEF Finishable
  <2>4. {"cancelled", "approval_conflict", "none"} \subseteq InternalCodes
    BY DEF InternalCodes
  <2>5. \/ \E terminal \in {"CANCELLED", "HALTED", "REJECTED"}, code \in InternalCodes :
             Finished(Completed, terminal, code)
        \/ approvals[Running] \in Approving /\ Dispatch("RUNNING", Running)
    BY <2>3, <2>4 DEF Granted
  <2> QED BY <1>2, <2>5 DEF ApprovalDecided, BetweenStep, BetweenSteps
<1>3. CASE ApprovalTimeout
  <2>0. pc = "approval" /\ status = "WAITING_APPROVAL"
    BY <1>3 DEF ApprovalTimeout, BaseInv, ControlInv
  <2>1. \/ FinishWithCompensation(status, Completed, outputs, "CANCELLED", "cancelled")
        \/ FinishWithCompensation(status, Completed, outputs, "HALTED", "approval_timeout")
    BY <1>3 DEF ApprovalTimeout
  <2>2. \/ Finished(Completed, "CANCELLED", "cancelled")
        \/ Finished(Completed, "HALTED", "approval_timeout")
    BY <2>0, <2>1, FinishShape DEF Finishable
  <2>3. {"cancelled", "approval_timeout"} \subseteq InternalCodes
    BY DEF InternalCodes
  <2> QED BY <1>3, <2>2, <2>3 DEF ApprovalTimeout, BetweenStep, BetweenSteps
<1> QED BY <1>1, <1>2, <1>3

(* A step that succeeds: its result is recorded and the loop goes on.       *)
LEMMA SucceedShape ==
  ASSUME BaseInv, NEW result \in ActivityResults, StepSucceeds(result)
  PROVE  /\ outputs' \in Seq(ActivityResults)
         /\ Len(outputs') = Running /\ Len(outputs') \in Nat /\ Len(outputs') <= StepCount
         /\ Proceeded(outputs')
<1>1. pc = "activity" /\ status = "RUNNING" /\ InLoop
  BY DEF StepSucceeds, BaseInv, ControlInv, InLoop
<1>2. outputs' \in Seq(ActivityResults) /\ Len(outputs') = Running
  BY DEF StepSucceeds, BaseInv, WorkflowTypeOK, Running, Completed
<1>3. Len(outputs') \in Nat /\ Len(outputs') <= StepCount
  BY <1>1, <1>2, LoopFacts
<1>4. Proceed("RUNNING", outputs')
  BY <1>1 DEF StepSucceeds
<1>5. Proceeded(outputs')
  BY <1>3, <1>4, ProceedShape, LoopFacts
<1> QED BY <1>2, <1>3, <1>5

(* A step that fails for good: the next route, reconciliation of an unknown *)
(* effect, or the undoing of what may have happened.                        *)
Failed(code) ==
  \/ /\ CanFallback(code)
     /\ Invoke(Running, alt + 1)
     /\ UNCHANGED <<status, current, awaiting, failure>>
  \/ /\ EffectUnknown(code)
     /\ failure' = code /\ current' = NoStep /\ awaiting' = NoStep
     /\ \/ pc' = "reconciling" /\ status' = "VERIFYING"
        \/ pc' = "done" /\ status' = "HALTED"
     /\ UNCHANGED <<alt, attempt, queue, requested, calls, report>>
  \/ /\ ~EffectUnknown(code)
     /\ \E terminal \in {"COMPENSATED", "HALTED"} :
          Finished(PossiblyEffectful, terminal, code)

(* StepFails does one of these.                                             *)
LEMMA FailShape ==
  ASSUME BaseInv, NEW f \in RawFailures, StepFails(f)
  PROVE  /\ ActivityFailureCode(f) \in FailureCodes
         /\ Failed(ActivityFailureCode(f))
<1> DEFINE code == ActivityFailureCode(f)
<1>0. pc = "activity" /\ status = "RUNNING"
  BY DEF StepFails, BaseInv, ControlInv
<1>1. code \in FailureCodes
  BY DEF ActivityFailureCode, FailureCodes
<1>2. PossiblyEffectful \in Nat
  BY LoopFacts DEF PossiblyEffectful
<1>3. \/ /\ CanFallback(code)
         /\ Invoke(Running, alt + 1)
         /\ UNCHANGED <<status, current, awaiting, failure>>
      \/ EffectUnknown(code) /\ FinishUnknownEffect(code)
      \/ /\ ~EffectUnknown(code)
         /\ \E terminal \in {"COMPENSATED", "HALTED"} :
              FinishWithCompensation(status, PossiblyEffectful, outputs, terminal, code)
  BY DEF StepFails
<1> HIDE DEF code
<1>4. ASSUME NEW terminal \in {"COMPENSATED", "HALTED"},
             FinishWithCompensation(status, PossiblyEffectful, outputs, terminal, code)
      PROVE  Finished(PossiblyEffectful, terminal, code)
  BY <1>0, <1>2, <1>4, FinishShape DEF Finishable
<1>5. ASSUME FinishUnknownEffect(code)
      PROVE  /\ failure' = code /\ current' = NoStep /\ awaiting' = NoStep
             /\ \/ pc' = "reconciling" /\ status' = "VERIFYING"
                \/ pc' = "done" /\ status' = "HALTED"
             /\ UNCHANGED <<alt, attempt, queue, requested, calls, report>>
  BY <1>0, <1>5, TransitionRows DEF FinishUnknownEffect
<1>6. Failed(code)
  BY <1>3, <1>4, <1>5 DEF Failed
<1> QED BY <1>1, <1>6 DEF code

(* A compensation that succeeds: the next one, or the end.  The terminal    *)
(* asked for is reported only when no effect was left without compensation. *)
Compensated ==
  LET s == NextToCompensate(queue) IN
  /\ s \in queue /\ \A t \in queue : t <= s
  /\ queue' = queue \ {s} /\ requested' = requested
  /\ \/ /\ pc' = "compensating" /\ status' = "COMPENSATING" /\ queue' # {}
        /\ UNCHANGED <<failure, current, awaiting>>
     \/ /\ pc' = "done" /\ status' = "HALTED" /\ current' = NoStep
        /\ failure' \in {requested.code, "uncompensated_effect",
                         "compensation_reference_missing"}
        /\ awaiting' \in {awaiting, NoStep}
     \/ /\ pc' = "done" /\ status' \in CompensationTerminals /\ current' = NoStep
        /\ queue' = {} /\ ~requested.unresolved
        /\ failure' = requested.code /\ awaiting' = NoStep

(* CompensationSucceeds does that.                                          *)
LEMMA CompensateShape ==
  ASSUME BaseInv, CompensationSucceeds
  PROVE  Compensated
<1> DEFINE s == NextToCompensate(queue)
<1>0. /\ status = "COMPENSATING" /\ queue # {} /\ queue \in SUBSET StepIds
      /\ requested.any /\ requested.terminal \in CompensationTerminals
  BY DEF CompensationSucceeds, BaseInv, ControlInv, WorkflowTypeOK
<1>1. s \in queue /\ \A t \in queue : t <= s
  BY <1>0, Latest
<1>2. RunCompensations(status, queue \ {s}, outputs, requested)
  BY DEF CompensationSucceeds
<1> HIDE DEF s
<1>3. queue' = queue \ {s} /\ requested' = requested
  BY <1>2 DEF RunCompensations
<1>4. CASE queue \ {s} = {} /\ Conclude(status, requested)
  <2>1. CASE requested.unresolved
    <3>1. status' = "HALTED" /\ failure' = "uncompensated_effect"
          /\ pc' = "done" /\ current' = NoStep /\ awaiting' = NoStep
      BY <1>0, <1>4, <2>1, TransitionRows DEF Conclude, CompensationTerminals
    <3> QED BY <1>1, <1>3, <3>1 DEF Compensated, s
  <2>2. CASE ~requested.unresolved
    <3>1. status' \in CompensationTerminals /\ failure' = requested.code
          /\ pc' = "done" /\ current' = NoStep /\ awaiting' = NoStep
      BY <1>0, <1>4, <2>2, TransitionRows DEF Conclude
    <3> QED BY <1>1, <1>3, <1>4, <2>2, <3>1 DEF Compensated, s
  <2> QED BY <2>1, <2>2
<1>5. CASE HaltCompensation(status, "compensation_reference_missing")
  <2>1. status' = "HALTED" /\ pc' = "done" /\ current' = NoStep /\ UNCHANGED awaiting
        /\ failure' = "compensation_reference_missing"
    BY <1>0, <1>5, TransitionRows DEF HaltCompensation, CompensationTerminals
  <2> QED BY <1>1, <1>3, <2>1 DEF Compensated, s
<1>6. CASE queue \ {s} # {} /\ pc' = "compensating" /\ status' = status
           /\ UNCHANGED <<failure, current, awaiting>>
  BY <1>0, <1>1, <1>3, <1>6 DEF Compensated, s
<1> QED
  BY <1>2, <1>4, <1>5, <1>6 DEF RunCompensations

(* A compensation that fails halts the run.                                 *)
LEMMA CompensationFailShape ==
  ASSUME BaseInv, CompensationFails
  PROVE  /\ NextToCompensate(queue) \in queue
         /\ \A t \in queue : t <= NextToCompensate(queue)
         /\ pc' = "done" /\ status' = "HALTED" /\ current' = NoStep /\ awaiting' = awaiting
         /\ failure' = "compensation_failed"
<1>0. status = "COMPENSATING" /\ queue # {} /\ queue \in SUBSET StepIds
  BY DEF CompensationFails, BaseInv, ControlInv, WorkflowTypeOK
<1> QED
  BY <1>0, Latest, TransitionRows DEF CompensationFails, HaltCompensation, CompensationTerminals

(* The end of a verification, in run or in _finish_unknown_effect.          *)
VerificationEnds ==
  \/ \E f \in RawFailures : VerificationFails(f)
  \/ VerificationMismatch
  \/ VerificationReports

(* It closes the run; only what verification stands for changes.            *)
LEMMA VerificationShape ==
  ASSUME BaseInv, VerificationEnds
  PROVE  /\ pc \in {"verifying", "reconciling"} /\ pc' = "done"
         /\ status' \in {"VERIFIED", "NEEDS_REVIEW", "HALTED"}
         /\ report' \in {report, "VERIFIED", "NEEDS_REVIEW", "HALTED"}
         /\ failure' \in FailureCodes \cup InternalCodes
         /\ pc = "reconciling" =>
              failure' \in {failure, "verification_report_mismatch",
                           "unknown_effect_verification_failed"}
         /\ UNCHANGED <<plan, alt, attempt, queue, requested, current, awaiting, outputs,
                        compensated, routeAttempts, signals, world>>
<1>1. ASSUME NEW f \in RawFailures PROVE ActivityFailureCode(f) \in FailureCodes
  BY DEF ActivityFailureCode, FailureCodes
<1>2. status = "VERIFYING" /\ failure \in FailureCodes \cup InternalCodes
  BY DEF VerificationEnds, VerificationFails, VerificationMismatch, VerificationReports,
      BaseInv, ControlInv, WorkflowTypeOK
<1>3. ASSUME NEW f \in RawFailures, VerificationFails(f)
      PROVE  /\ failure' \in FailureCodes \cup InternalCodes
             /\ pc = "reconciling" => failure' = "unknown_effect_verification_failed"
             /\ status' = "HALTED" /\ report' = report
  BY <1>1, <1>2, <1>3, TransitionRows DEF VerificationFails, InternalCodes
<1>4. ASSUME VerificationMismatch
      PROVE  /\ failure' = "verification_report_mismatch"
             /\ failure' \in InternalCodes
             /\ status' = "HALTED" /\ report' = report
  BY <1>2, <1>4, TransitionRows DEF VerificationMismatch, InternalCodes
<1>5. ASSUME VerificationReports
      PROVE  /\ failure' = failure
             /\ status' \in {"VERIFIED", "NEEDS_REVIEW", "HALTED"}
             /\ report' \in {"VERIFIED", "NEEDS_REVIEW", "HALTED"}
  BY <1>2, <1>5, TransitionRows DEF VerificationReports, PossibleVerdicts
<1>6. CASE \E f \in RawFailures : VerificationFails(f)
  BY <1>3, <1>6 DEF VerificationFails
<1>7. CASE VerificationMismatch
  BY <1>4, <1>7 DEF VerificationMismatch
<1>8. CASE VerificationReports
  BY <1>2, <1>5, <1>8 DEF VerificationReports
<1> QED BY <1>6, <1>7, <1>8 DEF VerificationEnds

-----------------------------------------------------------------------------
(* Types, and the agreement of status and control.                          *)

(* Entering the undoing of steps keeps control and status together.         *)
LEMMA FinishControl ==
  ASSUME NEW n, NEW terminal \in CompensationTerminals, NEW code,
         Finished(n, terminal, code), Completed' <= StepCount'
  PROVE  ControlInv'
  BY DEF Finished, ControlInv, InLoop, Terminal

(* So does calling a step for the first time.                               *)
LEMMA DispatchControl ==
  ASSUME plan \in Plans, plan' = plan, NEW i \in 1..StepCount,
         Completed' \in Nat, Running' = i, Dispatch("RUNNING", i)
  PROVE  ControlInv'
<1>1. StepOf(i) \in Steps /\ ValidStep(StepOf(i)) /\ StepCount \in Nat
  BY PlanFacts
<1>2. /\ 1 \in 1..Len(StepOf(i).routes)
      /\ 1 \in 1..StepOf(i).routes[1].attempts
  BY <1>1, RouteFacts
<1>3. alt' = 1 /\ attempt' = 1 /\ pc' = "activity" /\ status' = "RUNNING"
  BY DEF Dispatch, Invoke
<1>4. StepOf(Running)' = StepOf(i) /\ StepCount' = StepCount
  BY DEF StepOf, StepCount
<1>5. Completed' <= StepCount /\ Completed' < StepCount
  BY <1>1 DEF Running, Completed
<1> QED
  BY <1>2, <1>3, <1>4, <1>5 DEF ControlInv, InLoop

(* And the top of the loop.                                                 *)
LEMMA ProceedControl ==
  ASSUME plan \in Plans, plan' = plan, Completed' \in Nat, Completed' <= StepCount,
         Proceeded(outputs')
  PROVE  ControlInv'
<1>1. StepCount' = StepCount /\ StepCount \in Nat /\ Len(outputs') = Completed'
  BY PlanFacts DEF StepCount, Completed
<1>2. CASE Finished(Len(outputs'), "CANCELLED", "cancelled")
  BY <1>1, <1>2, FinishControl DEF CompensationTerminals
<1>3. CASE Len(outputs') < StepCount /\ Dispatch("RUNNING", Len(outputs') + 1)
  <2>1. Len(outputs') + 1 \in 1..StepCount /\ Running' = Len(outputs') + 1
    BY <1>1, <1>3 DEF Running, Completed
  <2> QED BY <1>3, <2>1, DispatchControl
<1>4. CASE Len(outputs') < StepCount /\ pc' = "approval" /\ status' = "WAITING_APPROVAL"
  BY <1>1, <1>4 DEF ControlInv, InLoop
<1>5. CASE /\ Len(outputs') = StepCount
           /\ \/ pc' = "verifying" /\ status' = "VERIFYING"
              \/ pc' = "done" /\ status' = "EXECUTED_UNVERIFIED"
  BY <1>1, <1>5 DEF ControlInv, InLoop, Terminal
<1> QED BY <1>2, <1>3, <1>4, <1>5 DEF Proceeded

(* The actions of the step loop that fail, apart from their blocks.         *)
LEMMA FailedAttemptTypes ==
  ASSUME BaseInv, InLoop, NEW f, FailedAttempt(f)
  PROVE  /\ effect' \in [StepIds -> {"absent", "present", "undone"}]
         /\ zombies' \subseteq StepIds
<1>1. Running \in StepIds
  BY LoopFacts
<1> QED
  BY <1>1 DEF FailedAttempt, BaseInv, WorkflowTypeOK

(* A recorded route attempt is well formed.                                 *)
LEMMA RecordTypes ==
  ASSUME BaseInv, InLoop, NEW outcome \in {"SUCCEEDED", "FAILED"},
         NEW code \in FailureCodes \cup {"none"}, RecordRoute(outcome, code)
  PROVE  routeAttempts' \in Seq(RouteAttemptRecords)
<1>1. Running \in StepIds /\ alt \in Nat /\ routeAttempts \in Seq(RouteAttemptRecords)
  BY LoopFacts DEF BaseInv, WorkflowTypeOK
<1>2. [step |-> Running, candidate |-> alt, status |-> outcome, code |-> code]
        \in RouteAttemptRecords
  BY <1>1 DEF RouteAttemptRecords
<1> QED
  BY <1>1, <1>2 DEF RecordRoute

(* Status, control and types are kept by every step.                        *)
LEMMA BaseStep == BaseInv /\ [WorkflowNext]_workflowVars => BaseInv'
<1> SUFFICES ASSUME BaseInv, [WorkflowNext]_workflowVars PROVE BaseInv'
  OBVIOUS
<1> USE LoopFacts, PlanFacts
<1>0. WorkflowTypeOK /\ ControlInv
  BY DEF BaseInv
<1>1. CASE Start \/ ApprovalDecided \/ ApprovalTimeout
  <2>1. BetweenStep
    BY <1>1, BetweenShape
  <2>2. /\ UNCHANGED <<plan, outputs, compensated, routeAttempts, signals, effect, zombies>>
        /\ Completed' = Completed /\ Running' = Running /\ StepCount' = StepCount
    BY <2>1 DEF BetweenStep, Completed, Running, StepCount
  <2>3. BetweenSteps /\ Running \in 1..StepCount
    BY <2>1 DEF BetweenStep, BetweenSteps, InLoop
  <2>4. BlockTypes /\ ControlInv'
    <3>1. CASE Proceeded(outputs)
      <4>1. BlockTypes
        BY <1>0, <3>1, ProceedTypes DEF Completed
      <4>2. ControlInv'
        BY <2>2, <3>1, ProceedControl
      <4> QED BY <4>1, <4>2
    <3>2. ASSUME NEW terminal \in {"CANCELLED", "HALTED", "REJECTED"}, NEW code \in InternalCodes,
                 Finished(Completed, terminal, code)
          PROVE  BlockTypes /\ ControlInv'
      <4>1. terminal \in Terminal /\ terminal \in CompensationTerminals
        BY DEF Terminal, CompensationTerminals
      <4>2. BlockTypes
        BY <1>0, <3>2, <4>1, FinishTypes
      <4> QED BY <2>2, <3>2, <4>1, <4>2, FinishControl
    <3>3. CASE Dispatch("RUNNING", Running)
      <4>1. ControlInv'
        BY <2>2, <2>3, <3>3, DispatchControl
      <4>2. calls' \in [StepIds -> Nat]
        BY <1>0, <2>3, <3>3 DEF Dispatch, Invoke, WorkflowTypeOK
      <4>3. BlockTypes
        BY <1>0, <2>3, <3>3, <4>2 DEF Dispatch, Invoke, WorkflowTypeOK, BlockTypes, Statuses
      <4> QED BY <4>1, <4>3
    <3> QED BY <2>1, <3>1, <3>2, <3>3 DEF BetweenStep
  <2>5. WorkflowTypeOK'
    BY <1>0, <2>2, <2>4 DEF BlockTypes, WorkflowTypeOK, signals
  <2> QED BY <2>4, <2>5 DEF BaseInv
<1>2. ASSUME NEW result \in ActivityResults, StepSucceeds(result) PROVE BaseInv'
  <2>1. /\ outputs' \in Seq(ActivityResults) /\ Proceeded(outputs')
        /\ Completed' \in Nat /\ Completed' <= StepCount
    BY <1>2, SucceedShape DEF Completed
  <2>2. BlockTypes
    BY <1>0, <2>1, ProceedTypes DEF Completed
  <2>3. ControlInv'
    BY <1>2, <2>1, ProceedControl DEF StepSucceeds
  <2>4. InLoop /\ RecordRoute("SUCCEEDED", "none")
    BY <1>2 DEF StepSucceeds, InLoop
  <2>5. routeAttempts' \in Seq(RouteAttemptRecords)
    BY <2>4, RecordTypes
  <2>6. effect' \in [StepIds -> {"absent", "present", "undone"}]
    BY <1>0, <1>2, <2>4 DEF StepSucceeds, WorkflowTypeOK
  <2>7. WorkflowTypeOK'
    BY <1>0, <1>2, <2>1, <2>2, <2>5, <2>6 DEF StepSucceeds, BlockTypes, WorkflowTypeOK, signals
  <2> QED BY <2>3, <2>7 DEF BaseInv
<1>3. ASSUME NEW f \in RawFailures, StepRetries(f) PROVE BaseInv'
  <2>1. InLoop /\ FailedAttempt(f) /\ pc = "activity"
    BY <1>3 DEF StepRetries, InLoop
  <2>2. /\ calls' \in [StepIds -> Nat]
        /\ effect' \in [StepIds -> {"absent", "present", "undone"}] /\ zombies' \subseteq StepIds
    BY <1>0, <1>3, <2>1, FailedAttemptTypes DEF StepRetries, WorkflowTypeOK
  <2>3. WorkflowTypeOK'
    BY <1>0, <1>3, <2>2 DEF StepRetries, WorkflowTypeOK, snapshot, signals
  <2>4. /\ StepOf(Running)' = StepOf(Running) /\ StepCount' = StepCount
        /\ Completed' = Completed /\ Running' = Running
    BY <1>3 DEF StepRetries, snapshot, StepOf, Running, Completed, StepCount
  <2>5. attempt' \in 1..StepOf(Running).routes[alt].attempts
    <3>1. alt \in 1..Len(StepOf(Running).routes) /\ attempt \in Nat
      BY <1>0, <2>1 DEF ControlInv, WorkflowTypeOK
    <3>2. StepOf(Running).routes[alt].attempts \in Nat
      BY <2>1, <3>1, RouteFacts
    <3> QED BY <1>3, <3>1, <3>2 DEF StepRetries
  <2>6. ControlInv'
    BY <1>0, <1>3, <2>1, <2>4, <2>5 DEF ControlInv, StepRetries, snapshot, InLoop
  <2> QED BY <2>3, <2>6 DEF BaseInv
<1>4. ASSUME NEW f \in RawFailures, StepFails(f) PROVE BaseInv'
  <2> DEFINE code == ActivityFailureCode(f)
  <2>1. InLoop /\ FailedAttempt(f) /\ pc = "activity" /\ RecordRoute("FAILED", code)
        /\ UNCHANGED <<plan, outputs, compensated, signals>>
    BY <1>4 DEF StepFails, InLoop
  <2>2. code \in FailureCodes /\ Failed(code)
    BY <1>4, FailShape
  <2> HIDE DEF code
  <2>3. /\ effect' \in [StepIds -> {"absent", "present", "undone"}] /\ zombies' \subseteq StepIds
        /\ routeAttempts' \in Seq(RouteAttemptRecords)
    BY <2>1, <2>2, FailedAttemptTypes, RecordTypes
  <2>4. /\ StepOf(Running)' = StepOf(Running) /\ StepCount' = StepCount
        /\ Completed' = Completed /\ Running' = Running /\ Running \in StepIds
    BY <2>1 DEF StepOf, Running, Completed, StepCount
  <2>5. BlockTypes /\ ControlInv'
    <3>1. CASE CanFallback(code) /\ Invoke(Running, alt + 1)
               /\ UNCHANGED <<status, current, awaiting, failure>>
      <4>1. BlockTypes
        <5>1. calls' \in [StepIds -> Nat]
          BY <1>0, <2>4, <3>1 DEF Invoke, WorkflowTypeOK
        <5> QED BY <1>0, <3>1, <5>1 DEF Invoke, BlockTypes, WorkflowTypeOK
      <4>2. alt' \in 1..Len(StepOf(Running).routes)
        <5>1. alt \in Nat /\ alt < Len(StepOf(Running).routes) /\ Len(StepOf(Running).routes) \in Nat
          BY <1>0, <2>1, <3>1, RouteFacts DEF CanFallback, WorkflowTypeOK
        <5> QED BY <3>1, <5>1 DEF Invoke
      <4>3. attempt' \in 1..StepOf(Running).routes[alt'].attempts
        <5>1. /\ StepOf(Running).routes[alt'].attempts \in Nat
              /\ 1 <= StepOf(Running).routes[alt'].attempts
          BY <2>1, <4>2, RouteFacts
        <5> QED BY <3>1, <5>1 DEF Invoke
      <4>4. ControlInv'
        BY <1>0, <2>1, <2>4, <3>1, <4>2, <4>3 DEF ControlInv, Invoke, InLoop
      <4> QED BY <4>1, <4>4
    <3>2. CASE /\ failure' = code /\ current' = NoStep /\ awaiting' = NoStep
               /\ \/ pc' = "reconciling" /\ status' = "VERIFYING"
                  \/ pc' = "done" /\ status' = "HALTED"
               /\ UNCHANGED <<alt, attempt, queue, requested, calls, report>>
      <4>1. BlockTypes
        BY <1>0, <2>2, <3>2 DEF BlockTypes, WorkflowTypeOK, Statuses, Terminal
      <4>2. ControlInv'
        BY <1>0, <2>1, <2>4, <3>2 DEF ControlInv, InLoop, Terminal
      <4> QED BY <4>1, <4>2
    <3>3. ASSUME NEW terminal \in {"COMPENSATED", "HALTED"}, Finished(PossiblyEffectful, terminal, code)
          PROVE  BlockTypes /\ ControlInv'
      <4>1. PossiblyEffectful \in 0..StepCount
        BY <2>1 DEF PossiblyEffectful
      <4>2. terminal \in Terminal /\ terminal \in CompensationTerminals
        BY DEF Terminal, CompensationTerminals
      <4>3. BlockTypes
        BY <1>0, <2>2, <3>3, <4>1, <4>2, FinishTypes
      <4> QED BY <2>4, <3>3, <4>2, <4>3, FinishControl
    <3> QED BY <2>2, <3>1, <3>2, <3>3 DEF Failed
  <2>6. WorkflowTypeOK'
    BY <1>0, <2>1, <2>3, <2>5 DEF BlockTypes, WorkflowTypeOK, signals
  <2> QED BY <2>5, <2>6 DEF BaseInv
<1>5. CASE CompensationSucceeds
  <2>1. Compensated
    BY <1>5, CompensateShape
  <2> DEFINE s == NextToCompensate(queue)
  <2>2. s \in StepIds
    BY <1>0, <2>1 DEF Compensated, WorkflowTypeOK
  <2>3. /\ compensated' \in Seq(StepIds)
        /\ effect' \in [StepIds -> {"absent", "present", "undone"}]
    BY <1>0, <1>5, <2>2 DEF CompensationSucceeds, WorkflowTypeOK
  <2>4. status' \in Statuses /\ failure' \in FailureCodes \cup InternalCodes
    BY <1>0, <2>1 DEF Compensated, WorkflowTypeOK, Statuses, Terminal, InternalCodes,
        CompensationTerminals
  <2>5. /\ pc' \in {"compensating", "done"} /\ queue' \subseteq StepIds /\ requested' = requested
        /\ current' \in {current, NoStep} /\ awaiting' \in {awaiting, NoStep}
    BY <1>0, <2>1 DEF Compensated, WorkflowTypeOK
  <2>6. WorkflowTypeOK'
    BY <1>0, <1>5, <2>3, <2>4, <2>5 DEF CompensationSucceeds, WorkflowTypeOK, signals
  <2>7. StepCount' = StepCount /\ Completed' = Completed
    BY <1>5 DEF CompensationSucceeds, StepCount, Completed
  <2>8. ControlInv'
    BY <1>0, <1>5, <2>1, <2>7 DEF CompensationSucceeds, Compensated, ControlInv, InLoop, Terminal,
        CompensationTerminals
  <2> QED BY <2>6, <2>8 DEF BaseInv
<1>6. CASE CompensationFails
  <2>1. pc' = "done" /\ status' = "HALTED" /\ current' = NoStep /\ awaiting' = awaiting
        /\ failure' = "compensation_failed" /\ NextToCompensate(queue) \in StepIds
    BY <1>0, <1>6, CompensationFailShape DEF WorkflowTypeOK
  <2>2. effect' \in [StepIds -> {"absent", "present", "undone"}]
    BY <1>0, <1>6, <2>1 DEF CompensationFails, WorkflowTypeOK
  <2>3. WorkflowTypeOK'
    BY <1>0, <1>6, <2>1, <2>2 DEF CompensationFails, WorkflowTypeOK, signals, Statuses, Terminal,
        InternalCodes
  <2>4. StepCount' = StepCount /\ Completed' = Completed
    BY <1>6 DEF CompensationFails, StepCount, Completed
  <2>5. ControlInv'
    BY <1>0, <2>1, <2>4 DEF ControlInv, InLoop, Terminal
  <2> QED BY <2>3, <2>5 DEF BaseInv
<1>7. CASE VerificationEnds
  <2>1. /\ pc' = "done" /\ status' \in {"VERIFIED", "NEEDS_REVIEW", "HALTED"}
        /\ report' \in {report, "VERIFIED", "NEEDS_REVIEW", "HALTED"}
        /\ failure' \in FailureCodes \cup InternalCodes
        /\ UNCHANGED <<plan, alt, attempt, queue, requested, current, awaiting, outputs,
                       compensated, routeAttempts, signals, world>>
    BY <1>7, VerificationShape
  <2>2. WorkflowTypeOK'
    BY <1>0, <2>1 DEF WorkflowTypeOK, signals, world, Statuses, Terminal
  <2>3. StepCount' = StepCount /\ Completed' = Completed
    BY <2>1 DEF StepCount, Completed
  <2>4. ControlInv'
    BY <1>0, <2>1, <2>3 DEF ControlInv, InLoop, Terminal
  <2> QED BY <2>2, <2>4 DEF BaseInv
<1>8. CASE Signal
  <2>1. UNCHANGED <<plan, control, snapshot, world>>
    BY <1>8 DEF Signal, Approve, RequestCancel
  <2>2. /\ approvals' \in [StepIds -> Decisions \cup {NoDecision}]
        /\ conflict' \in BOOLEAN /\ cancel' \in BOOLEAN
    <3>1. CASE RequestCancel
      BY <1>0, <3>1 DEF RequestCancel, WorkflowTypeOK
    <3>2. ASSUME NEW s \in StepIds, NEW d \in Decisions, Approve(s, d)
          PROVE  /\ approvals' \in [StepIds -> Decisions \cup {NoDecision}]
                 /\ conflict' \in BOOLEAN /\ cancel' \in BOOLEAN
      <4>1. approvals' \in [StepIds -> Decisions \cup {NoDecision}]
        BY <1>0, <3>2 DEF Approve, WorkflowTypeOK
      <4>2. conflict' \in BOOLEAN
        BY <1>0, <3>2 DEF Approve, WorkflowTypeOK
      <4>3. cancel' = cancel
        BY <3>2 DEF Approve
      <4> QED BY <1>0, <4>1, <4>2, <4>3 DEF WorkflowTypeOK
    <3> QED BY <1>8, <3>1, <3>2 DEF Signal
  <2>3. WorkflowTypeOK'
    BY <1>0, <2>1, <2>2 DEF WorkflowTypeOK, control, snapshot, world
  <2>4. ControlInv'
    BY <1>0, <2>1 DEF ControlInv, control, snapshot, StepCount, Completed, Running, StepOf, InLoop
  <2> QED BY <2>3, <2>4 DEF BaseInv
<1>9. CASE UNCHANGED workflowVars
  BY <1>0, <1>9 DEF BaseInv, WorkflowTypeOK, ControlInv, workflowVars, control, snapshot, signals,
      world, StepCount, Completed, Running, StepOf, InLoop
<1> QED
  BY <1>1, <1>2, <1>3, <1>4, <1>5, <1>6, <1>7, <1>8, <1>9
  DEF WorkflowNext, Progress, Closed, VerificationEnds

(* The run starts with status, control and types in agreement.              *)
LEMMA BaseInit == WorkflowInit => BaseInv
<1> SUFFICES ASSUME WorkflowInit PROVE BaseInv
  OBVIOUS
<1>1. plan \in Plans /\ outputs = <<>>
  BY DEF WorkflowInit
<1>2. Completed = 0 /\ 0 < StepCount /\ StepCount \in Nat
  BY <1>1, PlanFacts DEF Completed
<1>3. ControlInv
  BY <1>1, <1>2 DEF WorkflowInit, ControlInv, InLoop
<1>4. /\ requested \in [terminal: Terminal, code: FailureCodes \cup InternalCodes,
                        unresolved: BOOLEAN, any: BOOLEAN]
      /\ failure \in FailureCodes \cup InternalCodes
  BY DEF WorkflowInit, Terminal, InternalCodes
<1>5. /\ effect \in [StepIds -> {"absent", "present", "undone"}]
      /\ calls \in [StepIds -> Nat]
      /\ approvals \in [StepIds -> Decisions \cup {NoDecision}]
  BY DEF WorkflowInit
<1>6. /\ outputs \in Seq(ActivityResults) /\ compensated \in Seq(StepIds)
      /\ routeAttempts \in Seq(RouteAttemptRecords)
  BY DEF WorkflowInit
<1>7. /\ pc = "new" /\ alt = 1 /\ attempt = 1 /\ queue = {} /\ status = "ACCEPTED"
      /\ current = NoStep /\ awaiting = NoStep /\ report = "none" /\ zombies = {}
      /\ conflict = FALSE /\ cancel = FALSE
  BY DEF WorkflowInit
<1>8. WorkflowTypeOK
  BY <1>1, <1>4, <1>5, <1>6, <1>7 DEF WorkflowTypeOK, Statuses
<1> QED BY <1>3, <1>8 DEF BaseInv

(* Types and control hold throughout.                                       *)
LEMMA BaseAlways == WorkflowSpec => []BaseInv
  BY BaseInit, BaseStep, PTL DEF WorkflowSpec

(* Every variable of the workflow keeps its type, whatever the plan.        *)
THEOREM WorkflowTypes == WorkflowSpec => []WorkflowTypeOK
<1>1. BaseInv => WorkflowTypeOK
  BY DEF BaseInv
<1> QED BY <1>1, BaseAlways, PTL

(* The workflow only ever asks _set_status for transitions of the table:    *)
(* InvalidExecutionTransition is never raised, in no order of signals,      *)
(* timers, failures and compensations and for no plan.                      *)
THEOREM TransitionsValid == WorkflowSpec => []NoInvalidTransition
<1>1. BaseInv => NoInvalidTransition
  BY DEF BaseInv, ControlInv, WorkflowTypeOK, NoInvalidTransition, INVALID, Terminal
<1> QED BY <1>1, BaseAlways, PTL

-----------------------------------------------------------------------------
(* Calls and approvals.                                                     *)

(* A step that calls no adapter, and does not enter one.                    *)
LEMMA QuietCalls ==
  ASSUME BaseInv, CallsInv, plan' = plan, calls' = calls, approvals' = approvals,
         pc' # "activity", Running' \in Nat, Running' >= Running,
         BetweenSteps' => BetweenSteps \/ Running' > Running
  PROVE  CallsInv'
<1> USE LoopFacts
<1>1. ApprovedBeforeCall'
  BY DEF CallsInv, ApprovedBeforeCall, StepCount, StepOf
<1>2. ASSUME NEW i \in StepIds, i > Running' \/ (i = Running' /\ BetweenSteps')
      PROVE  calls'[i] = 0
  <2>1. i > Running \/ (i = Running /\ BetweenSteps)
    BY <1>2 DEF StepIds
  <2> QED BY <2>1 DEF CallsInv
<1> QED
  BY <1>1, <1>2 DEF CallsInv

(* The first call of a step: nothing was called of it before.               *)
LEMMA DispatchCalls ==
  ASSUME BaseInv, CallsInv, plan' = plan, approvals' = approvals,
         NEW i \in 1..StepCount, Running' = i, Dispatch("RUNNING", i),
         i > Running \/ (i = Running /\ BetweenSteps),
         StepOf(i).approval => approvals[i] \in Approving
  PROVE  CallsInv'
<1> USE LoopFacts, PlanFacts
<1>1. calls \in [StepIds -> Nat] /\ i \in StepIds /\ calls[i] = 0
  BY DEF CallsInv, BaseInv, WorkflowTypeOK
<1>2. calls' = [calls EXCEPT ![i] = 1]
  BY <1>1 DEF Dispatch, Invoke
<1>3. ApprovedBeforeCall'
  BY <1>1, <1>2 DEF CallsInv, ApprovedBeforeCall, StepCount, StepOf
<1>4. pc' = "activity" /\ alt' = 1 /\ attempt' = 1
  BY DEF Dispatch, Invoke
<1>5. ASSUME NEW j \in StepIds, j > i PROVE calls'[j] = 0
  BY <1>1, <1>2, <1>5 DEF CallsInv, StepIds
<1> QED
  BY <1>1, <1>2, <1>3, <1>4, <1>5 DEF CallsInv, BetweenSteps

(* The top of the loop, with the same step or the next one.                 *)
LEMMA ProceedCalls ==
  ASSUME BaseInv, CallsInv, plan' = plan, approvals' = approvals, Len(outputs') \in Nat,
         Len(outputs') <= StepCount, Proceeded(outputs'),
         Len(outputs') + 1 > Running \/ (Len(outputs') + 1 = Running /\ BetweenSteps)
  PROVE  CallsInv'
<1> USE LoopFacts, PlanFacts
<1>1. Running' = Len(outputs') + 1 /\ Running' \in Nat /\ Running' >= Running
  BY DEF Running, Completed
<1>2. CASE Len(outputs') < StepCount /\ ~StepOf(Len(outputs') + 1).approval
           /\ Dispatch("RUNNING", Len(outputs') + 1)
  <2>1. Len(outputs') + 1 \in 1..StepCount
    BY <1>2
  <2> QED BY <1>1, <1>2, <2>1, DispatchCalls
<1>3. CASE calls' = calls /\ pc' # "activity"
  BY <1>1, <1>3, QuietCalls
<1> QED BY <1>2, <1>3 DEF Proceeded, Finished

(* Another attempt, or another route, of the running step.                  *)
LEMMA RepeatCalls ==
  ASSUME BaseInv, CallsInv, plan' = plan, approvals' = approvals, outputs' = outputs,
         pc = "activity", pc' = "activity",
         calls' = [calls EXCEPT ![Running] = @ + 1],
         (alt' = alt /\ attempt' = attempt + 1) \/ alt' = alt + 1
  PROVE  CallsInv'
<1> USE LoopFacts
<1>1. /\ Running' = Running /\ Running \in StepIds /\ Running \in 1..StepCount
      /\ calls \in [StepIds -> Nat] /\ alt \in Nat /\ alt >= 1
  BY DEF Running, Completed, InLoop, BaseInv, WorkflowTypeOK, ControlInv
<1>2. calls[Running] > 0 /\ (alt = 1 => calls[Running] = attempt)
  BY DEF CallsInv
<1>3. calls'[Running] = calls[Running] + 1 /\ \A i \in StepIds \ {Running} : calls'[i] = calls[i]
  BY <1>1
<1>4. ApprovedBeforeCall'
  BY <1>1, <1>2, <1>3, PlanFacts DEF CallsInv, ApprovedBeforeCall, StepCount, StepOf
<1>5. ASSUME NEW i \in StepIds, i > Running PROVE calls'[i] = 0
  BY <1>1, <1>3, <1>5 DEF CallsInv, StepIds
<1>6. calls'[Running] > 0 /\ (alt' = 1 => calls'[Running] = attempt')
  BY <1>1, <1>2, <1>3
<1> QED
  BY <1>1, <1>4, <1>5, <1>6 DEF CallsInv, BetweenSteps

(* Calls keep to the plan and to the approvals in every step.               *)
LEMMA CallsStep == BaseInv /\ CallsInv /\ [WorkflowNext]_workflowVars => CallsInv'
<1> SUFFICES ASSUME BaseInv, CallsInv, [WorkflowNext]_workflowVars PROVE CallsInv'
  OBVIOUS
<1> USE LoopFacts
<1>1. CASE Start \/ ApprovalDecided \/ ApprovalTimeout
  <2>1. BetweenStep
    BY <1>1, BetweenShape
  <2>2. /\ plan' = plan /\ approvals' = approvals /\ outputs' = outputs
        /\ Running' = Running /\ Running \in 1..StepCount /\ BetweenSteps
    BY <2>1 DEF BetweenStep, signals, Running, Completed, BetweenSteps, InLoop
  <2>3. CASE Proceeded(outputs)
    BY <2>2, <2>3, ProceedCalls DEF Running, Completed
  <2>4. ASSUME NEW terminal, NEW code, Finished(Completed, terminal, code) PROVE CallsInv'
    BY <2>2, <2>4, QuietCalls DEF Finished
  <2>5. CASE approvals[Running] \in Approving /\ Dispatch("RUNNING", Running)
    BY <2>2, <2>5, DispatchCalls
  <2> QED BY <2>1, <2>3, <2>4, <2>5 DEF BetweenStep
<1>2. ASSUME NEW result \in ActivityResults, StepSucceeds(result) PROVE CallsInv'
  <2>1. /\ Proceeded(outputs') /\ Len(outputs') = Running /\ Len(outputs') \in Nat
        /\ Len(outputs') <= StepCount
    BY <1>2, SucceedShape
  <2>2. plan' = plan /\ approvals' = approvals
    BY <1>2 DEF StepSucceeds, signals
  <2> QED BY <2>1, <2>2, ProceedCalls
<1>3. ASSUME NEW f \in RawFailures, StepRetries(f) PROVE CallsInv'
  BY <1>3, RepeatCalls DEF StepRetries, snapshot, signals
<1>4. ASSUME NEW f \in RawFailures, StepFails(f) PROVE CallsInv'
  <2>1. Failed(ActivityFailureCode(f))
    BY <1>4, FailShape
  <2>2. /\ plan' = plan /\ approvals' = approvals /\ outputs' = outputs /\ pc = "activity"
        /\ Running' = Running
    BY <1>4 DEF StepFails, signals, Running, Completed
  <2>3. CASE Invoke(Running, alt + 1)
    BY <2>2, <2>3, RepeatCalls DEF Invoke
  <2>4. CASE calls' = calls /\ pc' \in {"reconciling", "compensating", "done"}
    BY <2>2, <2>4, QuietCalls DEF BetweenSteps
  <2> QED BY <2>1, <2>3, <2>4 DEF Failed, Finished
<1>5. CASE CompensationSucceeds \/ CompensationFails \/ VerificationEnds
  <2>1. pc' \in {"compensating", "done"}
    BY <1>5, CompensateShape, CompensationFailShape, VerificationShape DEF Compensated
  <2>2. plan' = plan /\ approvals' = approvals /\ calls' = calls /\ Running' = Running
    BY <1>5, VerificationShape
    DEF CompensationSucceeds, CompensationFails, signals, world, Running, Completed
  <2> QED BY <2>1, <2>2, QuietCalls DEF BetweenSteps
<1>6. CASE RequestCancel
  BY <1>6 DEF RequestCancel, CallsInv, ApprovedBeforeCall, StepOf, StepCount, Running, Completed,
      BetweenSteps, control, snapshot, world
<1>7. ASSUME NEW s \in StepIds, NEW d \in Decisions, Approve(s, d) PROVE CallsInv'
  <2>1. ASSUME NEW i \in StepIds, approvals[i] \in Approving PROVE approvals'[i] = approvals[i]
    BY <1>7, <2>1, ConstantsAssumption DEF Approve, BaseInv, WorkflowTypeOK
  <2>2. UNCHANGED <<plan, control, snapshot, world>>
    BY <1>7 DEF Approve
  <2>3. ApprovedBeforeCall'
    BY <2>1, <2>2, PlanFacts DEF CallsInv, ApprovedBeforeCall, StepOf, StepCount, world
  <2> QED
    BY <2>2, <2>3 DEF CallsInv, Running, Completed, BetweenSteps, control, snapshot, world
<1>8. CASE UNCHANGED workflowVars
  BY <1>8 DEF CallsInv, ApprovedBeforeCall, StepOf, StepCount, Running, Completed, BetweenSteps,
      workflowVars, control, snapshot, signals, world
<1> QED
  BY <1>1, <1>2, <1>3, <1>4, <1>5, <1>6, <1>7, <1>8
  DEF WorkflowNext, Progress, Signal, Closed, VerificationEnds

(* No call has been made when the run starts.                               *)
LEMMA CallsInit == WorkflowInit => CallsInv
<1> SUFFICES ASSUME WorkflowInit PROVE CallsInv
  OBVIOUS
<1>1. plan \in Plans /\ pc = "new" /\ \A i \in StepIds : calls[i] = 0
  BY DEF WorkflowInit
<1> QED BY <1>1, PlanFacts DEF CallsInv, ApprovedBeforeCall, BetweenSteps

(* No adapter is called for a step behind an approval boundary unless the   *)
(* decision recorded for that step approves it.                             *)
THEOREM ApprovalGuardsCalls == WorkflowSpec => []ApprovedBeforeCall
<1>1. CallsInv => ApprovedBeforeCall
  BY DEF CallsInv
<1> QED BY <1>1, CallsInit, BaseAlways, CallsStep, PTL DEF WorkflowSpec

-----------------------------------------------------------------------------
(* Unknown effects.  The reported failure code is what UnknownEffectLeftAlone *)
(* reads, so an adapter's codes must not be the ones the workflow itself      *)
(* reports: with an adapter that declared "cancelled" an unknown effect, a    *)
(* cancelled run could not be told from one.                                  *)

CodesApart == ErrorCodes \cap InternalCodes = {}

(* No code of the workflow is declared an unknown effect by a step.         *)
LEMMA UnknownNotInternal ==
  ASSUME CodesApart, plan \in Plans, NEW i \in 1..StepCount, NEW code \in InternalCodes
  PROVE  code \notin StepOf(i).unknown
<1>1. StepOf(i).unknown \subseteq FailureCodes
  BY PlanFacts DEF Steps
<1>2. code \notin FailureCodes
  BY DEF CodesApart, FailureCodes, InternalCodes
<1> QED BY <1>1, <1>2

(* UnknownEffectLeftAlone says nothing of a run without such a code.        *)
LEMMA KnownFailure ==
  ASSUME plan \in Plans, plan' = plan, Completed' \in Nat, Completed' <= StepCount,
         Completed' < StepCount => failure' \notin StepOf(Completed' + 1).unknown
  PROVE  UnknownEffectLeftAlone'
  BY DEF UnknownEffectLeftAlone, StepCount, StepOf, Running, Completed

(* Undoing steps after a failure that has a known meaning.                  *)
LEMMA FinishUnknown ==
  ASSUME CodesApart, BaseInv, UnknownInv, InLoop, plan' = plan,
         Completed' \in Nat, Completed' <= StepCount,
         NEW n, NEW terminal, NEW code, Finished(n, terminal, code),
         Completed' < StepCount => code \notin StepOf(Completed' + 1).unknown
  PROVE  UnknownInv'
<1>1. plan \in Plans /\ failure = "none"
  BY LoopFacts DEF UnknownInv, InLoop
<1>2. failure' \in {code, "none", "uncompensated_effect", "compensation_reference_missing"}
  BY <1>1 DEF Finished
<1>3. Completed' < StepCount => failure' \notin StepOf(Completed' + 1).unknown
  <2> SUFFICES ASSUME Completed' < StepCount
               PROVE  failure' \notin StepOf(Completed' + 1).unknown
    OBVIOUS
  <2>1. Completed' + 1 \in 1..StepCount
    BY <1>1, PlanFacts DEF Completed
  <2>2. {"none", "uncompensated_effect", "compensation_reference_missing"} \subseteq InternalCodes
    BY DEF InternalCodes
  <2>3. \A c \in InternalCodes : c \notin StepOf(Completed' + 1).unknown
    BY <1>1, <2>1, UnknownNotInternal
  <2> QED BY <1>2, <2>2, <2>3
<1>4. UnknownEffectLeftAlone'
  BY <1>1, <1>3, KnownFailure
<1>5. StepCount' = StepCount /\ StepOf(Running)' = StepOf(Completed' + 1)
  BY DEF StepCount, StepOf, Running, Completed
<1>6. requested'.code = code
  BY DEF Finished
<1> QED
  BY <1>1, <1>4, <1>5, <1>6 DEF UnknownInv, Finished

(* An unknown effect stays where it is in every step.                       *)
LEMMA UnknownStep ==
  ASSUME CodesApart
  PROVE  BaseInv /\ CallsInv /\ UnknownInv /\ [WorkflowNext]_workflowVars => UnknownInv'
<1> SUFFICES ASSUME BaseInv, CallsInv, UnknownInv, [WorkflowNext]_workflowVars PROVE UnknownInv'
  OBVIOUS
<1> USE LoopFacts, PlanFacts
<1>0. "none" \in InternalCodes /\ "cancelled" \in InternalCodes
  BY DEF InternalCodes
<1>q. ASSUME plan' = plan, Completed' \in Nat, Completed' <= StepCount, failure' \in InternalCodes
      PROVE  UnknownEffectLeftAlone'
  <2>1. Completed' < StepCount => Completed' + 1 \in 1..StepCount
    BY <1>q DEF Completed
  <2>2. Completed' < StepCount => failure' \notin StepOf(Completed' + 1).unknown
    BY <1>q, <2>1, UnknownNotInternal
  <2> QED BY <1>q, <2>2, KnownFailure
<1>f. ASSUME InLoop, plan' = plan, Completed' \in Nat, Completed' <= StepCount,
             NEW n, NEW terminal, NEW code \in InternalCodes, Finished(n, terminal, code)
      PROVE  UnknownInv'
  <2>1. Completed' < StepCount => Completed' + 1 \in 1..StepCount
    BY <1>f DEF Completed
  <2>2. Completed' < StepCount => code \notin StepOf(Completed' + 1).unknown
    BY <1>f, <2>1, UnknownNotInternal
  <2> QED BY <1>f, <2>2, FinishUnknown
<1>l. ASSUME InLoop, plan' = plan, Completed' \in Nat, Completed' <= StepCount,
             compensated' = compensated, failure' = failure,
             pc' \in {"approval", "activity", "verifying", "done"}
      PROVE  UnknownInv'
  <2>1. failure = "none" /\ compensated = <<>>
    BY <1>l DEF UnknownInv, InLoop
  <2>2. UnknownEffectLeftAlone'
    BY <1>0, <1>l, <1>q, <2>1
  <2> QED BY <1>l, <2>1, <2>2 DEF UnknownInv
<1>1. CASE Start \/ ApprovalDecided \/ ApprovalTimeout
  <2>1. BetweenStep
    BY <1>1, BetweenShape
  <2>2. /\ plan' = plan /\ Completed' = Completed /\ InLoop /\ compensated' = compensated
    BY <2>1 DEF BetweenStep, Completed, BetweenSteps, InLoop
  <2>3. CASE Finished(Completed, "CANCELLED", "cancelled")
    BY <1>0, <1>f, <2>2, <2>3
  <2>4. ASSUME NEW terminal, NEW code \in InternalCodes, Finished(Completed, terminal, code)
        PROVE UnknownInv'
    BY <1>f, <2>2, <2>4
  <2>5. CASE /\ failure' = failure
             /\ pc' \in {"approval", "activity", "verifying", "done"}
    BY <1>l, <2>2, <2>5
  <2> QED
    BY <2>1, <2>3, <2>4, <2>5 DEF BetweenStep, Proceeded, Dispatch, Invoke, Completed
<1>2. ASSUME NEW result \in ActivityResults, StepSucceeds(result) PROVE UnknownInv'
  <2>1. /\ Proceeded(outputs') /\ Completed' \in Nat /\ Completed' <= StepCount
    BY <1>2, SucceedShape DEF Completed
  <2>2. plan' = plan /\ InLoop /\ compensated' = compensated
    BY <1>2 DEF StepSucceeds, InLoop
  <2>3. CASE Finished(Len(outputs'), "CANCELLED", "cancelled")
    BY <1>0, <1>f, <2>1, <2>2, <2>3
  <2>4. CASE failure' = failure /\ pc' \in {"approval", "activity", "verifying", "done"}
    BY <1>l, <2>1, <2>2, <2>4
  <2> QED BY <2>1, <2>3, <2>4 DEF Proceeded, Dispatch, Invoke
<1>3. ASSUME NEW f \in RawFailures, StepRetries(f) PROVE UnknownInv'
  BY <1>l, <1>3 DEF StepRetries, snapshot, Completed, InLoop
<1>4. ASSUME NEW f \in RawFailures, StepFails(f) PROVE UnknownInv'
  <2> DEFINE code == ActivityFailureCode(f)
  <2>1. Failed(code)
    BY <1>4, FailShape
  <2> HIDE DEF code
  <2>2. /\ plan' = plan /\ Completed' = Completed /\ InLoop /\ compensated' = compensated
        /\ pc = "activity" /\ Running' = Running
        /\ StepOf(Running)' = StepOf(Running) /\ StepCount' = StepCount
    BY <1>4 DEF StepFails, Completed, InLoop, Running, StepOf, StepCount
  <2>3. CASE CanFallback(code) /\ Invoke(Running, alt + 1) /\ failure' = failure
    BY <1>l, <2>2, <2>3 DEF Invoke
  <2>4. CASE EffectUnknown(code) /\ failure' = code /\ pc' \in {"reconciling", "done"}
             /\ calls' = calls
    <3>1. Len(StepOf(Running).routes) = 1 /\ StepOf(Running).routes[1].attempts = 1
      BY <2>2, <2>4, RouteFacts DEF EffectUnknown
    <3>2. alt = 1 /\ attempt = 1
      BY <2>2, <3>1 DEF BaseInv, ControlInv
    <3>3. calls[Running] = 1 /\ compensated = <<>>
      BY <2>2, <3>2 DEF CallsInv, UnknownInv
    <3> QED
      BY <2>2, <2>4, <3>3 DEF UnknownInv, UnknownEffectLeftAlone
  <2>5. ASSUME NEW terminal, Finished(PossiblyEffectful, terminal, code), ~EffectUnknown(code)
        PROVE  UnknownInv'
    <3>1. code \notin StepOf(Completed' + 1).unknown
      BY <2>2, <2>5 DEF EffectUnknown, Running
    <3> QED BY <2>2, <2>5, <3>1, FinishUnknown
  <2> QED BY <2>1, <2>3, <2>4, <2>5 DEF Failed
<1>5. CASE CompensationSucceeds
  <2>1. Compensated
    BY <1>5, CompensateShape
  <2>2. /\ plan' = plan /\ Completed' = Completed /\ Running' = Running /\ pc = "compensating"
        /\ StepOf(Running)' = StepOf(Running) /\ StepCount' = StepCount
    BY <1>5 DEF CompensationSucceeds, Completed, Running, StepOf, StepCount
  <2>3. failure = "none" /\ (Completed < StepCount => requested.code \notin StepOf(Running).unknown)
    BY <2>2 DEF UnknownInv
  <2>4. failure' \in InternalCodes \/ failure' = requested.code
    BY <2>1, <2>3 DEF Compensated, InternalCodes
  <2>5. UnknownEffectLeftAlone'
    <3>1. CASE failure' \in InternalCodes
      BY <1>q, <2>2, <3>1
    <3>2. CASE failure' = requested.code
      BY <2>2, <2>3, <3>2 DEF UnknownEffectLeftAlone
    <3> QED BY <2>4, <3>1, <3>2
  <2> QED BY <2>1, <2>2, <2>3, <2>5 DEF UnknownInv, Compensated
<1>6. CASE CompensationFails
  <2>1. pc' = "done" /\ failure' \in InternalCodes
    BY <1>6, CompensationFailShape DEF InternalCodes
  <2>2. plan' = plan /\ Completed' = Completed
    BY <1>6 DEF CompensationFails, Completed
  <2> QED BY <1>q, <2>1, <2>2 DEF UnknownInv
<1>7. CASE VerificationEnds
  <2>1. /\ pc \in {"verifying", "reconciling"} /\ pc' = "done"
        /\ pc = "reconciling" =>
             failure' \in {failure, "verification_report_mismatch",
                          "unknown_effect_verification_failed"}
        /\ UNCHANGED <<plan, outputs, compensated, world>>
    BY <1>7, VerificationShape
  <2>2. /\ Completed' = Completed /\ Running' = Running /\ StepCount' = StepCount
        /\ StepOf(Running)' = StepOf(Running) /\ calls' = calls
    BY <2>1 DEF Completed, Running, StepCount, StepOf, world
  <2>3. UnknownEffectLeftAlone'
    <3>1. CASE pc = "verifying"
      BY <2>2, <3>1 DEF UnknownEffectLeftAlone, BaseInv, ControlInv
    <3>2. CASE pc = "reconciling"
      BY <2>1, <2>2, <3>2 DEF UnknownEffectLeftAlone, UnknownInv
    <3> QED BY <2>1, <3>1, <3>2
  <2> QED BY <2>1, <2>3 DEF UnknownInv
<1>8. CASE Signal \/ UNCHANGED workflowVars
  <2>1. UNCHANGED <<plan, control, snapshot, world>>
    BY <1>8 DEF Signal, Approve, RequestCancel, workflowVars
  <2> QED
    BY <2>1 DEF UnknownInv, UnknownEffectLeftAlone, control, snapshot, world, Running, Completed,
        StepOf, StepCount
<1> QED
  BY <1>1, <1>2, <1>3, <1>4, <1>5, <1>6, <1>7, <1>8
  DEF WorkflowNext, Progress, Closed, VerificationEnds

(* Nothing has failed when the run starts.                                  *)
LEMMA UnknownInit ==
  ASSUME CodesApart
  PROVE  WorkflowInit => UnknownInv
<1> SUFFICES ASSUME WorkflowInit PROVE UnknownInv
  OBVIOUS
<1>1. plan \in Plans /\ Completed = 0 /\ failure = "none" /\ pc = "new" /\ compensated = <<>>
  BY DEF WorkflowInit, Completed
<1>2. 1 \in 1..StepCount /\ Running = 1 /\ "none" \in InternalCodes
  BY <1>1, PlanFacts DEF Running, InternalCodes
<1>3. failure \notin StepOf(Running).unknown
  BY <1>1, <1>2, UnknownNotInternal
<1> QED BY <1>1, <1>3 DEF UnknownInv, UnknownEffectLeftAlone

(* A step that ended in an unknown-effect code is not called again and      *)
(* nothing is compensated, provided adapters do not reuse the workflow's    *)
(* own failure codes.                                                       *)
THEOREM UnknownEffectsStay ==
  ASSUME CodesApart
  PROVE  WorkflowSpec => []UnknownEffectLeftAlone
<1>1. WorkflowInit => UnknownInv
  BY UnknownInit
<1>2. UnknownInv => UnknownEffectLeftAlone
  BY DEF UnknownInv
<1>3. BaseInv /\ CallsInv /\ UnknownInv /\ [WorkflowNext]_workflowVars => UnknownInv'
  BY UnknownStep
<1> QED BY <1>1, <1>2, <1>3, CallsInit, BaseAlways, CallsStep, PTL DEF WorkflowSpec

-----------------------------------------------------------------------------
(* Route attempts.                                                          *)

(* The attempt of the running step that is recorded, if it is routed.       *)
RouteOf(outcome, code) ==
  [step |-> Running, candidate |-> alt, status |-> outcome, code |-> code]

(* The latest record is a record, and its step a number.                    *)
LEMMA LastRouteType ==
  ASSUME routeAttempts \in Seq(RouteAttemptRecords), routeAttempts # <<>>
  PROVE  LastRoute \in RouteAttemptRecords /\ LastRoute.step \in Nat
<1>1. Len(routeAttempts) \in 1..Len(routeAttempts)
  OBVIOUS
<1>2. LastRoute \in RouteAttemptRecords
  BY <1>1 DEF LastRoute
<1> QED BY <1>2 DEF RouteAttemptRecords, StepIds

(* A record appended inside the loop follows the latest one as it should.   *)
LEMMA RecordSafe ==
  ASSUME BaseInv, RouteInv, pc = "activity", plan' = plan,
         NEW outcome, NEW code, RecordRoute(outcome, code)
  PROVE  /\ FallbackIsSafe'
         /\ \/ StepOf(Running).routed /\ routeAttempts' = Append(routeAttempts, RouteOf(outcome, code))
            \/ ~StepOf(Running).routed /\ routeAttempts' = routeAttempts
<1> USE LoopFacts
<1> DEFINE r == RouteOf(outcome, code)
           n == Len(routeAttempts)
<1>1. /\ InLoop /\ StepOf(Running) \in Steps /\ ValidStep(StepOf(Running)) /\ alt \in Nat /\ alt >= 1
      /\ alt <= Len(StepOf(Running).routes) /\ routeAttempts \in Seq(RouteAttemptRecords) /\ n \in Nat
  BY DEF InLoop, BaseInv, WorkflowTypeOK, ControlInv
<1>2. CASE ~StepOf(Running).routed
  BY <1>2 DEF RecordRoute, FallbackIsSafe, RouteInv, StepOf
<1>3. CASE StepOf(Running).routed
  <2>1. routeAttempts' = Append(routeAttempts, r)
    BY <1>3 DEF RecordRoute, RouteOf
  <2>2. /\ Len(routeAttempts') = n + 1 /\ routeAttempts'[n + 1] = r
        /\ \A j \in 1..n : routeAttempts'[j] = routeAttempts[j]
    BY <1>1, <2>1
  <2>3. r.step = Running /\ r.candidate = alt
    BY DEF RouteOf
  <2> HIDE DEF r
  <2> DEFINE Good(a, b) ==
        \/ b.step > a.step /\ a.status = "SUCCEEDED" /\ b.candidate = 1
        \/ /\ b.step = a.step
           /\ b.candidate = a.candidate + 1
           /\ a.status = "FAILED"
           /\ ~IsWrite(StepOf(a.step))
           /\ a.code \in StepOf(a.step).routes[a.candidate].safe
  <2>4. \A j \in 1..(n - 1) : Good(routeAttempts[j], routeAttempts[j + 1])
    BY DEF RouteInv, FallbackIsSafe
  <2>5. n > 0 => Good(routeAttempts[n], r)
    <3> SUFFICES ASSUME n > 0 PROVE Good(routeAttempts[n], r)
      OBVIOUS
    <3>1. routeAttempts # <<>> /\ LastRoute = routeAttempts[n] /\ routeAttempts[n].step \in Nat
      <4>1. routeAttempts # <<>>
        BY <1>1
      <4> QED BY <1>1, <4>1, LastRouteType DEF LastRoute
    <3>2. CASE alt = 1
      BY <2>3, <3>1, <3>2 DEF RouteInv
    <3>3. CASE alt > 1
      <4>1. Len(StepOf(Running).routes) > 1 /\ ~IsWrite(StepOf(Running))
        BY <1>1, <3>3, RouteFacts DEF ValidStep
      <4> QED BY <1>1, <2>3, <3>1, <3>3, <4>1 DEF RouteInv
    <3> QED BY <1>1, <3>2, <3>3
  <2>6. ASSUME NEW j \in 1..n PROVE Good(routeAttempts'[j], routeAttempts'[j + 1])
    <3>1. CASE j = n
      BY <1>1, <2>2, <2>5, <3>1
    <3>2. CASE j # n
      <4>1. j \in 1..(n - 1) /\ j + 1 \in 1..n
        BY <1>1, <3>2
      <4> HIDE DEF Good
      <4> QED BY <2>2, <2>4, <4>1
    <3> QED BY <3>1, <3>2
  <2>7. FallbackIsSafe'
    <3>1. \A j \in 1..(Len(routeAttempts') - 1) : Good(routeAttempts'[j], routeAttempts'[j + 1])
      <4> HIDE DEF Good
      <4> QED BY <1>1, <2>2, <2>6
    <3> QED BY <3>1 DEF FallbackIsSafe, StepOf
  <2> QED BY <1>3, <2>1, <2>7 DEF r
<1> QED BY <1>2, <1>3

(* A record, once appended, is the latest one.                              *)
LEMMA AppendedIsLast ==
  ASSUME routeAttempts \in Seq(RouteAttemptRecords), NEW r, routeAttempts' = Append(routeAttempts, r)
  PROVE  LastRoute' = r /\ routeAttempts' # <<>>
  BY DEF LastRoute

(* A step that records nothing keeps the route attempts safe.               *)
LEMMA QuietRoutes ==
  ASSUME BaseInv, RouteInv, plan' = plan, routeAttempts' = routeAttempts,
         \/ /\ BetweenSteps \/ (pc = "activity" /\ alt = 1)
            /\ Running' = Running
            /\ BetweenSteps' \/ (pc' = "activity" => alt' = 1)
         \/ pc = "activity" /\ pc' = "activity" /\ alt' = alt /\ Running' = Running
         \/ pc' \notin {"new", "approval", "activity"}
  PROVE  RouteInv'
<1>1. FallbackIsSafe'
  BY DEF RouteInv, FallbackIsSafe, StepOf
<1>2. LastRoute' = LastRoute
  BY DEF LastRoute
<1>3. Running' = Running => StepOf(Running)' = StepOf(Running)
  BY DEF StepOf
<1> QED
  BY <1>1, <1>2, <1>3 DEF RouteInv, BetweenSteps

(* The order of routes is kept in every step.                               *)
LEMMA RouteStep == BaseInv /\ RouteInv /\ [WorkflowNext]_workflowVars => RouteInv'
<1> SUFFICES ASSUME BaseInv, RouteInv, [WorkflowNext]_workflowVars PROVE RouteInv'
  OBVIOUS
<1> USE LoopFacts
<1>1. CASE Start \/ ApprovalDecided \/ ApprovalTimeout
  <2>1. BetweenStep
    BY <1>1, BetweenShape
  <2>2. plan' = plan /\ routeAttempts' = routeAttempts /\ BetweenSteps /\ Running' = Running
    BY <2>1 DEF BetweenStep, Running, Completed
  <2>3. pc' = "activity" => alt' = 1
    BY <2>1 DEF BetweenStep, Proceeded, Finished, Dispatch, Invoke
  <2> QED BY <2>2, <2>3, QuietRoutes
<1>2. ASSUME NEW result \in ActivityResults, StepSucceeds(result) PROVE RouteInv'
  <2>1. /\ Proceeded(outputs') /\ Completed' = Running
    BY <1>2, SucceedShape DEF Completed
  <2>2. /\ plan' = plan /\ pc = "activity" /\ InLoop /\ RecordRoute("SUCCEEDED", "none")
        /\ routeAttempts \in Seq(RouteAttemptRecords)
    BY <1>2 DEF StepSucceeds, InLoop, BaseInv, WorkflowTypeOK
  <2>3. Running' = Running + 1 /\ Running \in Nat
    BY <2>1, <2>2 DEF Running
  <2>4. pc' = "activity" => alt' = 1
    BY <2>1 DEF Proceeded, Finished, Dispatch, Invoke
  <2>5. routeAttempts' # <<>> => LastRoute'.step < Running' /\ LastRoute'.status = "SUCCEEDED"
    <3>1. CASE routeAttempts' = Append(routeAttempts, RouteOf("SUCCEEDED", "none"))
      BY <2>2, <2>3, <3>1, AppendedIsLast DEF RouteOf
    <3>2. CASE routeAttempts' = routeAttempts /\ ~StepOf(Running).routed
      <4>1. alt = 1
        <5>1. /\ ~(Len(StepOf(Running).routes) > 1) /\ Len(StepOf(Running).routes) \in Nat
              /\ alt \in 1..Len(StepOf(Running).routes)
          BY <2>2, <3>2, RouteFacts DEF BaseInv, ControlInv
        <5> QED BY <5>1
      <4>2. LastRoute' = LastRoute
        BY <3>2 DEF LastRoute
      <4>3. routeAttempts # <<>> => LastRoute.step \in Nat
        BY <2>2, LastRouteType
      <4> QED BY <2>2, <2>3, <3>2, <4>1, <4>2, <4>3 DEF RouteInv
    <3> QED BY <2>2, <3>1, <3>2, RecordSafe
  <2>6. FallbackIsSafe'
    BY <2>2, RecordSafe
  <2> QED BY <2>4, <2>5, <2>6 DEF RouteInv
<1>3. ASSUME NEW f \in RawFailures, StepRetries(f) PROVE RouteInv'
  BY <1>3, QuietRoutes DEF StepRetries, snapshot, Running, Completed
<1>4. ASSUME NEW f \in RawFailures, StepFails(f) PROVE RouteInv'
  <2> DEFINE code == ActivityFailureCode(f)
  <2>1. Failed(code)
    BY <1>4, FailShape
  <2>2. /\ plan' = plan /\ pc = "activity" /\ InLoop /\ RecordRoute("FAILED", code)
        /\ routeAttempts \in Seq(RouteAttemptRecords) /\ alt \in Nat /\ alt >= 1
        /\ Running' = Running /\ StepOf(Running)' = StepOf(Running)
    BY <1>4 DEF StepFails, InLoop, BaseInv, WorkflowTypeOK, ControlInv, Running, Completed, StepOf
  <2> HIDE DEF code
  <2>3. FallbackIsSafe'
    BY <2>2, RecordSafe
  <2>4. CASE pc' \notin {"new", "approval", "activity"}
    BY <2>3, <2>4 DEF RouteInv, BetweenSteps
  <2>5. CASE CanFallback(code) /\ Invoke(Running, alt + 1)
    <3>1. StepOf(Running).routed
      <4>1. alt < Len(StepOf(Running).routes) /\ Len(StepOf(Running).routes) \in Nat
        BY <2>2, <2>5, RouteFacts DEF CanFallback
      <4>2. Len(StepOf(Running).routes) > 1
        BY <2>2, <4>1
      <4> QED BY <2>2, <4>2, RouteFacts
    <3>2. routeAttempts' = Append(routeAttempts, RouteOf("FAILED", code))
      BY <2>2, <3>1, RecordSafe
    <3>3. LastRoute' = RouteOf("FAILED", code) /\ routeAttempts' # <<>>
      BY <2>2, <3>2, AppendedIsLast
    <3>4. alt' = alt + 1 /\ alt' - 1 = alt /\ alt' > 1 /\ pc' = "activity"
      BY <2>2, <2>5 DEF Invoke
    <3>5. code \in StepOf(Running).routes[alt].safe
      BY <2>5 DEF CanFallback
    <3> QED
      BY <2>2, <2>3, <3>3, <3>4, <3>5 DEF RouteInv, BetweenSteps, RouteOf
  <2> QED BY <2>1, <2>4, <2>5 DEF Failed, Finished
<1>5. CASE CompensationSucceeds \/ CompensationFails \/ VerificationEnds
  <2>1. pc' \in {"compensating", "done"}
    BY <1>5, CompensateShape, CompensationFailShape, VerificationShape DEF Compensated
  <2>2. plan' = plan /\ routeAttempts' = routeAttempts
    BY <1>5, VerificationShape DEF CompensationSucceeds, CompensationFails
  <2> QED BY <2>1, <2>2, QuietRoutes
<1>6. CASE Signal \/ UNCHANGED workflowVars
  <2>1. UNCHANGED <<plan, control, snapshot>>
    BY <1>6 DEF Signal, Approve, RequestCancel, workflowVars
  <2> QED
    BY <2>1 DEF RouteInv, FallbackIsSafe, LastRoute, control, snapshot, Running, Completed, StepOf,
        BetweenSteps
<1> QED
  BY <1>1, <1>2, <1>3, <1>4, <1>5, <1>6
  DEF WorkflowNext, Progress, Closed, VerificationEnds

(* A step is tried again with the next candidate only when it is read-only  *)
(* and failed with a code its candidate declares safe.                      *)
THEOREM FallbacksAreSafe == WorkflowSpec => []FallbackIsSafe
<1>1. WorkflowInit => RouteInv
  BY DEF WorkflowInit, RouteInv, FallbackIsSafe
<1>2. RouteInv => FallbackIsSafe
  BY DEF RouteInv
<1> QED BY <1>1, <1>2, BaseAlways, RouteStep, PTL DEF WorkflowSpec

-----------------------------------------------------------------------------
(* The outside world, and the promise to the submitter.                     *)

(* What a step of TransactionOutcome does to the effects, and what it says. *)
EffectMoves ==
  (\E s \in StepIds : Outcome!Write(s) \/ Outcome!Undo(s)) \/ UNCHANGED effect

HonestEnd == pc' = "done" => Outcome!Honest(status', effect')

EffectTypes == effect \in [StepIds -> {"absent", "present", "undone"}]

(* Undoing begins with everything that may be there queued or admitted.     *)
LEMMA FinishEffects ==
  ASSUME BaseInv, plan' = plan, EffectTypes', NEW n \in 0..StepCount,
         NEW terminal, NEW code, Finished(n, terminal, code), terminal \in CompensationTerminals,
         \A i \in StepIds : effect'[i] # "absent" => i <= n /\ IsWrite(StepOf(i))
  PROVE  EffectInv' /\ HonestEnd
<1> USE PlanFacts, LoopFacts
<1>1. StepCount' = StepCount /\ \A i : StepOf(i)' = StepOf(i)
  BY DEF StepCount, StepOf
<1>2. \A i \in StepIds : effect'[i] # "absent" => i <= StepCount /\ IsWrite(StepOf(i)) /\ i \in 1..n
  BY DEF StepIds
<1>3. ASSUME ~UnresolvedEffect(n), NEW i \in StepIds, effect'[i] # "absent"
      PROVE  StepOf(i).compensation # "none"
  BY <1>2, <1>3 DEF UnresolvedEffect
<1>4. CASE pc' = "compensating"
  <2>1. queue' = Undoable(n) /\ requested'.unresolved = UnresolvedEffect(n)
    BY DEF Finished
  <2>2. \A i \in queue' : i <= StepCount /\ StepOf(i).compensation # "none"
    BY <2>1 DEF Undoable
  <2>3. ASSUME NEW i \in StepIds, effect'[i] = "present",
               StepOf(i).compensation # "none" \/ ~requested'.unresolved
        PROVE  i \in queue'
    <3>1. StepOf(i).compensation # "none"
      BY <1>3, <2>1, <2>3
    <3> QED BY <1>2, <2>1, <2>3, <3>1 DEF Undoable
  <2> QED BY <1>1, <1>2, <1>4, <2>2, <2>3 DEF EffectInv, HonestEnd, IsWrite
<1>5. CASE pc' = "done"
  <2>1. EffectInv'
    BY <1>1, <1>2, <1>5 DEF EffectInv, IsWrite
  <2>2. CASE status' = "HALTED"
    BY <2>1, <2>2 DEF HonestEnd, Outcome!Honest
  <2>3. CASE ~UnresolvedEffect(n) /\ Undoable(n) = {} /\ status' = terminal
    <3>1. \A i \in StepIds : effect'[i] # "present"
      BY <1>2, <1>3, <2>3 DEF Undoable
    <3>2. status' \in CompensationTerminals
      BY <2>3
    <3> QED BY <2>1, <3>1, <3>2 DEF HonestEnd, Outcome!Honest, CompensationTerminals
  <2> QED BY <1>5, <2>2, <2>3 DEF Finished
<1> QED BY <1>4, <1>5 DEF Finished

(* One attempt of the running step has nothing, or the step's write, as its *)
(* effect, on top of all earlier writes.                                    *)
LEMMA AttemptEffects ==
  ASSUME BaseInv, EffectInv, pc = "activity",
         \/ effect' = effect
         \/ IsWrite(StepOf(Running)) /\ effect' = [effect EXCEPT ![Running] = "present"]
  PROVE  /\ EffectTypes'
         /\ EffectMoves
         /\ \A i \in StepIds : effect'[i] # "undone"
         /\ \A i \in 1..Completed : IsWrite(StepOf(i)) => effect'[i] = "present"
         /\ \A i \in StepIds : effect'[i] # "absent" =>
              i <= PossiblyEffectful /\ i <= Running /\ IsWrite(StepOf(i))
<1> USE PlanFacts, LoopFacts
<1>1. /\ effect \in [StepIds -> {"absent", "present", "undone"}]
      /\ Running \in StepIds /\ Running \in 1..StepCount /\ Running \in Nat /\ Completed \in Nat
  BY DEF BaseInv, WorkflowTypeOK, InLoop
<1>2. /\ \A i \in StepIds : effect[i] # "undone"
      /\ \A i \in 1..Completed : IsWrite(StepOf(i)) => effect[i] = "present"
      /\ \A i \in StepIds : i > Running => effect[i] = "absent"
      /\ \A i \in StepIds : effect[i] # "absent" => i <= StepCount /\ IsWrite(StepOf(i))
  BY DEF EffectInv
<1>3. EffectTypes'
  BY <1>1 DEF EffectTypes
<1>4. EffectMoves
  <2>1. CASE effect' = effect
    BY <2>1 DEF EffectMoves
  <2>2. CASE IsWrite(StepOf(Running)) /\ effect' = [effect EXCEPT ![Running] = "present"]
    <3>1. Running \in {i \in 1..StepCount : IsWrite(StepOf(i))}
      BY <1>1, <2>2
    <3>2. \A t \in {i \in 1..StepCount : IsWrite(StepOf(i))} : t < Running => effect[t] = "present"
      <4> SUFFICES ASSUME NEW t \in 1..StepCount, IsWrite(StepOf(t)), t < Running
                   PROVE  effect[t] = "present"
        OBVIOUS
      <4>1. t \in 1..Completed
        BY <1>1
      <4> QED BY <1>2, <4>1
    <3>3. Outcome!Write(Running)
      BY <1>2, <2>2, <3>1, <3>2 DEF Outcome!Write
    <3> QED BY <1>1, <3>3 DEF EffectMoves
  <2> QED BY <2>1, <2>2
<1>5. \A i \in StepIds : effect'[i] # "undone"
  BY <1>1, <1>2
<1>6. ASSUME NEW i \in 1..Completed, IsWrite(StepOf(i)) PROVE effect'[i] = "present"
  <2>1. i \in StepIds /\ effect[i] = "present"
    BY <1>1, <1>2, <1>6
  <2> QED BY <1>1, <2>1
<1>7. ASSUME NEW i \in StepIds, effect'[i] # "absent"
      PROVE  i <= PossiblyEffectful /\ i <= Running /\ IsWrite(StepOf(i))
  <2>1. CASE i = Running
    <3>1. IsWrite(StepOf(i))
      BY <1>1, <1>2, <1>7, <2>1
    <3> QED BY <1>1, <2>1, <3>1 DEF PossiblyEffectful
  <2>2. CASE i # Running
    <3>1. effect[i] # "absent"
      BY <1>1, <1>7, <2>2
    <3>2. i \in Nat /\ ~(i > Running) /\ IsWrite(StepOf(i))
      BY <1>2, <3>1 DEF StepIds
    <3>3. i <= Completed
      BY <1>1, <2>2, <3>2
    <3> QED BY <1>1, <3>2, <3>3 DEF PossiblyEffectful
  <2> QED BY <2>1, <2>2
<1> QED BY <1>3, <1>4, <1>5, <1>6, <1>7

(* The top of the loop, with the effects of the completed steps in place.   *)
LEMMA ProceedEffects ==
  ASSUME BaseInv, plan' = plan, EffectTypes', Completed' \in Nat, Completed' <= StepCount,
         Proceeded(outputs'),
         \A i \in StepIds : effect'[i] # "undone",
         \A i \in 1..Completed' : IsWrite(StepOf(i)) => effect'[i] = "present",
         \A i \in StepIds : effect'[i] # "absent" => i <= Completed' /\ IsWrite(StepOf(i))
  PROVE  EffectInv' /\ HonestEnd
<1> USE PlanFacts, LoopFacts
<1>1. StepCount' = StepCount /\ (\A i : StepOf(i)' = StepOf(i)) /\ Len(outputs') = Completed'
      /\ Running' = Completed' + 1
  BY DEF StepCount, StepOf, Completed, Running
<1>2. CASE Finished(Len(outputs'), "CANCELLED", "cancelled")
  <2>1. Len(outputs') \in 0..StepCount /\ "CANCELLED" \in CompensationTerminals
    BY <1>1 DEF Completed, CompensationTerminals
  <2>2. \A i \in StepIds : effect'[i] # "absent" => i <= Len(outputs') /\ IsWrite(StepOf(i))
    BY <1>1
  <2> QED BY <1>2, <2>1, <2>2, FinishEffects
<1>3. CASE pc' \in {"approval", "activity", "verifying"}
  <2>1. ASSUME NEW i \in StepIds, i > Running' \/ (i = Running' /\ BetweenSteps')
        PROVE  effect'[i] = "absent"
    <3>1. ~(i <= Completed')
      BY <1>1, <2>1 DEF Completed, StepIds
    <3> QED BY <3>1
  <2>2. EffectInv'
    <3>1. \A i \in StepIds : effect'[i] # "absent" => i <= StepCount' /\ IsWrite(StepOf(i)')
      BY <1>1 DEF StepIds, Completed
    <3>2. pc' # "compensating" /\ pc' # "done"
      BY <1>3
    <3> QED BY <1>1, <2>1, <3>1, <3>2 DEF EffectInv, IsWrite
  <2> QED BY <1>3, <2>2 DEF HonestEnd
<1>4. CASE pc' = "done" /\ status' = "EXECUTED_UNVERIFIED" /\ Len(outputs') = StepCount
  <2>1. EffectInv'
    <3>1. \A i \in StepIds : effect'[i] # "absent" => i <= StepCount' /\ IsWrite(StepOf(i)')
      BY <1>1 DEF StepIds, Completed
    <3> QED BY <1>4, <3>1 DEF EffectInv, IsWrite
  <2>2. \A i \in {j \in 1..StepCount : IsWrite(StepOf(j))} : effect'[i] = "present"
    BY <1>1, <1>4
  <2> QED BY <1>4, <2>1, <2>2 DEF HonestEnd, Outcome!Honest
<1> QED BY <1>2, <1>3, <1>4 DEF Proceeded, Dispatch, Invoke

(* An undone step: only the latest queued one, so nothing later is left.    *)
LEMMA UndoEffects ==
  ASSUME BaseInv, EffectInv, pc = "compensating", NEW s \in queue, \A t \in queue : t <= s,
         effect' \in {effect, [effect EXCEPT ![s] = IF @ = "present" THEN "undone" ELSE @]}
  PROVE  /\ EffectTypes' /\ EffectMoves
         /\ \A i \in StepIds : effect'[i] # "absent" => effect[i] # "absent"
         /\ \A i \in StepIds : effect'[i] = "present" => effect[i] = "present"
<1> USE PlanFacts, LoopFacts
<1>1. effect \in [StepIds -> {"absent", "present", "undone"}] /\ queue \subseteq StepIds /\ s \in StepIds
  BY DEF BaseInv, WorkflowTypeOK
<1>2. EffectTypes'
  BY <1>1 DEF EffectTypes
<1>3. EffectMoves
  <2>1. CASE effect' = effect
    BY <2>1 DEF EffectMoves
  <2>2. CASE effect' = [effect EXCEPT ![s] = "undone"] /\ effect[s] = "present"
    <3>1. s \in {i \in 1..StepCount : StepOf(i).compensation # "none"}
      BY <1>1 DEF EffectInv, StepIds
    <3>2. ASSUME NEW t \in {i \in 1..StepCount : StepOf(i).compensation # "none"}, t > s
          PROVE  effect[t] # "present"
      <4>1. t \in StepIds /\ StepOf(t).compensation # "none" /\ s \in Nat /\ t \in Nat
        BY <1>1 DEF StepIds
      <4>2. t \notin queue
        BY <3>2, <4>1
      <4> QED BY <4>1, <4>2 DEF EffectInv
    <3>3. Outcome!Undo(s)
      BY <2>2, <3>1, <3>2 DEF Outcome!Undo
    <3> QED BY <1>1, <3>3 DEF EffectMoves
  <2>3. \/ effect' = effect
        \/ effect' = [effect EXCEPT ![s] = "undone"] /\ effect[s] = "present"
    BY <1>1
  <2> QED BY <2>1, <2>2, <2>3
<1>4. /\ \A i \in StepIds : effect'[i] # "absent" => effect[i] # "absent"
      /\ \A i \in StepIds : effect'[i] = "present" => effect[i] = "present"
  BY <1>1
<1> QED BY <1>2, <1>3, <1>4

(* Every step of an open run moves the effects as TransactionOutcome does,  *)
(* and is honest about them when it closes the run.                         *)
LEMMA EffectStep ==
  ASSUME BaseInv, EffectInv, WorkflowNext, pc # "done"
  PROVE  EffectInv' /\ EffectMoves /\ HonestEnd /\ plan' = plan
<1> USE LoopFacts, PlanFacts
<1>0. effect \in [StepIds -> {"absent", "present", "undone"}]
  BY DEF BaseInv, WorkflowTypeOK
<1>k. ASSUME plan' = plan PROVE StepCount' = StepCount /\ \A i : StepOf(i)' = StepOf(i)
  BY <1>k DEF StepCount, StepOf
<1>1. CASE Start \/ ApprovalDecided \/ ApprovalTimeout
  <2>1. BetweenStep
    BY <1>1, BetweenShape
  <2>2. /\ plan' = plan /\ effect' = effect /\ outputs' = outputs /\ Completed' = Completed
        /\ BetweenSteps /\ EffectTypes' /\ EffectMoves
    BY <1>0, <2>1 DEF BetweenStep, Completed, EffectTypes, EffectMoves
  <2>3. /\ \A i \in StepIds : effect[i] # "undone"
        /\ \A i \in 1..Completed : IsWrite(StepOf(i)) => effect[i] = "present"
        /\ \A i \in StepIds : i > Running \/ i = Running => effect[i] = "absent"
        /\ \A i \in StepIds : effect[i] # "absent" => i <= StepCount /\ IsWrite(StepOf(i))
    BY <2>2 DEF EffectInv, BetweenSteps
  <2>4. \A i \in StepIds : effect'[i] # "absent" => i <= Completed /\ IsWrite(StepOf(i))
    BY <2>2, <2>3 DEF StepIds, Running
  <2>5. CASE Proceeded(outputs)
    BY <2>2, <2>3, <2>4, <2>5, ProceedEffects
  <2>6. ASSUME NEW terminal \in {"CANCELLED", "HALTED", "REJECTED"}, NEW code,
               Finished(Completed, terminal, code)
        PROVE  EffectInv' /\ HonestEnd
    <3>1. terminal \in CompensationTerminals
      BY DEF CompensationTerminals
    <3> QED BY <2>2, <2>4, <2>6, <3>1, FinishEffects
  <2>7. CASE Dispatch("RUNNING", Running)
    <3>1. pc' = "activity" /\ Running' = Running
      BY <2>2, <2>7 DEF Dispatch, Invoke, Running
    <3> QED BY <1>k, <2>2, <2>3, <3>1 DEF EffectInv, HonestEnd, IsWrite, BetweenSteps
  <2> QED BY <2>1, <2>2, <2>5, <2>6, <2>7 DEF BetweenStep
<1>2. ASSUME NEW result \in ActivityResults, StepSucceeds(result)
      PROVE  EffectInv' /\ EffectMoves /\ HonestEnd /\ plan' = plan
  <2>1. /\ Proceeded(outputs') /\ Completed' = Running /\ Completed' \in Nat
        /\ Completed' <= StepCount
    BY <1>2, SucceedShape DEF Completed
  <2>2. /\ plan' = plan /\ pc = "activity" /\ InLoop
        /\ effect' = IF IsWrite(StepOf(Running))
                     THEN [effect EXCEPT ![Running] = "present"] ELSE effect
    BY <1>2 DEF StepSucceeds, InLoop
  <2>3. /\ EffectTypes' /\ EffectMoves
        /\ \A i \in StepIds : effect'[i] # "undone"
        /\ \A i \in 1..Completed : IsWrite(StepOf(i)) => effect'[i] = "present"
        /\ \A i \in StepIds : effect'[i] # "absent" => i <= Running /\ IsWrite(StepOf(i))
    BY <2>2, AttemptEffects
  <2>4. ASSUME NEW i \in 1..Running, IsWrite(StepOf(i)) PROVE effect'[i] = "present"
    <3>1. CASE i = Running
      BY <1>0, <2>2, <2>4, <3>1
    <3>2. CASE i # Running
      <4>1. i \in 1..Completed
        BY <3>2
      <4> QED BY <2>3, <2>4, <4>1
    <3> QED BY <3>1, <3>2
  <2> QED BY <2>1, <2>2, <2>3, <2>4, ProceedEffects
<1>3. ASSUME NEW f \in RawFailures, StepRetries(f)
      PROVE  EffectInv' /\ EffectMoves /\ HonestEnd /\ plan' = plan
  <2>1. /\ plan' = plan /\ pc = "activity" /\ pc' = "activity" /\ Completed' = Completed
        /\ Running' = Running /\ InLoop /\ FailedAttempt(f)
    BY <1>3 DEF StepRetries, snapshot, Completed, Running, InLoop
  <2>2. /\ EffectTypes' /\ EffectMoves
        /\ \A i \in StepIds : effect'[i] # "undone"
        /\ \A i \in 1..Completed : IsWrite(StepOf(i)) => effect'[i] = "present"
        /\ \A i \in StepIds : effect'[i] # "absent" => i <= Running /\ IsWrite(StepOf(i))
    BY <2>1, AttemptEffects DEF FailedAttempt
  <2>3. \A i \in StepIds : i > Running => effect'[i] = "absent"
    BY <2>2 DEF StepIds
  <2>4. \A i \in StepIds : effect'[i] # "absent" => i <= StepCount /\ IsWrite(StepOf(i))
    BY <2>1, <2>2 DEF StepIds
  <2>5. EffectInv'
    BY <1>k, <2>1, <2>2, <2>3, <2>4 DEF EffectInv, IsWrite, BetweenSteps
  <2> QED BY <2>1, <2>2, <2>5 DEF HonestEnd
<1>4. ASSUME NEW f \in RawFailures, StepFails(f)
      PROVE  EffectInv' /\ EffectMoves /\ HonestEnd /\ plan' = plan
  <2> DEFINE code == ActivityFailureCode(f)
  <2>1. Failed(code)
    BY <1>4, FailShape
  <2> HIDE DEF code
  <2>2. /\ plan' = plan /\ pc = "activity" /\ Completed' = Completed
        /\ Running' = Running /\ InLoop /\ FailedAttempt(f)
    BY <1>4 DEF StepFails, Completed, Running, InLoop
  <2>3. /\ EffectTypes' /\ EffectMoves
        /\ \A i \in StepIds : effect'[i] # "undone"
        /\ \A i \in 1..Completed : IsWrite(StepOf(i)) => effect'[i] = "present"
        /\ \A i \in StepIds : effect'[i] # "absent" =>
             i <= PossiblyEffectful /\ i <= Running /\ IsWrite(StepOf(i))
    BY <2>2, AttemptEffects DEF FailedAttempt
  <2>4. \A i \in StepIds : i > Running => effect'[i] = "absent"
    BY <2>3 DEF StepIds
  <2>5. \A i \in StepIds : effect'[i] # "absent" => i <= StepCount /\ IsWrite(StepOf(i))
    BY <2>2, <2>3 DEF StepIds
  <2>6. CASE pc' \in {"activity", "reconciling"}
    BY <1>k, <2>2, <2>3, <2>4, <2>5, <2>6 DEF EffectInv, HonestEnd, IsWrite, BetweenSteps
  <2>7. CASE pc' = "done" /\ status' = "HALTED"
    BY <1>k, <2>2, <2>3, <2>5, <2>7 DEF EffectInv, HonestEnd, IsWrite, Outcome!Honest
  <2>8. ASSUME NEW terminal \in {"COMPENSATED", "HALTED"}, Finished(PossiblyEffectful, terminal, code)
        PROVE  EffectInv' /\ HonestEnd
    <3>1. PossiblyEffectful \in 0..StepCount /\ terminal \in CompensationTerminals
      BY <2>2 DEF PossiblyEffectful, CompensationTerminals
    <3> QED BY <2>2, <2>3, <2>8, <3>1, FinishEffects
  <2> QED BY <2>1, <2>2, <2>3, <2>6, <2>7, <2>8 DEF Failed, Invoke
<1>5. CASE CompensationSucceeds
  <2> DEFINE s == NextToCompensate(queue)
  <2>1. Compensated /\ s \in queue /\ \A t \in queue : t <= s
    BY <1>5, CompensateShape DEF Compensated
  <2>2. /\ plan' = plan /\ pc = "compensating"
        /\ effect' = [effect EXCEPT ![s] = IF @ = "present" THEN "undone" ELSE @]
    BY <1>5 DEF CompensationSucceeds
  <2>3. queue' = queue \ {s} /\ requested' = requested
    BY <2>1 DEF Compensated
  <2> HIDE DEF s
  <2>4. /\ EffectTypes' /\ EffectMoves
        /\ \A i \in StepIds : effect'[i] # "absent" => effect[i] # "absent"
        /\ \A i \in StepIds : effect'[i] = "present" => effect[i] = "present"
    BY <2>1, <2>2, UndoEffects
  <2>5. s \in StepIds /\ effect'[s] # "present"
    BY <1>0, <2>1, <2>2 DEF BaseInv, WorkflowTypeOK
  <2>6. /\ \A i \in queue' : i <= StepCount /\ StepOf(i).compensation # "none"
        /\ \A i \in StepIds :
             effect'[i] = "present" /\ (StepOf(i).compensation # "none" \/ ~requested'.unresolved)
               => i \in queue'
    BY <2>2, <2>3, <2>4, <2>5 DEF EffectInv
  <2>7. \A i \in StepIds : effect'[i] # "absent" => i <= StepCount /\ IsWrite(StepOf(i))
    BY <2>4 DEF EffectInv
  <2>8. EffectInv'
    <3>1. pc' \in {"compensating", "done"}
      BY <2>1 DEF Compensated
    <3> QED BY <1>k, <2>2, <2>6, <2>7, <3>1 DEF EffectInv, IsWrite
  <2>9. HonestEnd
    <3>1. CASE status' = "HALTED" \/ pc' # "done"
      BY <3>1 DEF HonestEnd, Outcome!Honest
    <3>2. CASE queue' = {} /\ ~requested.unresolved /\ status' \in CompensationTerminals
      <4>1. \A i \in StepIds : effect'[i] # "present"
        BY <2>3, <2>6, <3>2
      <4> QED BY <3>2, <4>1 DEF HonestEnd, Outcome!Honest, CompensationTerminals
    <3> QED BY <2>1, <3>1, <3>2 DEF Compensated
  <2> QED BY <2>2, <2>4, <2>8, <2>9
<1>6. CASE CompensationFails
  <2> DEFINE s == NextToCompensate(queue)
  <2>1. s \in queue /\ (\A t \in queue : t <= s) /\ pc' = "done" /\ status' = "HALTED"
    BY <1>6, CompensationFailShape
  <2>2. /\ plan' = plan /\ pc = "compensating"
        /\ effect' \in {effect, [effect EXCEPT ![s] = IF @ = "present" THEN "undone" ELSE @]}
    BY <1>6 DEF CompensationFails
  <2> HIDE DEF s
  <2>3. EffectMoves /\ \A i \in StepIds : effect'[i] # "absent" => effect[i] # "absent"
    BY <2>1, <2>2, UndoEffects
  <2>4. EffectInv' /\ HonestEnd
    BY <1>k, <2>1, <2>2, <2>3 DEF EffectInv, IsWrite, HonestEnd, Outcome!Honest
  <2> QED BY <2>2, <2>3, <2>4
<1>7. CASE VerificationEnds
  <2>1. /\ plan' = plan /\ pc \in {"verifying", "reconciling"} /\ pc' = "done"
        /\ status' \in {"VERIFIED", "NEEDS_REVIEW", "HALTED"} /\ effect' = effect
    BY <1>7, VerificationShape DEF world
  <2>2. \A i \in StepIds : effect'[i] # "undone"
    BY <2>1 DEF EffectInv
  <2> QED
    BY <1>k, <2>1, <2>2 DEF EffectInv, EffectMoves, IsWrite, HonestEnd, Outcome!Honest
<1>8. CASE Signal
  <2>1. UNCHANGED <<plan, control, snapshot, world>>
    BY <1>8 DEF Signal, Approve, RequestCancel
  <2>2. /\ pc' = pc /\ effect' = effect /\ queue' = queue /\ requested' = requested
        /\ Completed' = Completed /\ Running' = Running
    BY <2>1 DEF control, world, snapshot, Completed, Running
  <2>3. EffectInv'
    BY <1>k, <2>1, <2>2 DEF EffectInv, IsWrite, BetweenSteps
  <2> QED BY <2>1, <2>2, <2>3 DEF EffectMoves, HonestEnd
<1> QED
  BY <1>1, <1>2, <1>3, <1>4, <1>5, <1>6, <1>7, <1>8
  DEF WorkflowNext, Progress, Closed, VerificationEnds

(* A closed run takes no further step.                                      *)
LEMMA ClosedStays ==
  ASSUME [WorkflowNext]_workflowVars, pc = "done"
  PROVE  UNCHANGED workflowVars
  BY DEF WorkflowNext, Progress, Signal, Closed, Start, ApprovalDecided, ApprovalTimeout,
      StepSucceeds, StepRetries, StepFails, CompensationSucceeds, CompensationFails,
      VerificationFails, VerificationMismatch, VerificationReports, Approve, RequestCancel

(* A step of the workflow is a step of TransactionOutcome, or a stutter.    *)
LEMMA OutcomeStep ==
  ASSUME BaseInv, EffectInv, [WorkflowNext]_workflowVars, BaseInv'
  PROVE  /\ EffectInv'
         /\ [Outcome!Next]_<<{i \in 1..StepCount : IsWrite(StepOf(i))},
                             {i \in 1..StepCount : StepOf(i).compensation # "none"},
                             IF pc = "done" THEN status ELSE "OPEN", effect>>
<1>1. CASE UNCHANGED workflowVars
  BY <1>1 DEF EffectInv, workflowVars, control, snapshot, world, StepCount, StepOf, IsWrite,
      Completed, Running, BetweenSteps
<1>2. CASE WorkflowNext /\ pc # "done"
  <2>1. EffectInv' /\ EffectMoves /\ HonestEnd /\ plan' = plan
    BY <1>2, EffectStep
  <2>2. pc' = "done" => status' \in Terminal
    BY DEF BaseInv, ControlInv
  <2>3. Outcome!Next
    BY <1>2, <2>1, <2>2
    DEF Outcome!Next, Outcome!Outcomes, EffectMoves, HonestEnd, StepCount, StepOf, Terminal
  <2> QED BY <2>1, <2>3
<1> QED BY <1>1, <1>2, ClosedStays

(* Every run of the workflow is a run of TransactionOutcome: writes happen  *)
(* in plan order and are undone latest first, and the terminal status that  *)
(* is reported tells which of the two was done.                             *)
THEOREM RefinesOutcome == WorkflowSpec => ImplementsOutcome
<1>1. ASSUME WorkflowInit PROVE Outcome!Init /\ EffectInv
  <2>1. /\ plan \in Plans /\ pc = "new" /\ effect = [s \in StepIds |-> "absent"] /\ outputs = <<>>
    BY <1>1 DEF WorkflowInit
  <2>2. \A i \in 1..StepCount : i \in StepIds /\ (StepOf(i).compensation # "none" => IsWrite(StepOf(i)))
    BY <2>1, PlanFacts DEF ValidStep
  <2>3. Outcome!Init
    BY <2>1, <2>2 DEF Outcome!Init
  <2>4. EffectInv
    BY <2>1 DEF EffectInv, Completed
  <2> QED BY <2>3, <2>4
<1>2. BaseInv /\ EffectInv /\ [WorkflowNext]_workflowVars /\ BaseInv' =>
        /\ EffectInv'
        /\ [Outcome!Next]_<<{i \in 1..StepCount : IsWrite(StepOf(i))},
                            {i \in 1..StepCount : StepOf(i).compensation # "none"},
                            IF pc = "done" THEN status ELSE "OPEN", effect>>
  BY OutcomeStep
<1>3. WorkflowInit => Outcome!Init /\ EffectInv
  BY <1>1
<1> QED
  BY <1>2, <1>3, BaseAlways, PTL DEF WorkflowSpec, ImplementsOutcome, Outcome!Spec

(* The outcome as an invariant: a run that has closed reported a status that *)
(* is true of the outside world and stays so.                                *)
THEOREM ClosedRunsAreHonest == WorkflowSpec => [](pc = "done" => Outcome!Honest(status, effect))
<1> DEFINE Told == pc = "done" => Outcome!Honest(status, effect)
<1>1. WorkflowInit => EffectInv /\ Told
  BY DEF WorkflowInit, EffectInv, Completed
<1>2. ASSUME BaseInv, EffectInv, Told, [WorkflowNext]_workflowVars
      PROVE  EffectInv' /\ Told'
  <2>1. CASE UNCHANGED workflowVars
    BY <1>2, <2>1 DEF EffectInv, workflowVars, control, snapshot, world, StepCount, StepOf, IsWrite,
        Completed, Running, BetweenSteps, Outcome!Honest
  <2>2. CASE WorkflowNext /\ pc # "done"
    <3>1. EffectInv' /\ HonestEnd /\ plan' = plan
      BY <1>2, <2>2, EffectStep
    <3> QED BY <3>1 DEF HonestEnd, Outcome!Honest, StepCount, StepOf
  <2> QED BY <1>2, <2>1, <2>2, ClosedStays
<1>3. BaseInv /\ EffectInv /\ Told /\ [WorkflowNext]_workflowVars => EffectInv' /\ Told'
  BY <1>2
<1> QED BY <1>1, <1>3, BaseAlways, PTL DEF WorkflowSpec

-----------------------------------------------------------------------------
(* What is done stays done.                                                 *)

(* Nothing undoes or repeats a completed step: its output is kept, and its  *)
(* adapter is not called for it again.                                      *)
CompletedStays ==
  \A i \in 1..Completed :
    i <= Completed' /\ outputs'[i] = outputs[i] /\ calls'[i] = calls[i]

(* The top of the loop calls only the step it comes to.                     *)
LEMMA ProceedLeavesCalls ==
  ASSUME BaseInv, plan' = plan, Proceeded(outputs'), Len(outputs') \in Nat,
         Completed <= Len(outputs')
  PROVE  \A i \in 1..Completed : calls'[i] = calls[i]
<1>1. calls \in [StepIds -> Nat] /\ Completed \in Nat
  BY LoopFacts DEF BaseInv, WorkflowTypeOK
<1> QED BY <1>1 DEF Proceeded, Finished, Dispatch, Invoke

(* The workflow goes through its plan once: whatever is retried, rerouted,  *)
(* signalled, compensated or verified later, a completed step keeps its     *)
(* output and is not called again.                                          *)
THEOREM CompletedStepsAreFinal == WorkflowSpec => [][CompletedStays]_workflowVars
<1> USE LoopFacts
<1>1. ASSUME BaseInv, WorkflowNext PROVE CompletedStays
  <2>0. /\ calls \in [StepIds -> Nat] /\ Completed \in Nat /\ Running = Completed + 1
        /\ outputs \in Seq(ActivityResults) /\ Completed = Len(outputs)
    BY <1>1 DEF BaseInv, WorkflowTypeOK, Running, Completed
  <2>1. CASE Start \/ ApprovalDecided \/ ApprovalTimeout
    <3>1. BetweenStep
      BY <1>1, <2>1, BetweenShape
    <3>2. plan' = plan /\ outputs' = outputs /\ Completed' = Completed
      BY <3>1 DEF BetweenStep, Completed
    <3>3. \A i \in 1..Completed : calls'[i] = calls[i]
      BY <1>1, <2>0, <3>1, <3>2, ProceedLeavesCalls DEF BetweenStep, Finished, Dispatch, Invoke
    <3> QED BY <2>0, <3>2, <3>3 DEF CompletedStays
  <2>2. ASSUME NEW result \in ActivityResults, StepSucceeds(result) PROVE CompletedStays
    <3>1. Proceeded(outputs') /\ Len(outputs') = Running /\ Len(outputs') \in Nat
      BY <1>1, <2>2, SucceedShape
    <3>2. plan' = plan /\ outputs' = Append(outputs, result)
      BY <2>2 DEF StepSucceeds
    <3>3. \A i \in 1..Completed : calls'[i] = calls[i]
      BY <1>1, <2>0, <3>1, <3>2, ProceedLeavesCalls
    <3> QED BY <2>0, <3>1, <3>2, <3>3 DEF CompletedStays, Completed
  <2>3. ASSUME NEW f \in RawFailures, StepRetries(f) \/ StepFails(f) PROVE CompletedStays
    <3>1. outputs' = outputs /\ Completed' = Completed
      BY <2>3 DEF StepRetries, StepFails, snapshot, Completed
    <3>2. calls' = calls \/ calls' = [calls EXCEPT ![Running] = @ + 1]
      BY <1>1, <2>3, FailShape DEF StepRetries, Failed, Finished, Invoke
    <3> QED BY <2>0, <3>1, <3>2 DEF CompletedStays
  <2>4. CASE \/ CompensationSucceeds \/ CompensationFails \/ VerificationEnds \/ Signal
             \/ Closed
    <3>1. outputs' = outputs /\ calls' = calls
      BY <1>1, <2>4, VerificationShape
      DEF CompensationSucceeds, CompensationFails, Signal, Approve, RequestCancel, Closed,
          workflowVars, snapshot, world
    <3> QED BY <2>0, <3>1 DEF CompletedStays, Completed
  <2> QED
    BY <1>1, <2>1, <2>2, <2>3, <2>4 DEF WorkflowNext, Progress, VerificationEnds
<1>2. BaseInv /\ [WorkflowNext]_workflowVars => [CompletedStays]_workflowVars
  BY <1>1
<1> QED BY <1>2, BaseAlways, PTL DEF WorkflowSpec

-----------------------------------------------------------------------------
(* A world in which an attempt that was given up may take effect later.     *)

LateWorkflow == WorkflowInit /\ [][LateWorkflowNext]_workflowVars

(* A late effect is out of the workflow's sight.                            *)
LEMMA LateIsUnseen ==
  ASSUME NEW s \in StepIds, LateEffect(s), BaseInv, CallsInv, RouteInv
  PROVE  /\ BaseInv' /\ CallsInv' /\ RouteInv'
         /\ UnknownInv => UnknownInv'
<1>1. UNCHANGED <<plan, control, snapshot, signals, calls>>
  BY DEF LateEffect
<1>2. effect' \in [StepIds -> {"absent", "present", "undone"}] /\ zombies' \subseteq StepIds
  BY DEF LateEffect, BaseInv, WorkflowTypeOK
<1>3. BaseInv'
  BY <1>1, <1>2 DEF BaseInv, WorkflowTypeOK, ControlInv, control, snapshot, signals, InLoop,
      Completed, Running, StepCount, StepOf
<1>4. CallsInv'
  BY <1>1 DEF CallsInv, ApprovedBeforeCall, control, snapshot, signals, BetweenSteps,
      Completed, Running, StepCount, StepOf
<1>5. RouteInv'
  BY <1>1 DEF RouteInv, FallbackIsSafe, LastRoute, control, snapshot, BetweenSteps,
      Completed, Running, StepOf
<1>6. UnknownInv => UnknownInv'
  BY <1>1 DEF UnknownInv, UnknownEffectLeftAlone, control, snapshot,
      Completed, Running, StepCount, StepOf
<1> QED BY <1>3, <1>4, <1>5, <1>6

(* What the workflow does is safe with late effects too: no order of timed- *)
(* out attempts coming to life makes it leave its transition table, call an *)
(* unapproved step, fall back unsafely, or touch an unknown effect.         *)
THEOREM SafeUnderLateEffects ==
  ASSUME CodesApart
  PROVE  LateWorkflow => [](/\ NoInvalidTransition /\ ApprovedBeforeCall
                            /\ FallbackIsSafe /\ UnknownEffectLeftAlone)
<1> DEFINE LateInv == BaseInv /\ CallsInv /\ RouteInv /\ UnknownInv
<1>1. WorkflowInit => LateInv
  <2>1. WorkflowInit => RouteInv
    BY DEF WorkflowInit, RouteInv, FallbackIsSafe
  <2> QED BY <2>1, BaseInit, CallsInit, UnknownInit
<1>2. LateInv /\ [LateWorkflowNext]_workflowVars => LateInv'
  <2>1. ASSUME LateInv, [WorkflowNext]_workflowVars PROVE LateInv'
    BY <2>1, BaseStep, CallsStep, RouteStep, UnknownStep
  <2>2. ASSUME LateInv, NEW s \in StepIds, LateEffect(s) PROVE LateInv'
    BY <2>2, LateIsUnseen
  <2> QED BY <2>1, <2>2 DEF LateWorkflowNext
<1>3. LateInv => /\ NoInvalidTransition /\ ApprovedBeforeCall
                 /\ FallbackIsSafe /\ UnknownEffectLeftAlone
  BY DEF BaseInv, ControlInv, WorkflowTypeOK, NoInvalidTransition, INVALID, Terminal, CallsInv,
      RouteInv, UnknownInv
<1> QED BY <1>1, <1>2, <1>3, PTL DEF LateWorkflow

=============================================================================
