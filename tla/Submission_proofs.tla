-------------------------- MODULE Submission_proofs --------------------------
(***************************************************************************)
(* What Submission promises, for any sets of calls, keys and digests.      *)
(*                                                                         *)
(* The argument: a row's transaction id is the call that made it, so two   *)
(* keys never share one; what a call holds is what the row says for good;  *)
(* hence every call of a key starts the same workflow id with the same     *)
(* digest, and only a call that saw it started marks the row.              *)
(***************************************************************************)
EXTENDS Submission, TLAPS

Working == {"plan", "start", "acknowledged", "plan_failed", "start_failed"}

(* What a call holds is the row's binding, and the request it was made for. *)
HeldIsBound ==
  \A c \in Calls :
    /\ pc[c] \in Working => held[c] # Absent
    /\ held[c] # Absent =>
         /\ rows[KeyOf(c)] # Absent
         /\ rows[KeyOf(c)].txn = held[c].txn
         /\ rows[KeyOf(c)].digest = held[c].digest
         /\ held[c].digest = request[c].digest

(* A row's transaction id belongs to a call for that key.                   *)
RowOwnsItsId == \A k \in Keys : rows[k] # Absent => KeyOf(rows[k].txn) = k

(* An acknowledged call saw its workflow.                                   *)
AcknowledgedRuns ==
  \A c \in Calls : pc[c] = "acknowledged" => workflows[held[c].txn] # Absent

(* Only a call that is through has an answer.                               *)
AnswerIsLast ==
  \A c \in Calls :
    /\ answer[c] # "none" => pc[c] = "done"
    /\ answer[c] = "accepted" => held[c] # Absent /\ rows[KeyOf(c)].state = "STARTED"

(* A started row carries no error code.                                     *)
StartedIsClean ==
  \A k \in Keys : rows[k] # Absent /\ rows[k].state = "STARTED" => rows[k].error = "none"

(* A call has failed and is gone.                                           *)
Lost(d) == \/ answer[d] \in {"runtime_unavailable", "runtime_configuration_error"}
           \/ pc[d] = "dead"

(* A failed row was left by a call that failed or died.                     *)
FailedRowHasLoser ==
  \A k \in Keys : rows[k] # Absent /\ rows[k].state = "START_FAILED"
    => \E d \in Calls : KeyOf(d) = k /\ Lost(d)

IInv ==
  /\ TypeOK
  /\ HeldIsBound
  /\ RowOwnsItsId
  /\ OneWorkflowPerKey
  /\ AcknowledgedRuns
  /\ SignalsHaveTarget
  /\ AnswerIsLast
  /\ StartedIsClean
  /\ FailedRowHasLoser
  /\ OnlyRacesFail

-----------------------------------------------------------------------------
(* Initially nothing is reserved, started or answered.                      *)
LEMMA InitIInv == Init => IInv
<1> SUFFICES ASSUME Init PROVE IInv
  OBVIOUS
<1>1. TypeOK
  BY AbsentAssumption DEF Init, TypeOK, Answers
<1>2. HeldIsBound /\ RowOwnsItsId /\ AcknowledgedRuns /\ AnswerIsLast
  BY DEF Init, HeldIsBound, RowOwnsItsId, AcknowledgedRuns, AnswerIsLast, Working
<1>3. OneWorkflowPerKey /\ SignalsHaveTarget
  BY DEF Init, OneWorkflowPerKey, SignalsHaveTarget
<1>4. StartedIsClean /\ FailedRowHasLoser /\ OnlyRacesFail
  BY DEF Init, StartedIsClean, FailedRowHasLoser, OnlyRacesFail
<1> QED BY <1>1, <1>2, <1>3, <1>4 DEF IInv

(* Writing a state and an error code into a row leaves a row.               *)
LEMMA RowUpdate ==
  ASSUME NEW row \in Rows, NEW s \in {"RESERVED", "STARTED", "START_FAILED"},
         NEW e \in ErrorCodes \cup {"none"}
  PROVE  /\ WithState(row, s, e) \in Rows
         /\ WithState(row, s, e).txn = row.txn
         /\ WithState(row, s, e).digest = row.digest
         /\ WithState(row, s, e).state = s
         /\ WithState(row, s, e).error = e
         /\ row.state = s /\ row.error = e => WithState(row, s, e) = row
  BY DEF Rows, WithState

(* A call at work holds a reservation, and its key has a row.               *)
LEMMA WorkingHolds ==
  ASSUME TypeOK, HeldIsBound, NEW c \in Calls, pc[c] \in Working
  PROVE  /\ KeyOf(c) \in Keys
         /\ held[c] \in Reservations
         /\ rows[KeyOf(c)] \in Rows
  BY DEF TypeOK, HeldIsBound, KeyOf, Requests

(* Every step keeps each variable in its type.                              *)
LEMMA TypeStep == TypeOK /\ HeldIsBound /\ [Next]_vars => TypeOK'
<1> SUFFICES ASSUME TypeOK, HeldIsBound, [Next]_vars PROVE TypeOK'
  OBVIOUS
<1> USE AbsentAssumption DEF TypeOK, Rows, Reservations, Requests, KeyOf, Goto, Answer,
      AnswerOrDie, Answers, ErrorCodes
<1>1. ASSUME NEW c \in Calls, ReserveNew(c) PROVE TypeOK'
  BY <1>1 DEF ReserveNew
<1>2. ASSUME NEW c \in Calls, ReserveConflict(c) PROVE TypeOK'
  BY <1>2 DEF ReserveConflict
<1>3. ASSUME NEW c \in Calls, ReserveReplay(c) PROVE TypeOK'
  <2>1. rows[KeyOf(c)] \in Rows
    BY <1>3 DEF ReserveReplay
  <2>2. rows' \in [Keys -> Rows \cup {Absent}]
    <3> DEFINE new == WithState(rows[KeyOf(c)], "RESERVED", "none")
    <3>1. new \in Rows
      BY <2>1, RowUpdate
    <3>2. rows' = rows \/ rows' = [rows EXCEPT ![KeyOf(c)] = new]
      BY <1>3 DEF ReserveReplay
    <3> HIDE DEF new
    <3> QED BY <3>1, <3>2
  <2>3. held' \in [Calls -> Reservations \cup {Absent}]
    BY <1>3, <2>1 DEF ReserveReplay
  <2> QED BY <1>3, <2>2, <2>3 DEF ReserveReplay
<1>4. ASSUME NEW c \in Calls, PlanBuilt(c) \/ PlanFails(c) \/ StartFails(c) \/ Crash(c)
      PROVE TypeOK'
  <2>1. CASE PlanBuilt(c)  BY <2>1 DEF PlanBuilt
  <2>2. CASE PlanFails(c)  BY <2>2 DEF PlanFails
  <2>3. CASE StartFails(c)  BY <2>3 DEF StartFails
  <2>4. CASE Crash(c)  BY <2>4 DEF Crash
  <2> QED BY <1>4, <2>1, <2>2, <2>3, <2>4
<1>5. ASSUME NEW c \in Calls, StartReaches(c) PROVE TypeOK'
  <2>1. held[c] \in Reservations
    BY <1>5, WorkingHolds DEF StartReaches, Working
  <2>2. workflows' \in [Calls -> Digests \cup {Absent}]
    BY <1>5, <2>1 DEF StartReaches, WorkflowId
  <2>3. pc' = [pc EXCEPT ![c] = "acknowledged"] \/ pc' = [pc EXCEPT ![c] = "start_failed"]
    BY <1>5 DEF StartReaches
  <2> QED BY <1>5, <2>2, <2>3 DEF StartReaches
<1>6. ASSUME NEW c \in Calls, MarkStarted(c) PROVE TypeOK'
  <2>1. rows[KeyOf(c)] \in Rows
    BY <1>6, WorkingHolds DEF MarkStarted, Working
  <2>2. rows' \in [Keys -> Rows \cup {Absent}]
    <3> DEFINE new == WithState(rows[KeyOf(c)], "STARTED", "none")
    <3>1. new \in Rows
      BY <2>1, RowUpdate
    <3>2. rows' = rows \/ rows' = [rows EXCEPT ![KeyOf(c)] = new]
      BY <1>6 DEF MarkStarted
    <3> HIDE DEF new
    <3> QED BY <3>1, <3>2
  <2> QED BY <1>6, <2>2 DEF MarkStarted
<1>7. ASSUME NEW c \in Calls, MarkStartFailed(c) PROVE TypeOK'
  <2>1. rows[KeyOf(c)] \in Rows
    BY <1>7, WorkingHolds DEF MarkStartFailed, Working
  <2>2. rows' \in [Keys -> Rows \cup {Absent}]
    <3> DEFINE new == WithState(rows[KeyOf(c)], "START_FAILED", StartErrorCode(c))
    <3>1. StartErrorCode(c) \in ErrorCodes
      BY DEF StartErrorCode
    <3>2. new \in Rows
      BY <2>1, <3>1, RowUpdate
    <3>3. rows' = rows \/ rows' = [rows EXCEPT ![KeyOf(c)] = new]
      BY <1>7 DEF MarkStartFailed
    <3> HIDE DEF new
    <3> QED BY <3>2, <3>3
  <2> QED BY <1>7, <2>2 DEF MarkStartFailed
<1>8. ASSUME NEW k \in Keys, SignalWorkflow(k) PROVE TypeOK'
  BY <1>8 DEF SignalWorkflow, RequireStarted
<1>9. CASE UNCHANGED vars
  BY <1>9 DEF vars
<1> QED
  BY <1>1, <1>2, <1>3, <1>4, <1>5, <1>6, <1>7, <1>8, <1>9 DEF Next, Submit

(* What one step may do to a row: make it, or rewrite its state.            *)
RowKept(k) ==
  rows[k] # Absent =>
    /\ rows'[k] # Absent
    /\ rows'[k].txn = rows[k].txn
    /\ rows'[k].digest = rows[k].digest
    /\ rows[k].state = "STARTED" => rows'[k] = rows[k]

(* No step unbinds a key, takes back a STARTED row, changes a request or    *)
(* starts a workflow id twice.                                              *)
LEMMA StepKeeps ==
  TypeOK /\ HeldIsBound /\ StartedIsClean /\ [Next]_vars =>
    /\ request' = request
    /\ \A k \in Keys : RowKept(k)
    /\ \A t \in Calls : workflows[t] # Absent => workflows'[t] = workflows[t]
<1> SUFFICES ASSUME TypeOK, HeldIsBound, StartedIsClean, [Next]_vars
             PROVE  /\ request' = request
                    /\ \A k \in Keys : RowKept(k)
                    /\ \A t \in Calls : workflows[t] # Absent => workflows'[t] = workflows[t]
  OBVIOUS
<1>1. request' = request
  BY DEF Next, Submit, vars, ReserveNew, ReserveConflict, ReserveReplay, PlanBuilt, PlanFails,
      StartReaches, StartFails, MarkStarted, MarkStartFailed, Crash, SignalWorkflow
<1>2. ASSUME NEW t \in Calls, workflows[t] # Absent PROVE workflows'[t] = workflows[t]
  <2>1. CASE UNCHANGED workflows
    BY <2>1
  <2>2. ASSUME NEW c \in Calls, StartReaches(c) PROVE workflows'[t] = workflows[t]
    BY <1>2, <2>2 DEF StartReaches, TypeOK
  <2> QED
    BY <2>1, <2>2 DEF Next, Submit, vars, ReserveNew, ReserveConflict, ReserveReplay, PlanBuilt,
        PlanFails, StartFails, MarkStarted, MarkStartFailed, Crash, SignalWorkflow
<1>3. ASSUME NEW k \in Keys, rows[k] # Absent PROVE RowKept(k)
  <2>1. CASE UNCHANGED rows
    BY <2>1 DEF RowKept
  <2>2. ASSUME NEW c \in Calls, ReserveNew(c) PROVE RowKept(k)
    BY <1>3, <2>2 DEF ReserveNew, TypeOK, RowKept
  <2>3. ASSUME NEW c \in Calls, NEW s \in {"RESERVED", "STARTED", "START_FAILED"},
               NEW e \in ErrorCodes \cup {"none"},
               rows[KeyOf(c)] # Absent, rows[KeyOf(c)].state = "STARTED" => s = "STARTED" /\ e = "none",
               rows' = [rows EXCEPT ![KeyOf(c)] = WithState(@, s, e)]
        PROVE  RowKept(k)
    <3> DEFINE new == WithState(rows[KeyOf(c)], s, e)
    <3>1. rows[KeyOf(c)] \in Rows
      BY <2>3 DEF TypeOK, KeyOf, Requests
    <3>2. new \in Rows /\ new.txn = rows[KeyOf(c)].txn /\ new.digest = rows[KeyOf(c)].digest
      BY <2>3, <3>1, RowUpdate
    <3>3. rows[KeyOf(c)].state = "STARTED" => new = rows[KeyOf(c)]
      <4> SUFFICES ASSUME rows[KeyOf(c)].state = "STARTED" PROVE new = rows[KeyOf(c)]
        OBVIOUS
      <4>1. rows[KeyOf(c)].error = "none"
        BY <2>3 DEF StartedIsClean, TypeOK, KeyOf, Requests
      <4>2. s = "STARTED" /\ e = "none"
        BY <2>3
      <4> QED BY <3>1, <4>1, <4>2, RowUpdate
    <3>4. rows' = [rows EXCEPT ![KeyOf(c)] = new]
      BY <2>3
    <3> HIDE DEF new
    <3> QED BY <1>3, <3>1, <3>2, <3>3, <3>4, AbsentAssumption DEF TypeOK, RowKept
  <2>4. ASSUME NEW c \in Calls, ReserveReplay(c) PROVE RowKept(k)
    BY <2>1, <2>3, <2>4 DEF ReserveReplay, ErrorCodes
  <2>5. ASSUME NEW c \in Calls, MarkStarted(c) PROVE RowKept(k)
    <3>1. rows[KeyOf(c)] # Absent
      BY <2>5, WorkingHolds, AbsentAssumption DEF MarkStarted, Working
    <3> QED BY <2>1, <2>3, <2>5, <3>1 DEF MarkStarted, ErrorCodes
  <2>6. ASSUME NEW c \in Calls, MarkStartFailed(c) PROVE RowKept(k)
    <3>1. rows[KeyOf(c)] # Absent
      BY <2>6, WorkingHolds, AbsentAssumption DEF MarkStartFailed, Working
    <3> QED
      BY <2>1, <2>3, <2>6, <3>1 DEF MarkStartFailed, CanMarkFailed, StartErrorCode, ErrorCodes
  <2> QED
    BY <2>1, <2>2, <2>4, <2>5, <2>6 DEF Next, Submit, vars, ReserveConflict, PlanBuilt, PlanFails,
        StartReaches, StartFails, Crash, SignalWorkflow
<1> QED BY <1>1, <1>2, <1>3 DEF RowKept

(* Only a call's own steps change what is recorded of it.                   *)
LEMMA OwnStep ==
  ASSUME TypeOK, [Next]_vars, NEW c \in Calls
  PROVE  \/ Submit(c) \/ Crash(c)
         \/ pc'[c] = pc[c] /\ answer'[c] = answer[c] /\ held'[c] = held[c]
<1>1. CASE UNCHANGED vars
  BY <1>1 DEF vars
<1>2. ASSUME NEW k \in Keys, SignalWorkflow(k)
      PROVE  pc' = pc /\ answer' = answer /\ held' = held
  BY <1>2 DEF SignalWorkflow
<1>3. ASSUME NEW d \in Calls, Submit(d) \/ Crash(d), d # c
      PROVE  pc'[c] = pc[c] /\ answer'[c] = answer[c] /\ held'[c] = held[c]
  <2> USE <1>3 DEF TypeOK, Goto, Answer, AnswerOrDie
  <2>1. CASE ReserveNew(d)  BY <2>1 DEF ReserveNew
  <2>2. CASE ReserveConflict(d)  BY <2>2 DEF ReserveConflict
  <2>3. CASE ReserveReplay(d)  BY <2>3 DEF ReserveReplay
  <2>4. CASE PlanBuilt(d) \/ PlanFails(d)  BY <2>4 DEF PlanBuilt, PlanFails
  <2>5. CASE StartReaches(d)  BY <2>5 DEF StartReaches
  <2>6. CASE StartFails(d)  BY <2>6 DEF StartFails
  <2>7. CASE MarkStarted(d)  BY <2>7 DEF MarkStarted
  <2>8. CASE MarkStartFailed(d)  BY <2>8 DEF MarkStartFailed
  <2>9. CASE Crash(d)  BY <2>9 DEF Crash
  <2> QED BY <1>3, <2>1, <2>2, <2>3, <2>4, <2>5, <2>6, <2>7, <2>8, <2>9 DEF Submit
<1> QED
  BY <1>1, <1>2, <1>3 DEF Next

(* A call gets to work, and gets something to hold, only in reserve.        *)
LEMMA CallShape ==
  ASSUME TypeOK, [Next]_vars, NEW c \in Calls
  PROVE  \/ ReserveNew(c) \/ ReserveReplay(c)
         \/ held'[c] = held[c] /\ (pc'[c] \in Working => pc[c] \in Working)
<1>1. CASE UNCHANGED vars
  BY <1>1 DEF vars
<1>2. ASSUME NEW k \in Keys, SignalWorkflow(k)
      PROVE  held' = held /\ pc' = pc
  BY <1>2 DEF SignalWorkflow
<1>3. ASSUME NEW d \in Calls, Submit(d) \/ Crash(d), ~ReserveNew(d), ~ReserveReplay(d)
      PROVE  held' = held /\ (pc'[c] \in Working => pc[c] \in Working)
  <2> USE DEF Working, TypeOK, Goto, Answer, AnswerOrDie
  <2>1. CASE ReserveConflict(d)  BY <2>1 DEF ReserveConflict
  <2>2. CASE PlanBuilt(d)  BY <2>2 DEF PlanBuilt
  <2>3. CASE PlanFails(d)  BY <2>3 DEF PlanFails
  <2>4. CASE StartReaches(d)  BY <2>4 DEF StartReaches
  <2>5. CASE StartFails(d)  BY <2>5 DEF StartFails
  <2>6. CASE MarkStarted(d)  BY <2>6 DEF MarkStarted
  <2>7. CASE MarkStartFailed(d)  BY <2>7 DEF MarkStartFailed
  <2>8. CASE Crash(d)  BY <2>8 DEF Crash
  <2> QED BY <1>3, <2>1, <2>2, <2>3, <2>4, <2>5, <2>6, <2>7, <2>8 DEF Submit
<1>4. ASSUME NEW d \in Calls, d # c, ReserveNew(d) \/ ReserveReplay(d)
      PROVE  held'[c] = held[c] /\ pc'[c] = pc[c]
  BY <1>4 DEF ReserveNew, ReserveReplay, TypeOK, Goto, Answer
<1> QED
  BY <1>1, <1>2, <1>3, <1>4 DEF Next, Submit

(* The steps that write a row, and what they write.                         *)
LEMMA RowShape ==
  ASSUME TypeOK, HeldIsBound, [Next]_vars, NEW k \in Keys
  PROVE  \/ rows'[k] = rows[k]
         \/ \E c \in Calls :
              /\ KeyOf(c) = k
              /\ \/ ReserveNew(c) /\ rows[k] = Absent
                 \/ ReserveReplay(c) /\ rows[k] \in Rows
                      /\ rows'[k] = WithState(rows[k], "RESERVED", "none")
                 \/ MarkStarted(c) /\ rows[k] \in Rows
                      /\ rows'[k] = WithState(rows[k], "STARTED", "none")
                 \/ MarkStartFailed(c) /\ rows[k] \in Rows
                      /\ rows'[k] = WithState(rows[k], "START_FAILED", StartErrorCode(c))
<1>1. CASE UNCHANGED rows
  BY <1>1
<1>2. ASSUME NEW c \in Calls, ReserveNew(c), rows'[k] # rows[k]
      PROVE  KeyOf(c) = k /\ rows[k] = Absent
  BY <1>2 DEF ReserveNew, TypeOK
<1>3. ASSUME NEW c \in Calls, ReserveReplay(c), rows'[k] # rows[k]
      PROVE  /\ KeyOf(c) = k /\ rows[k] \in Rows
             /\ rows'[k] = WithState(rows[k], "RESERVED", "none")
  BY <1>3 DEF ReserveReplay, TypeOK
<1>4. ASSUME NEW c \in Calls, MarkStarted(c), rows'[k] # rows[k]
      PROVE  /\ KeyOf(c) = k /\ rows[k] \in Rows
             /\ rows'[k] = WithState(rows[k], "STARTED", "none")
  BY <1>4, WorkingHolds DEF MarkStarted, TypeOK, Working
<1>5. ASSUME NEW c \in Calls, MarkStartFailed(c), rows'[k] # rows[k]
      PROVE  /\ KeyOf(c) = k /\ rows[k] \in Rows
             /\ rows'[k] = WithState(rows[k], "START_FAILED", StartErrorCode(c))
  BY <1>5, WorkingHolds DEF MarkStartFailed, TypeOK, Working
<1> QED
  BY <1>1, <1>2, <1>3, <1>4, <1>5 DEF Next, Submit, vars, ReserveConflict, PlanBuilt, PlanFails,
      StartReaches, StartFails, Crash, SignalWorkflow

(* Holding a reservation goes on agreeing with the row.                     *)
LEMMA HeldStep == IInv /\ [Next]_vars => HeldIsBound'
<1> SUFFICES ASSUME IInv, [Next]_vars, NEW c \in Calls
             PROVE  /\ pc'[c] \in Working => held'[c] # Absent
                    /\ held'[c] # Absent =>
                         /\ rows'[KeyOf(c)] # Absent
                         /\ rows'[KeyOf(c)].txn = held'[c].txn
                         /\ rows'[KeyOf(c)].digest = held'[c].digest
                         /\ held'[c].digest = request[c].digest
  BY StepKeeps DEF HeldIsBound, IInv, KeyOf
<1>1. KeyOf(c) \in Keys
  BY DEF IInv, TypeOK, KeyOf, Requests
<1>2. CASE held'[c] = held[c] /\ (pc'[c] \in Working => pc[c] \in Working)
  BY <1>1, <1>2, StepKeeps DEF HeldIsBound, IInv, RowKept
<1>3. CASE ReserveNew(c)
  BY <1>1, <1>3, AbsentAssumption DEF ReserveNew, IInv, TypeOK, Rows, Reservations, Requests
<1>4. CASE ReserveReplay(c)
  <2>1. rows[KeyOf(c)] \in Rows
    BY <1>1, <1>4 DEF ReserveReplay, IInv, TypeOK
  <2>2. RowKept(KeyOf(c))
    BY <1>1, StepKeeps DEF IInv
  <2>3. held'[c] = [txn |-> rows[KeyOf(c)].txn, digest |-> rows[KeyOf(c)].digest]
    BY <1>4 DEF ReserveReplay, IInv, TypeOK
  <2>4. held'[c] # Absent
    BY <2>1, <2>3, AbsentAssumption DEF Rows, Reservations
  <2>5. rows[KeyOf(c)] # Absent /\ rows[KeyOf(c)].digest = request[c].digest
    BY <1>4 DEF ReserveReplay, SameRequest
  <2> QED BY <2>2, <2>3, <2>4, <2>5 DEF RowKept
<1> QED BY <1>2, <1>3, <1>4, CallShape DEF IInv

(* A row goes on belonging to a call for its key.                           *)
LEMMA RowStep == IInv /\ [Next]_vars => RowOwnsItsId' /\ StartedIsClean'
<1> SUFFICES ASSUME IInv, [Next]_vars, NEW k \in Keys, rows'[k] # Absent
             PROVE  /\ request'[rows'[k].txn].key = k
                    /\ rows'[k].state = "STARTED" => rows'[k].error = "none"
  BY DEF RowOwnsItsId, StartedIsClean, KeyOf
<1>1. TypeOK /\ HeldIsBound /\ request' = request /\ RowKept(k)
  BY StepKeeps DEF IInv
<1>2. CASE rows'[k] = rows[k]
  BY <1>1, <1>2 DEF IInv, RowOwnsItsId, StartedIsClean, KeyOf
<1>3. ASSUME NEW c \in Calls, KeyOf(c) = k, ReserveNew(c)
      PROVE  rows'[k].txn = c /\ rows'[k].state = "RESERVED"
  BY <1>1, <1>3 DEF ReserveNew, TypeOK
<1>4. ASSUME rows[k] \in Rows, NEW s \in {"RESERVED", "START_FAILED"}, NEW e \in ErrorCodes \cup {"none"},
             rows'[k] = WithState(rows[k], s, e)
      PROVE  rows'[k].txn = rows[k].txn /\ rows'[k].state = s /\ rows'[k].error = e
  BY <1>4, RowUpdate
<1>5. ASSUME rows[k] \in Rows, rows'[k] = WithState(rows[k], "STARTED", "none")
      PROVE  rows'[k].txn = rows[k].txn /\ rows'[k].error = "none"
  BY <1>5, RowUpdate
<1>6. rows[k] \in Rows => request[rows[k].txn].key = k
  BY AbsentAssumption DEF IInv, RowOwnsItsId, KeyOf
<1>7. \A c \in Calls : StartErrorCode(c) \in ErrorCodes
  BY DEF StartErrorCode, ErrorCodes
<1> QED
  BY <1>1, <1>2, <1>3, <1>4, <1>5, <1>6, <1>7, RowShape DEF KeyOf

(* A workflow is only ever started under the id and digest of its key's row.*)
LEMMA WorkflowStep == IInv /\ [Next]_vars => OneWorkflowPerKey' /\ AcknowledgedRuns'
<1> SUFFICES ASSUME IInv, [Next]_vars PROVE OneWorkflowPerKey' /\ AcknowledgedRuns'
  OBVIOUS
<1>1. TypeOK /\ HeldIsBound /\ request' = request /\ \A k \in Keys : RowKept(k)
  BY StepKeeps DEF IInv
<1>2. ASSUME NEW c \in Calls, StartReaches(c)
      PROVE  /\ held[c].txn \in Calls
             /\ rows[KeyOf(c)] # Absent /\ rows[KeyOf(c)].txn = held[c].txn
             /\ rows[KeyOf(c)].digest = held[c].digest
             /\ KeyOf(held[c].txn) = KeyOf(c)
             /\ held[c].digest # Absent
             /\ KeyOf(c) \in Keys
  <2>1. pc[c] \in Working
    BY <1>2 DEF StartReaches, Working
  <2>2. held[c] \in Reservations /\ KeyOf(c) \in Keys
    BY <1>1, <2>1, WorkingHolds
  <2>3. held[c].txn \in Calls /\ held[c].digest # Absent
    BY <2>2, AbsentAssumption DEF Reservations
  <2>4. rows[KeyOf(c)] # Absent /\ rows[KeyOf(c)].txn = held[c].txn /\ rows[KeyOf(c)].digest = held[c].digest
    BY <1>1, <2>1, <2>2 DEF HeldIsBound
  <2> QED BY <2>2, <2>3, <2>4 DEF IInv, RowOwnsItsId
<1>3. ASSUME NEW t \in Calls, workflows'[t] # Absent
      PROVE  /\ rows'[KeyOf(t)] # Absent
             /\ rows'[KeyOf(t)].txn = t
             /\ rows'[KeyOf(t)].digest = workflows'[t]
  <2>1. KeyOf(t) \in Keys
    BY <1>1 DEF TypeOK, KeyOf, Requests
  <2>2. CASE workflows[t] # Absent
    <3>1. workflows'[t] = workflows[t]
      BY <2>2, StepKeeps DEF IInv
    <3> QED BY <1>1, <2>1, <2>2, <3>1 DEF IInv, OneWorkflowPerKey, RowKept
  <2>3. ASSUME NEW c \in Calls, StartReaches(c), workflows[t] = Absent
        PROVE  /\ rows[KeyOf(t)] # Absent
               /\ rows[KeyOf(t)].txn = t
               /\ rows[KeyOf(t)].digest = workflows'[t]
    <3>1. t = held[c].txn /\ workflows'[t] = held[c].digest
      BY <1>1, <1>2, <1>3, <2>3 DEF StartReaches, WorkflowId, TypeOK
    <3> QED BY <1>2, <2>3, <3>1
  <2>4. CASE UNCHANGED workflows
    BY <1>3, <2>2, <2>4
  <2> QED
    BY <1>1, <2>1, <2>2, <2>3, <2>4 DEF RowKept, Next, Submit, vars, ReserveNew, ReserveConflict,
        ReserveReplay, PlanBuilt, PlanFails, StartFails, MarkStarted, MarkStartFailed, Crash,
        SignalWorkflow
<1>4. OneWorkflowPerKey'
  BY <1>1, <1>3 DEF OneWorkflowPerKey, KeyOf
<1>5. ASSUME NEW c \in Calls, pc'[c] = "acknowledged" PROVE workflows'[held'[c].txn] # Absent
  <2>1. CASE pc[c] = "acknowledged" /\ held'[c] = held[c]
    <3>1. held[c].txn \in Calls
      BY <1>1, <2>1, WorkingHolds DEF Working, Reservations
    <3> QED BY <2>1, <3>1, StepKeeps DEF IInv, AcknowledgedRuns
  <2>2. CASE StartReaches(c)
    <3>1. held'[c] = held[c]
      BY <2>2 DEF StartReaches
    <3>2. workflows'[held[c].txn] = IF workflows[held[c].txn] = Absent THEN held[c].digest
                                    ELSE workflows[held[c].txn]
      BY <1>1, <1>2, <2>2 DEF StartReaches, WorkflowId, TypeOK
    <3> QED BY <1>2, <2>2, <3>1, <3>2
  <2>3. CASE Submit(c) \/ Crash(c)
    <3> USE <1>1 DEF TypeOK, Goto, Answer, AnswerOrDie
    <3>1. ~ReserveNew(c) /\ ~ReserveConflict(c)
      BY <1>5 DEF ReserveNew, ReserveConflict
    <3>2. ~ReserveReplay(c)
      BY <1>5 DEF ReserveReplay
    <3>3. ~PlanBuilt(c) /\ ~PlanFails(c) /\ ~StartFails(c) /\ ~Crash(c)
      BY <1>5 DEF PlanBuilt, PlanFails, StartFails, Crash
    <3>4. ~MarkStarted(c) /\ ~MarkStartFailed(c)
      BY <1>5 DEF MarkStarted, MarkStartFailed
    <3> QED BY <2>2, <2>3, <3>1, <3>2, <3>3, <3>4 DEF Submit
  <2> QED BY <1>1, <1>5, <2>1, <2>3, OwnStep
<1> QED BY <1>4, <1>5 DEF AcknowledgedRuns

(* A row becomes STARTED only when its workflow was seen.                   *)
LEMMA SignalStep == IInv /\ [Next]_vars => SignalsHaveTarget'
<1> SUFFICES ASSUME IInv, [Next]_vars PROVE SignalsHaveTarget'
  OBVIOUS
<1>1. TypeOK /\ HeldIsBound /\ \A k \in Keys : RowKept(k)
  BY StepKeeps DEF IInv
<1>2. \A t \in Calls : workflows[t] # Absent => workflows'[t] # Absent
  BY StepKeeps DEF IInv
<1>3. ASSUME NEW k \in Keys, rows'[k] # Absent, rows'[k].state = "STARTED"
      PROVE  workflows'[rows'[k].txn] # Absent
  <2>1. CASE rows'[k] = rows[k]
    BY <1>1, <1>2, <1>3, <2>1 DEF IInv, SignalsHaveTarget, TypeOK, Rows
  <2>2. ASSUME NEW c \in Calls, KeyOf(c) = k, ReserveNew(c)
        PROVE  rows'[k].state = "RESERVED"
    BY <1>1, <2>2 DEF ReserveNew, TypeOK
  <2>3. ASSUME rows[k] \in Rows, NEW s \in {"RESERVED", "START_FAILED"},
               NEW e \in ErrorCodes \cup {"none"}, rows'[k] = WithState(rows[k], s, e)
        PROVE  rows'[k].state # "STARTED"
    BY <2>3, RowUpdate
  <2>4. ASSUME NEW c \in Calls, KeyOf(c) = k, MarkStarted(c), rows[k] \in Rows
        PROVE  rows'[k].txn \in Calls /\ workflows[rows'[k].txn] # Absent
    <3>1. pc[c] = "acknowledged"
      BY <2>4 DEF MarkStarted
    <3>2. rows[k].txn = held[c].txn /\ workflows[held[c].txn] # Absent
      BY <1>1, <2>4, <3>1 DEF IInv, HeldIsBound, AcknowledgedRuns, Working
    <3>3. rows'[k].txn = rows[k].txn
      BY <1>1, <2>4, AbsentAssumption DEF RowKept
    <3> QED BY <2>4, <3>2, <3>3 DEF Rows
  <2>5. \A c \in Calls : StartErrorCode(c) \in ErrorCodes
    BY DEF StartErrorCode, ErrorCodes
  <2> QED
    BY <1>1, <1>2, <1>3, <2>1, <2>2, <2>3, <2>4, <2>5, RowShape
<1>4. ASSUME NEW t \in signalled' PROVE workflows'[t] # Absent
  <2>1. CASE t \in signalled
    BY <1>1, <1>2, <2>1 DEF IInv, SignalsHaveTarget, TypeOK
  <2>2. ASSUME NEW k \in Keys, SignalWorkflow(k), t \notin signalled
        PROVE  t \in Calls /\ workflows[t] # Absent
    BY <1>1, <1>4, <2>2 DEF SignalWorkflow, RequireStarted, IInv, SignalsHaveTarget, TypeOK, Rows
  <2> QED
    BY <1>2, <1>4, <2>1, <2>2 DEF Next, Submit, vars, ReserveNew, ReserveConflict, ReserveReplay,
        PlanBuilt, PlanFails, StartReaches, StartFails, MarkStarted, MarkStartFailed, Crash
<1> QED BY <1>3, <1>4 DEF SignalsHaveTarget

(* A call that is through takes no more steps.                              *)
LEMMA DoneStays ==
  ASSUME IInv, [Next]_vars, NEW c \in Calls, pc[c] \in {"done", "dead"}
  PROVE  pc'[c] = pc[c] /\ answer'[c] = answer[c] /\ held'[c] = held[c]
<1>1. ~Submit(c) /\ ~Crash(c)
  BY DEF Submit, Crash, ReserveNew, ReserveConflict, ReserveReplay, PlanBuilt, PlanFails,
      StartReaches, StartFails, MarkStarted, MarkStartFailed
<1> QED BY <1>1, OwnStep DEF IInv

(* An answer comes last, and "accepted" only when the row is STARTED.       *)
LEMMA AnswerStep == IInv /\ [Next]_vars => AnswerIsLast'
<1> SUFFICES ASSUME IInv, [Next]_vars, NEW c \in Calls, answer'[c] # "none"
             PROVE  /\ pc'[c] = "done"
                    /\ answer'[c] = "accepted" =>
                         held'[c] # Absent /\ rows'[KeyOf(c)].state = "STARTED"
  BY StepKeeps DEF AnswerIsLast, IInv, KeyOf
<1>1. TypeOK /\ HeldIsBound /\ HeldIsBound' /\ RowKept(KeyOf(c)) /\ KeyOf(c) \in Keys
  BY StepKeeps, HeldStep DEF IInv, TypeOK, KeyOf, Requests
<1>2. CASE answer[c] # "none"
  <2>1. pc[c] = "done" /\ pc'[c] = pc[c] /\ answer'[c] = answer[c] /\ held'[c] = held[c]
    BY <1>2, DoneStays DEF IInv, AnswerIsLast
  <2> QED BY <1>1, <1>2, <2>1 DEF IInv, AnswerIsLast, HeldIsBound, RowKept
<1>3. CASE answer[c] = "none"
  <2>1. Submit(c) \/ Crash(c)
    BY <1>1, <1>3, OwnStep
  <2> USE <1>1, <1>3 DEF TypeOK, Goto, Answer, AnswerOrDie
  <2>2. ~ReserveNew(c) /\ ~PlanBuilt(c) /\ ~PlanFails(c) /\ ~StartReaches(c) /\ ~StartFails(c)
          /\ ~Crash(c)
    BY DEF ReserveNew, PlanBuilt, PlanFails, StartReaches, StartFails, Crash
  <2>3. CASE ReserveConflict(c)
    BY <2>3 DEF ReserveConflict
  <2>4. CASE ReserveReplay(c)
    <3>1. pc'[c] = "done" /\ rows' = rows /\ rows[KeyOf(c)].state = "STARTED"
      BY <2>4 DEF ReserveReplay
    <3>2. held'[c] = [txn |-> rows[KeyOf(c)].txn, digest |-> rows[KeyOf(c)].digest]
      BY <2>4 DEF ReserveReplay
    <3>3. rows[KeyOf(c)] \in Rows
      BY <2>4 DEF ReserveReplay
    <3>4. held'[c] # Absent
      BY <3>2, <3>3, AbsentAssumption DEF Rows, Reservations
    <3> QED BY <3>1, <3>4
  <2>5. CASE MarkStarted(c)
    <3>1. pc'[c] = "done"
      BY <2>5 DEF MarkStarted
    <3>2. held'[c] = held[c] /\ held[c] # Absent /\ rows[KeyOf(c)] \in Rows
      BY <2>5, WorkingHolds, AbsentAssumption DEF MarkStarted, Working, Reservations
    <3>3. ASSUME answer'[c] = "accepted" PROVE rows'[KeyOf(c)].state = "STARTED"
      <4>1. rows'[KeyOf(c)] = WithState(rows[KeyOf(c)], "STARTED", "none")
        BY <2>5, <3>3 DEF MarkStarted
      <4> QED BY <3>2, <4>1, RowUpdate
    <3> QED BY <3>1, <3>2, <3>3
  <2>6. CASE MarkStartFailed(c)
    BY <2>6 DEF MarkStartFailed
  <2> QED BY <2>1, <2>2, <2>3, <2>4, <2>5, <2>6 DEF Submit
<1> QED BY <1>2, <1>3

(* A failed row, and a start nobody could record, have a lost call behind   *)
(* them.                                                                    *)
LEMMA LoserStep == IInv /\ [Next]_vars => FailedRowHasLoser' /\ OnlyRacesFail'
<1> SUFFICES ASSUME IInv, [Next]_vars PROVE FailedRowHasLoser' /\ OnlyRacesFail'
  OBVIOUS
<1>1. TypeOK /\ HeldIsBound /\ request' = request /\ \A k \in Keys : RowKept(k)
  BY StepKeeps DEF IInv
<1>2. ASSUME NEW d \in Calls, Lost(d) PROVE Lost(d)'
  <2>1. pc[d] \in {"done", "dead"}
    BY <1>2 DEF Lost, IInv, AnswerIsLast
  <2> QED BY <1>2, <2>1, DoneStays DEF Lost
<1>3. ASSUME NEW k \in Keys, rows'[k] # Absent, rows'[k].state = "START_FAILED"
      PROVE  \E d \in Calls : request[d].key = k /\ Lost(d)'
  <2>1. CASE rows'[k] = rows[k]
    BY <1>2, <1>3, <2>1 DEF IInv, FailedRowHasLoser, KeyOf
  <2>2. ASSUME NEW c \in Calls, KeyOf(c) = k, ReserveNew(c)
        PROVE  rows'[k].state = "RESERVED"
    BY <1>1, <2>2 DEF ReserveNew, TypeOK
  <2>3. ASSUME rows[k] \in Rows, NEW s \in {"RESERVED", "STARTED"}, rows'[k] = WithState(rows[k], s, "none")
        PROVE  rows'[k].state # "START_FAILED"
    BY <2>3, RowUpdate
  <2>4. ASSUME NEW c \in Calls, MarkStartFailed(c) PROVE Lost(c)'
    BY <1>1, <2>4 DEF MarkStartFailed, AnswerOrDie, Answer, Goto, Lost, TypeOK
  <2> QED BY <1>1, <1>3, <2>1, <2>2, <2>3, <2>4, RowShape DEF KeyOf
<1>4. ASSUME NEW c \in Calls, answer'[c] = "internal_error"
      PROVE  \E d \in Calls \ {c} : request[d].key = request[c].key /\ Lost(d)'
  <2>1. CASE answer[c] = "internal_error"
    BY <1>2, <2>1 DEF IInv, OnlyRacesFail, Lost, KeyOf
  <2>2. CASE answer[c] # "internal_error"
    <3>1. Submit(c) \/ Crash(c)
      BY <1>1, <1>4, <2>2, OwnStep
    <3>2. MarkStarted(c) /\ ~CanMarkStarted(rows[KeyOf(c)])
      <4> USE <1>1, <1>4, <2>2 DEF TypeOK, Goto, Answer, AnswerOrDie
      <4>1. ~ReserveNew(c) /\ ~PlanBuilt(c) /\ ~PlanFails(c) /\ ~StartReaches(c) /\ ~StartFails(c)
              /\ ~Crash(c)
        BY DEF ReserveNew, PlanBuilt, PlanFails, StartReaches, StartFails, Crash
      <4>2. ~ReserveConflict(c) /\ ~ReserveReplay(c)
        BY DEF ReserveConflict, ReserveReplay
      <4>3. ~MarkStartFailed(c)
        BY DEF MarkStartFailed
      <4>4. MarkStarted(c)
        BY <3>1, <4>1, <4>2, <4>3 DEF Submit
      <4> QED BY <4>4 DEF MarkStarted
    <3>3. pc[c] = "acknowledged" /\ answer[c] = "none"
      BY <3>2 DEF MarkStarted, IInv, AnswerIsLast
    <3>4. KeyOf(c) \in Keys /\ rows[KeyOf(c)] \in Rows
      BY <1>1, <3>3, WorkingHolds DEF Working
    <3>5. rows[KeyOf(c)] # Absent /\ rows[KeyOf(c)].state = "START_FAILED"
      BY <3>2, <3>4, AbsentAssumption DEF CanMarkStarted, Rows
    <3>6. PICK d \in Calls : KeyOf(d) = KeyOf(c) /\ Lost(d)
      BY <3>4, <3>5 DEF IInv, FailedRowHasLoser
    <3>7. d # c
      BY <3>3, <3>6 DEF Lost
    <3> QED BY <1>2, <3>6, <3>7 DEF KeyOf
  <2> QED BY <2>1, <2>2
<1>5. FailedRowHasLoser'
  BY <1>1, <1>3 DEF FailedRowHasLoser, KeyOf
<1>6. OnlyRacesFail'
  BY <1>1, <1>4 DEF OnlyRacesFail, KeyOf, Lost
<1> QED BY <1>5, <1>6

-----------------------------------------------------------------------------
(* The inductive invariant holds in every state.                            *)
THEOREM Invariance == Spec => []IInv
<1>1. IInv /\ [Next]_vars => IInv'
  BY TypeStep, HeldStep, RowStep, WorkflowStep, SignalStep, AnswerStep, LoserStep DEF IInv
<1> QED BY <1>1, InitIInv, PTL DEF Spec

(* The ledger and what is known of a call always have their types.          *)
THEOREM TypeCorrect == Spec => []TypeOK
<1>1. IInv => TypeOK
  BY DEF IInv
<1> QED BY <1>1, Invariance, PTL

(* However many calls race, fail and die, an idempotency key has at most    *)
(* one workflow, and it runs the digest the key is bound to.                *)
THEOREM AtMostOneWorkflow == Spec => []OneWorkflowPerKey
<1>1. IInv => OneWorkflowPerKey
  BY DEF IInv
<1> QED BY <1>1, Invariance, PTL

(* An accepted submission has a workflow, and it runs what was submitted.   *)
THEOREM AcceptedRuns == Spec => []AcceptedIsRunning
<1>1. IInv => AcceptedIsRunning
  <2> SUFFICES ASSUME IInv, NEW c \in Calls, answer[c] = "accepted"
               PROVE  /\ workflows[held[c].txn] = request[c].digest
                      /\ rows[KeyOf(c)].state = "STARTED"
    BY DEF AcceptedIsRunning
  <2>1. held[c] # Absent /\ rows[KeyOf(c)].state = "STARTED"
    BY DEF IInv, AnswerIsLast
  <2>2. rows[KeyOf(c)] # Absent /\ rows[KeyOf(c)].txn = held[c].txn
        /\ rows[KeyOf(c)].digest = request[c].digest
    BY <2>1 DEF IInv, HeldIsBound
  <2>3. KeyOf(c) \in Keys /\ held[c].txn \in Calls
    BY <2>1 DEF IInv, TypeOK, KeyOf, Requests, Reservations
  <2>4. workflows[held[c].txn] # Absent
    BY <2>1, <2>2, <2>3 DEF IInv, SignalsHaveTarget
  <2>5. rows[KeyOf(held[c].txn)].digest = workflows[held[c].txn]
    BY <2>3, <2>4 DEF IInv, OneWorkflowPerKey
  <2>6. KeyOf(held[c].txn) = KeyOf(c)
    BY <2>2, <2>3 DEF IInv, RowOwnsItsId
  <2> QED BY <2>1, <2>2, <2>5, <2>6
<1> QED BY <1>1, Invariance, PTL

(* Approvals and cancellations that pass _require_started reach a workflow. *)
THEOREM SignalsArrive == Spec => []SignalsHaveTarget
<1>1. IInv => SignalsHaveTarget
  BY DEF IInv
<1> QED BY <1>1, Invariance, PTL

(* An acknowledged start goes unrecorded only in a race with a failing call.*)
THEOREM RacesOnly == Spec => []OnlyRacesFail
<1>1. IInv => OnlyRacesFail
  BY DEF IInv
<1> QED BY <1>1, Invariance, PTL

(* The binding of a key and its STARTED state are never taken back.         *)
THEOREM BindingFinal == Spec => BindingIsFinal
<1>1. IInv /\ [Next]_vars =>
        [\A k \in Keys : rows[k] # Absent =>
           /\ rows'[k] # Absent
           /\ rows'[k].txn = rows[k].txn
           /\ rows'[k].digest = rows[k].digest
           /\ rows[k].state = "STARTED" => rows'[k] = rows[k]]_vars
  BY StepKeeps DEF IInv, RowKept
<1> QED BY <1>1, Invariance, PTL DEF Spec, BindingIsFinal
=============================================================================
