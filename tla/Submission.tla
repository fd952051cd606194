------------------------------ MODULE Submission ------------------------------
(***************************************************************************)
(* Submitting a transaction: TransactionService.submit_with_context of     *)
(* src/cargomesh/application/transactions.py over the idempotency ledger   *)
(* SQLiteSubmissionStore of src/cargomesh/runtime/idempotency.py and       *)
(* TemporalExecutionGateway.start of src/cargomesh/runtime/temporal.py.    *)
(*                                                                         *)
(* Several calls run at once, in one process or in several that share the  *)
(* ledger.  A ledger operation is one BEGIN IMMEDIATE transaction.  A call *)
(* is suspended, or can be overtaken, between those, so each is an action. *)
(* A call may die anywhere (its process is gone); a client that gets no    *)
(* answer or an error submits again, which is simply another call.         *)
(*                                                                         *)
(* A definition XFault stands before X: it is X with the mistake its       *)
(* comment names, kept to see that the properties notice it.               *)
(***************************************************************************)
EXTENDS FiniteSets

CONSTANTS
  Calls,       \* submissions; a call is also the fresh UUID it proposes
  Keys,        \* (tenant_id, idempotency_key) pairs
  Digests,     \* business digests
  Absent       \* what a look-up that finds nothing returns

VARIABLES
  rows,        \* table submission_reservations, by primary key
  workflows,   \* Temporal: the digest of the plan a workflow id was started with
  pc,          \* per call: what it does next
  request,     \* per call: the key and digest submitted
  held,        \* per call: the reservation reserve() returned
  answer,      \* per call: what the client was told
  signalled    \* workflow ids an approval or cancellation was sent to

vars == <<rows, workflows, pc, request, held, answer, signalled>>

ErrorCodes == {"planning_failed", "workflow_start_failed"}
Rows == [txn: Calls, digest: Digests,
         state: {"RESERVED", "STARTED", "START_FAILED"},
         error: ErrorCodes \cup {"none"}]
Requests == [key: Keys, digest: Digests]
Reservations == [txn: Calls, digest: Digests]

ASSUME AbsentAssumption ==
  Absent \notin Calls \cup Digests \cup Rows \cup Reservations

Answers == {"none", "accepted", "idempotency_conflict", "runtime_unavailable",
            "runtime_configuration_error", "internal_error"}

Init ==
  /\ rows = [k \in Keys |-> Absent]
  /\ workflows = [t \in Calls |-> Absent]
  /\ pc = [c \in Calls |-> "idle"]
  /\ request \in [Calls -> Requests]
  /\ held = [c \in Calls |-> Absent]
  /\ answer = [c \in Calls |-> "none"]
  /\ signalled = {}

KeyOf(c) == request[c].key

(* Fault: the digest of a replayed key is not compared.                     *)
SameRequestFault(c) == TRUE

SameRequest(c) == rows[KeyOf(c)].digest = request[c].digest

(* Fault: the proposed id is used instead of the reserved one.              *)
WorkflowIdFault(c) == c

WorkflowId(c) == held[c].txn

CanMarkFailed(row) == row.state = "RESERVED"

CanMarkStarted(row) == row.state \in {"RESERVED", "STARTED"}

StartErrorCode(c) ==
  IF pc[c] = "plan_failed" THEN "planning_failed" ELSE "workflow_start_failed"

RequireStarted(k) == rows[k] # Absent /\ rows[k].state = "STARTED"

(* UPDATE submission_reservations SET state, error_code.                    *)
WithState(row, state, error) == [row EXCEPT !.state = state, !.error = error]

Goto(c, label) == pc' = [pc EXCEPT ![c] = label]
Answer(c, value) == Goto(c, "done") /\ answer' = [answer EXCEPT ![c] = value]

(* After its last ledger operation a call answers, or dies before it can.   *)
AnswerOrDie(c, value) ==
  Answer(c, value) \/ (Goto(c, "dead") /\ UNCHANGED answer)

-----------------------------------------------------------------------------
(* reserve: a new row, a replay, or a retry of a failed start.              *)
ReserveNew(c) ==
  /\ pc[c] = "idle"
  /\ rows[KeyOf(c)] = Absent
  /\ rows' = [rows EXCEPT ![KeyOf(c)] =
                [txn |-> c, digest |-> request[c].digest, state |-> "RESERVED",
                 error |-> "none"]]
  /\ held' = [held EXCEPT ![c] = [txn |-> c, digest |-> request[c].digest]]
  /\ Goto(c, "plan")
  /\ UNCHANGED <<workflows, request, answer, signalled>>

ReserveConflict(c) ==
  /\ pc[c] = "idle"
  /\ rows[KeyOf(c)] # Absent
  /\ ~SameRequest(c)
  /\ Answer(c, "idempotency_conflict")
  /\ UNCHANGED <<rows, workflows, request, held, signalled>>

(* A replay of a started submission returns the row; any other goes on to   *)
(* start the workflow again, a failed one being RESERVED again.             *)
ReserveReplay(c) ==
  LET row == rows[KeyOf(c)] IN
  /\ pc[c] = "idle"
  /\ row # Absent
  /\ SameRequest(c)
  /\ held' = [held EXCEPT ![c] = [txn |-> row.txn, digest |-> row.digest]]
  /\ IF row.state = "STARTED"
     THEN Answer(c, "accepted") /\ UNCHANGED rows
     ELSE /\ rows' = [rows EXCEPT ![KeyOf(c)] =
                        WithState(@, "RESERVED", "none")]
          /\ Goto(c, "plan")
          /\ UNCHANGED answer
  /\ UNCHANGED <<workflows, request, signalled>>

(* planner.build and apply_execution_policy.                                *)
PlanBuilt(c) ==
  /\ pc[c] = "plan"
  /\ Goto(c, "start")
  /\ UNCHANGED <<rows, workflows, request, held, answer, signalled>>

PlanFails(c) ==
  /\ pc[c] = "plan"
  /\ Goto(c, "plan_failed")
  /\ UNCHANGED <<rows, workflows, request, held, answer, signalled>>

(* gateway.start reaches Temporal, which rejects a duplicate workflow id;   *)
(* the gateway turns that into success.  The acknowledgement may get lost.  *)
StartReaches(c) ==
  /\ pc[c] = "start"
  /\ workflows' = [workflows EXCEPT ![WorkflowId(c)] = IF @ = Absent THEN held[c].digest ELSE @]
  /\ Goto(c, "acknowledged") \/ Goto(c, "start_failed")
  /\ UNCHANGED <<rows, request, held, answer, signalled>>

StartFails(c) ==
  /\ pc[c] = "start"
  /\ Goto(c, "start_failed")
  /\ UNCHANGED <<rows, workflows, request, held, answer, signalled>>

(* mark_started; InvalidSubmissionState is not caught by the service.       *)
MarkStarted(c) ==
  LET row == rows[KeyOf(c)] IN
  /\ pc[c] = "acknowledged"
  /\ IF CanMarkStarted(row)
     THEN /\ AnswerOrDie(c, "accepted")
          /\ rows' = [rows EXCEPT ![KeyOf(c)] =
                        WithState(@, "STARTED", "none")]
     ELSE Answer(c, "internal_error") /\ UNCHANGED rows
  /\ UNCHANGED <<workflows, request, held, signalled>>

(* _mark_start_failed: only a RESERVED row changes, and nothing it raises   *)
(* is seen; the call then fails.                                            *)
MarkStartFailed(c) ==
  /\ pc[c] \in {"plan_failed", "start_failed"}
  /\ rows' = IF CanMarkFailed(rows[KeyOf(c)])
             THEN [rows EXCEPT ![KeyOf(c)] =
                     WithState(@, "START_FAILED", StartErrorCode(c))]
             ELSE rows
  /\ AnswerOrDie(c, IF pc[c] = "plan_failed" THEN "runtime_configuration_error"
                    ELSE "runtime_unavailable")
  /\ UNCHANGED <<workflows, request, held, signalled>>

Crash(c) ==
  /\ pc[c] \notin {"idle", "done", "dead"}
  /\ Goto(c, "dead")
  /\ UNCHANGED <<rows, workflows, request, held, answer, signalled>>

(* approve and cancel: _require_started, then a signal to the workflow id.  *)
SignalWorkflow(k) ==
  /\ RequireStarted(k)
  /\ signalled' = signalled \cup {rows[k].txn}
  /\ UNCHANGED <<rows, workflows, pc, request, held, answer>>

Submit(c) ==
  \/ ReserveNew(c) \/ ReserveConflict(c) \/ ReserveReplay(c)
  \/ PlanBuilt(c) \/ PlanFails(c)
  \/ StartReaches(c) \/ StartFails(c)
  \/ MarkStarted(c) \/ MarkStartFailed(c)

Next ==
  \/ \E c \in Calls : Submit(c) \/ Crash(c)
  \/ \E k \in Keys : SignalWorkflow(k)

Spec == Init /\ [][Next]_vars

-----------------------------------------------------------------------------
(* Every variable holds what the code can put there.                        *)
TypeOK ==
  /\ rows \in [Keys -> Rows \cup {Absent}]
  /\ workflows \in [Calls -> Digests \cup {Absent}]
  /\ pc \in [Calls -> {"idle", "plan", "start", "acknowledged", "plan_failed",
                       "start_failed", "done", "dead"}]
  /\ request \in [Calls -> Requests]
  /\ held \in [Calls -> Reservations \cup {Absent}]
  /\ answer \in [Calls -> Answers]
  /\ signalled \subseteq Calls

(* However many calls race, fail, lose their acknowledgement or die, one    *)
(* idempotency key starts at most one workflow, and with the digest the key *)
(* is bound to.                                                             *)
OneWorkflowPerKey ==
  \A t \in Calls : workflows[t] # Absent =>
    /\ rows[KeyOf(t)] # Absent
    /\ rows[KeyOf(t)].txn = t
    /\ rows[KeyOf(t)].digest = workflows[t]

(* A client is told "accepted" only when the workflow exists, and it runs   *)
(* the very request the client submitted.                                   *)
AcceptedIsRunning ==
  \A c \in Calls : answer[c] = "accepted" =>
    /\ workflows[held[c].txn] = request[c].digest
    /\ rows[KeyOf(c)].state = "STARTED"

(* A STARTED row has a workflow, so an approval or cancellation that passes *)
(* _require_started has somewhere to go.                                    *)
SignalsHaveTarget ==
  /\ \A k \in Keys : rows[k] # Absent /\ rows[k].state = "STARTED"
                       => workflows[rows[k].txn] # Absent
  /\ \A t \in signalled : workflows[t] # Absent

(* The binding of a key is never changed, and STARTED is never taken back,  *)
(* not by the late failure of a concurrent call either.                     *)
BindingIsFinal ==
  [][\A k \in Keys : rows[k] # Absent =>
       /\ rows'[k] # Absent
       /\ rows'[k].txn = rows[k].txn
       /\ rows'[k].digest = rows[k].digest
       /\ rows[k].state = "STARTED" => rows'[k] = rows[k]]_vars

(* A call whose acknowledged start could not be recorded lost a race: some  *)
(* other call for the key failed, and its client knows or it died since.    *)
OnlyRacesFail ==
  \A c \in Calls : answer[c] = "internal_error" =>
    \E d \in Calls \ {c} :
      /\ KeyOf(d) = KeyOf(c)
      /\ \/ answer[d] \in {"runtime_unavailable", "runtime_configuration_error"}
         \/ pc[d] = "dead"

(* board-2-implementation-contract.md:85: "Start acknowledgement changes    *)
(* the row to STARTED."                                                     *)
AcknowledgedIsStarted ==
  [][\A c \in Calls : pc[c] = "acknowledged" /\ pc'[c] = "done"
       => rows'[KeyOf(c)].state = "STARTED"]_vars

=============================================================================
