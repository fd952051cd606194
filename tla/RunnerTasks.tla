------------------------------ MODULE RunnerTasks ------------------------------
(***************************************************************************)
(* The task transport of private runners: SQLiteTaskStore of               *)
(* src/cargomesh/runner/task_store.py, the registry it asks for            *)
(* authorization, and the runners that hold leases.                        *)
(*                                                                         *)
(* Store operations are BEGIN IMMEDIATE transactions, hence atomic.        *)
(* A definition XFault stands before X: X with the mistake its comment     *)
(* names, kept to see that the properties notice it.                       *)
(*                                                                         *)
(* Runners act at any time, also long after their lease expired, and their *)
(* heartbeats may arrive late.  No runner is part of the repository: the   *)
(* three runner actions at the end are what the heartbeat contract implies *)
(* (a runner reports that it reaches the effect boundary, and goes on when *)
(* the report was accepted).                                               *)
(***************************************************************************)
EXTENDS RunnerRegistry

CONSTANTS
  MaxTask,       \* task ids are 1..MaxTask, in the order of ORDER BY task_id
  ScopeOf,       \* scope and capability a task is bound to
  CapabilityOf,
  DeadlineOf,    \* its deadline
  LeaseTime,     \* lease_seconds
  Results,       \* result digests
  Reordering     \* TRUE: a heartbeat may be overtaken by a later one

TaskIds == 1..MaxTask

ASSUME TasksAssumption ==
  /\ MaxTask \in Nat
  /\ LeaseTime \in Nat \ {0}
  /\ ScopeOf \in [TaskIds -> Scopes]
  /\ CapabilityOf \in [TaskIds -> Capabilities]
  /\ DeadlineOf \in [TaskIds -> Nat]
  /\ Reordering \in BOOLEAN

VARIABLES
  tasks,       \* table runner_tasks
  leases,      \* TaskLease objects handed out
  announced,   \* <<task, token>>: the runner has decided to cross the boundary
  cleared,     \* ... and its report of that was accepted
  effects      \* ... and it has crossed it

taskVars == <<tasks, leases, announced, cleared, effects>>
vars == <<now, registryVars, taskVars>>

TaskStates == {"QUEUED", "LEASED", "COMPLETED", "EXPIRED", "VERIFYING"}
Boundary == {"pre", "post", "unknown"}       \* effect_boundary False, True, None
Heartbeats == [boundary: Boundary, checkpoint: BOOLEAN]
Receipts == [runner: Runners, token: Nat, result: Results, at: Nat]
Leases == [task: TaskIds, runner: Runners, token: Nat, expires: Nat]
TaskRows == [state: TaskStates, runner: Runners \cup {None}, token: Nat,
             expires: Nat \cup {None}, heartbeat: Heartbeats \cup {None},
             receipt: Receipts \cup {None}]

ASSUME TasksNone ==
  None \notin TaskRows \cup Runners \cup Heartbeats \cup Receipts \cup Nat

Init ==
  /\ RegistryInit
  /\ tasks = [t \in TaskIds |-> None]
  /\ leases = {}
  /\ announced = {} /\ cleared = {} /\ effects = {}

-----------------------------------------------------------------------------
Enqueue(t) ==
  /\ tasks[t] = None
  /\ tasks' = [tasks EXCEPT ![t] =
                 [state |-> "QUEUED", runner |-> None, token |-> 0, expires |-> None,
                  heartbeat |-> None, receipt |-> None]]
  /\ UNCHANGED <<leases, announced, cleared, effects>>

Queued == {t \in TaskIds : tasks[t] # None /\ tasks[t].state = "QUEUED"}
AtHead(t) == t \in Queued /\ \A u \in Queued : t <= u

(* Fault: the expired task is skipped, but stays at the head of the queue.  *)
AcquireExpiredFault(t) ==
  /\ AtHead(t)
  /\ DeadlineOf[t] <= now
  /\ UNCHANGED taskVars

(* acquire, when the task at the head of the queue is past its deadline.    *)
AcquireExpired(t) ==
  /\ AtHead(t)
  /\ DeadlineOf[t] <= now
  /\ tasks' = [tasks EXCEPT ![t].state = "EXPIRED"]
  /\ UNCHANGED <<leases, announced, cleared, effects>>

NextToken(row) == row.token + 1

(* The columns acquire sets; the last heartbeat is forgotten.               *)
Leased(row, r, token, expires) ==
  [state |-> "LEASED", runner |-> r, token |-> token, expires |-> expires,
   heartbeat |-> None, receipt |-> row.receipt]

(* acquire by an authorized runner.  Only the head is ever looked at: a     *)
(* runner that is not authorized for it gets an error, not the next task.   *)
Acquire(r, t) ==
  LET token == NextToken(tasks[t])
  IN  /\ AtHead(t)
      /\ DeadlineOf[t] > now
      /\ Authorize(r, ScopeOf[t], CapabilityOf[t])
      /\ tasks' = [tasks EXCEPT ![t] =
                     Leased(@, r, token, now + LeaseTime)]
      /\ leases' = leases \cup {[task |-> t, runner |-> r, token |-> token,
                                 expires |-> now + LeaseTime]}
      /\ UNCHANGED <<announced, cleared, effects>>

(* Fault: only the runner is compared, not the token.                       *)
CheckLeaseFault(t, runner, token, expires, time) ==
  /\ tasks[t] # None
  /\ tasks[t].state = "LEASED"
  /\ tasks[t].runner = runner
  /\ expires > time

(* Fault: any lease object for a leased task will do.                       *)
CheckLeaseUnfenced(t, runner, token, expires, time) ==
  /\ tasks[t] # None
  /\ tasks[t].state = "LEASED"
  /\ expires > time

(* _check_lease: holder is the row's runner and token; expiry is that of    *)
(* the lease presented.                                                     *)
CheckLease(t, runner, token, expires, time) ==
  /\ tasks[t] # None
  /\ tasks[t].state = "LEASED"
  /\ tasks[t].runner = runner
  /\ tasks[t].token = token
  /\ expires > time

RenewedExpiry(row) == now + LeaseTime

Renew(lease) ==
  /\ CheckLease(lease.task, lease.runner, lease.token, lease.expires, now)
  /\ tasks' = [tasks EXCEPT ![lease.task].expires = RenewedExpiry(tasks[lease.task])]
  /\ leases' = leases \cup {[lease EXCEPT !.expires = now + LeaseTime]}
  /\ UNCHANGED <<announced, cleared, effects>>

(* What a runner may have said about the boundary: the truth, "unknown", or *)
(* - if the message was overtaken - what was true when it was sent.         *)
Reports(t, token) ==
  IF <<t, token>> \notin announced THEN {"pre", "unknown"}
  ELSE {"post"} \cup (IF Reordering THEN {"pre", "unknown"} ELSE {})

Heartbeat(lease, beat) ==
  LET t == lease.task IN
  /\ CheckLease(t, lease.runner, lease.token, tasks[t].expires, now)
  /\ beat.boundary \in Reports(t, lease.token)
  /\ tasks' = [tasks EXCEPT ![t].heartbeat = beat]
  /\ cleared' = IF beat.boundary = "post" THEN cleared \cup {<<t, lease.token>>}
                ELSE cleared
  /\ UNCHANGED <<leases, announced, effects>>

EndLease(row, state, receipt) ==
  [state |-> state, runner |-> row.runner, token |-> row.token, expires |-> None,
   heartbeat |-> row.heartbeat, receipt |-> receipt]

(* complete: without an explicit clock the expiry check uses the time that  *)
(* the receipt itself carries.                                              *)
Complete(lease, result, at) ==
  LET t == lease.task IN
  /\ at <= now
  /\ tasks[t] # None
  /\ tasks[t].receipt = None
  /\ CheckLease(t, lease.runner, lease.token, tasks[t].expires, at)
  /\ tasks' = [tasks EXCEPT ![t] =
                 EndLease(@, "COMPLETED",
                          [runner |-> lease.runner, token |-> lease.token,
                           result |-> result, at |-> at])]
  /\ UNCHANGED <<leases, announced, cleared, effects>>

(* Fault: a checkpoint is enough to try again.                              *)
RetryableFault(beat) == beat # None /\ beat.checkpoint

Retryable(beat) == beat # None /\ beat.boundary = "pre" /\ beat.checkpoint

RecoveredState(beat) == IF Retryable(beat) THEN "QUEUED" ELSE "VERIFYING"

(* recover: called with the task id or with the lease that expired.         *)
Recover(t) ==
  /\ tasks[t] # None
  /\ tasks[t].state = "LEASED"
  /\ tasks[t].expires <= now
  /\ tasks' = [tasks EXCEPT ![t] = EndLease(@, RecoveredState(@.heartbeat), @.receipt)]
  /\ UNCHANGED <<leases, announced, cleared, effects>>

-----------------------------------------------------------------------------
(* The runner decides to cross its effect boundary and, once the store      *)
(* accepted the report, crosses it - perhaps much later.                    *)
Announce(lease) ==
  /\ announced' = announced \cup {<<lease.task, lease.token>>}
  /\ UNCHANGED <<tasks, leases, cleared, effects>>

Cross(lease) ==
  /\ <<lease.task, lease.token>> \in cleared
  /\ effects' = effects \cup {<<lease.task, lease.token>>}
  /\ UNCHANGED <<tasks, leases, announced, cleared>>

StoreNext ==
  \/ \E t \in TaskIds : Enqueue(t) \/ Recover(t) \/ AcquireExpired(t)
  \/ \E t \in TaskIds, r \in Runners : Acquire(r, t)
  \/ \E lease \in leases :
       \/ Renew(lease)
       \/ \E beat \in Heartbeats : Heartbeat(lease, beat)
       \/ \E result \in Results, at \in 0..MaxTime : Complete(lease, result, at)
       \/ Announce(lease)
       \/ Cross(lease)

Next ==
  \/ RegistryNext /\ UNCHANGED <<now, taskVars>>
  \/ StoreNext /\ UNCHANGED <<now, registryVars>>
  \/ Tick /\ UNCHANGED <<registryVars, taskVars>>

Spec == Init /\ [][Next]_vars

(* Somebody keeps polling, and time passes.                                 *)
Poll == (\E t \in TaskIds : AcquireExpired(t)) /\ UNCHANGED <<now, registryVars>>
Clock == Tick /\ UNCHANGED <<registryVars, taskVars>>
FairSpec == Spec /\ WF_vars(Poll) /\ WF_vars(Clock)

-----------------------------------------------------------------------------
(* Every row, lease and report is what the schema and the models allow.     *)
TypeOK ==
  /\ RegistryTypeOK
  /\ tasks \in [TaskIds -> TaskRows \cup {None}]
  /\ leases \subseteq Leases
  /\ announced \subseteq TaskIds \X Nat
  /\ cleared \subseteq TaskIds \X Nat
  /\ effects \subseteq TaskIds \X Nat

(* _lease_from_row never finds a leased row without a lease, and no other   *)
(* row keeps one that a late call could be checked against.                 *)
LeaseComplete ==
  \A t \in TaskIds : tasks[t] # None =>
    /\ tasks[t].state = "LEASED" <=> tasks[t].expires # None
    /\ tasks[t].state = "LEASED" => tasks[t].runner # None
    /\ tasks[t].state = "COMPLETED" <=> tasks[t].receipt # None

(* A fencing token is handed to one runner only, and a row's holder is the  *)
(* runner its token was handed to: at most one runner passes _check_lease.  *)
OneHolderPerToken ==
  /\ \A l, m \in leases : l.task = m.task /\ l.token = m.token => l.runner = m.runner
  /\ \A l \in leases :
       /\ tasks[l.task] # None
       /\ l.token <= tasks[l.task].token
       /\ l.token = tasks[l.task].token => l.runner = tasks[l.task].runner

(* The lease a runner shows to renew never outlives the row's: checking the *)
(* expiry of the presented lease is as strict as checking the row.          *)
PresentedLeaseNotNewer ==
  \A l \in leases : tasks[l.task].state = "LEASED" /\ l.token = tasks[l.task].token
    => l.expires <= tasks[l.task].expires

(* Tokens never go back, and a lease changes hands only under a new one.    *)
FencingMonotone ==
  [][\A t \in TaskIds : tasks[t] # None =>
       /\ tasks'[t] # None
       /\ tasks'[t].token >= tasks[t].token
       /\ tasks'[t].runner # tasks[t].runner => tasks'[t].token > tasks[t].token]_vars

(* The first accepted result stays, and with it the token it was produced   *)
(* under; a completed, expired or to-be-verified task never runs again.     *)
ResultIsFinal ==
  [][\A t \in TaskIds : tasks[t] # None /\ tasks[t].state \in {"COMPLETED", "EXPIRED", "VERIFYING"}
        => tasks'[t] = tasks[t]]_vars

(* The receipt comes from the last lease: no lease was given out after it.  *)
ReceiptFromHolder ==
  \A t \in TaskIds : tasks[t] # None /\ tasks[t].receipt # None =>
    /\ tasks[t].receipt.token = tasks[t].token
    /\ tasks[t].receipt.runner = tasks[t].runner

(* board-8-implementation-contract.md:61-62: a task whose runner was told   *)
(* to go past the effect boundary is not queued again; it waits for         *)
(* verification or has a result.                                            *)
PostEffectNotRetried ==
  \A p \in cleared :
    /\ tasks[p[1]].token = p[2]
    /\ tasks[p[1]].state \in {"LEASED", "VERIFYING", "COMPLETED"}

(* Whatever leases expire and runners come back late, the effect of a task  *)
(* happens under at most one lease.                                         *)
EffectAtMostOnce == \A e, f \in effects : e[1] = f[1] => e = f

(* A queued task does not stay queued: it is leased, or found expired.      *)
QueuedTaskSettles ==
  \A t \in TaskIds : t \in Queued ~> t \notin Queued

=============================================================================
