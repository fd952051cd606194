-------------------------- MODULE RunnerTasks_proofs --------------------------
(***************************************************************************)
(* What the task transport promises, for any number of tasks, runners,     *)
(* leases and any clock.                                                   *)
(*                                                                         *)
(* The argument for fencing: a row's token only grows, and grows whenever  *)
(* the row changes hands, so a token names one runner.  The argument for   *)
(* at-most-once: once the store has accepted a "post" heartbeat, the row's *)
(* heartbeat stays "post" while the row is leased, so recover sends the    *)
(* task to verification, from where nothing returns it to the queue.       *)
(***************************************************************************)
EXTENDS RunnerTasks, TLAPS

(* No lease object outlives the lease in the table, nor a lease given now.  *)
ExpiryInv ==
  /\ \A l \in leases : l.expires <= now + LeaseTime
  /\ PresentedLeaseNotNewer

(* The heart of at-most-once: a cleared boundary stays on record.           *)
ClearedOnRecord ==
  \A p \in cleared :
    /\ p \in announced
    /\ tasks[p[1]] # None
    /\ tasks[p[1]].token = p[2]
    /\ tasks[p[1]].state \in {"LEASED", "VERIFYING", "COMPLETED"}
    /\ tasks[p[1]].state = "LEASED" =>
         tasks[p[1]].heartbeat # None /\ tasks[p[1]].heartbeat.boundary = "post"

FencingInv ==
  /\ TypeOK
  /\ LeaseComplete
  /\ OneHolderPerToken
  /\ ReceiptFromHolder

EffectInv ==
  /\ ClearedOnRecord
  /\ effects \subseteq cleared

-----------------------------------------------------------------------------
(* A leased row, built from a task row, is a task row.                      *)
LEMMA LeasedRow ==
  ASSUME NEW row \in TaskRows, NEW r \in Runners, NEW k \in Nat, NEW e \in Nat
  PROVE  Leased(row, r, k, e) \in TaskRows
  BY DEF Leased, TaskRows, TaskStates

(* A row whose lease has ended is a task row.                               *)
LEMMA EndedRow ==
  ASSUME NEW row \in TaskRows, NEW s \in TaskStates, NEW x \in Receipts \cup {None}
  PROVE  EndLease(row, s, x) \in TaskRows
  BY DEF EndLease, TaskRows

(* A queued task has a row in state QUEUED.                                 *)
LEMMA HeadQueued ==
  ASSUME TypeOK, NEW t \in TaskIds, AtHead(t)
  PROVE  tasks[t] \in TaskRows /\ tasks[t].state = "QUEUED"
  BY DEF AtHead, Queued, TypeOK

(* A lease that passes _check_lease belongs to a leased row.                *)
LEMMA CheckedRow ==
  ASSUME TypeOK, NEW t \in TaskIds, NEW r, NEW k, NEW e, NEW time,
         CheckLease(t, r, k, e, time)
  PROVE  /\ tasks[t] \in TaskRows /\ tasks[t].state = "LEASED"
         /\ tasks[t].runner = r /\ tasks[t].token = k
  BY DEF CheckLease, TypeOK

(* The registry keeps its types in every step.                              *)
LEMMA RegistryType ==
  RegistryTypeOK /\ [Next]_vars => RegistryTypeOK'
<1> SUFFICES ASSUME RegistryTypeOK, [Next]_vars PROVE RegistryTypeOK'
  OBVIOUS
<1> USE RegistryNone, RegistryAssumption DEF RegistryTypeOK
<1>1. CASE UNCHANGED <<now, registryVars>>
  BY <1>1 DEF registryVars
<1>2. CASE Tick /\ UNCHANGED registryVars
  BY <1>2 DEF Tick, registryVars
<1>3. ASSUME NEW c \in Challenges, NEW s \in Scopes, IssueChallenge(c, s), now' = now
      PROVE  RegistryTypeOK'
  BY <1>3 DEF IssueChallenge, ChallengeRows
<1>4. ASSUME NEW c \in Challenges, NEW s \in Scopes, NEW r \in Runners,
             NEW caps \in SUBSET Capabilities, Enroll(c, s, r, caps), now' = now
      PROVE  RegistryTypeOK'
  BY <1>4 DEF Enroll, ChallengeRows, RunnerRows, Health
<1>5. ASSUME NEW r \in Runners, NEW h \in Health, SetHealth(r, h), now' = now
      PROVE  RegistryTypeOK'
  BY <1>5 DEF SetHealth, RunnerRows
<1> QED
  BY <1>1, <1>2, <1>3, <1>4, <1>5 DEF Next, RegistryNext, vars

(* The tasks are stepped by the store and the runners only.                 *)
LEMMA StepCases ==
  ASSUME [Next]_vars
  PROVE  UNCHANGED taskVars \/ (StoreNext /\ now' = now)
  BY DEF Next, vars

(* Rows, leases and boundary records keep their types.                      *)
LEMMA TypeStep == TypeOK /\ [Next]_vars => TypeOK'
<1> SUFFICES ASSUME TypeOK, [Next]_vars PROVE TypeOK'
  OBVIOUS
<1> DEFINE T == /\ tasks' \in [TaskIds -> TaskRows \cup {None}]
                /\ leases' \subseteq Leases
                /\ announced' \subseteq TaskIds \X Nat
                /\ cleared' \subseteq TaskIds \X Nat
                /\ effects' \subseteq TaskIds \X Nat
<1> SUFFICES T
  BY RegistryType DEF TypeOK
<1> USE TasksNone, TasksAssumption
<1>0. now \in Nat /\ tasks \in [TaskIds -> TaskRows \cup {None}] /\ leases \subseteq Leases
  BY DEF TypeOK, RegistryTypeOK
<1>1. CASE UNCHANGED taskVars
  BY <1>1 DEF taskVars, TypeOK
<1>2. ASSUME NEW t \in TaskIds, Enqueue(t) PROVE T
  <2>1. tasks' \in [TaskIds -> TaskRows \cup {None}]
    BY <1>0, <1>2 DEF Enqueue, TaskRows, TaskStates
  <2> QED BY <1>2, <2>1 DEF Enqueue, TypeOK
<1>3. ASSUME NEW t \in TaskIds, Recover(t) PROVE T
  <2>1. tasks[t] \in TaskRows /\ RecoveredState(tasks[t].heartbeat) \in TaskStates
    BY <1>0, <1>3 DEF Recover, RecoveredState, TaskStates
  <2>2. EndLease(tasks[t], RecoveredState(tasks[t].heartbeat), tasks[t].receipt) \in TaskRows
    BY <2>1, EndedRow DEF TaskRows
  <2> QED BY <1>0, <1>3, <2>2 DEF Recover, TypeOK
<1>4. ASSUME NEW t \in TaskIds, AcquireExpired(t) PROVE T
  <2>1. tasks[t] \in TaskRows
    BY <1>4, HeadQueued DEF AcquireExpired
  <2>2. [tasks[t] EXCEPT !.state = "EXPIRED"] \in TaskRows
    BY <2>1 DEF TaskRows, TaskStates
  <2>3. tasks' = [tasks EXCEPT ![t] = [tasks[t] EXCEPT !.state = "EXPIRED"]]
    BY <1>4 DEF AcquireExpired
  <2> QED BY <1>0, <1>4, <2>2, <2>3 DEF AcquireExpired, TypeOK
<1>5. ASSUME NEW t \in TaskIds, NEW r \in Runners, Acquire(r, t) PROVE T
  <2>1. tasks[t] \in TaskRows
    BY <1>5, HeadQueued DEF Acquire
  <2>2. NextToken(tasks[t]) \in Nat /\ now + LeaseTime \in Nat
    BY <1>0, <2>1 DEF NextToken, TaskRows
  <2>3. Leased(tasks[t], r, NextToken(tasks[t]), now + LeaseTime) \in TaskRows
    BY <2>1, <2>2, LeasedRow
  <2>4. leases' \subseteq Leases
    BY <1>0, <1>5, <2>2 DEF Acquire, Leases
  <2> QED BY <1>0, <1>5, <2>3, <2>4 DEF Acquire, TypeOK
<1>6. ASSUME NEW lease \in leases, Renew(lease) PROVE T
  <2>1. lease \in Leases /\ lease.task \in TaskIds
    BY <1>0 DEF Leases
  <2>2. tasks[lease.task] \in TaskRows
    BY <1>6, <2>1, CheckedRow DEF Renew
  <2>3. now + LeaseTime \in Nat
    BY <1>0
  <2>4. [tasks[lease.task] EXCEPT !.expires = now + LeaseTime] \in TaskRows
    BY <2>2, <2>3 DEF TaskRows
  <2>5. tasks' = [tasks EXCEPT ![lease.task] = [tasks[lease.task] EXCEPT !.expires = now + LeaseTime]]
    BY <1>6 DEF Renew, RenewedExpiry
  <2>6. leases' \subseteq Leases
    BY <1>0, <1>6, <2>1, <2>3 DEF Renew, Leases
  <2> QED BY <1>0, <1>6, <2>1, <2>4, <2>5, <2>6 DEF Renew, TypeOK
<1>7. ASSUME NEW lease \in leases, NEW beat \in Heartbeats, Heartbeat(lease, beat) PROVE T
  <2>1. lease.task \in TaskIds /\ lease.token \in Nat
    BY <1>0 DEF Leases
  <2>2. tasks[lease.task] \in TaskRows
    BY <1>7, <2>1, CheckedRow DEF Heartbeat
  <2>3. [tasks[lease.task] EXCEPT !.heartbeat = beat] \in TaskRows
    BY <2>2 DEF TaskRows
  <2>4. tasks' = [tasks EXCEPT ![lease.task] = [tasks[lease.task] EXCEPT !.heartbeat = beat]]
    BY <1>7 DEF Heartbeat
  <2>5. cleared' \subseteq TaskIds \X Nat
    BY <1>7, <2>1 DEF Heartbeat, TypeOK
  <2> QED BY <1>0, <1>7, <2>1, <2>3, <2>4, <2>5 DEF Heartbeat, TypeOK
<1>8. ASSUME NEW lease \in leases, NEW result \in Results, NEW at \in 0..MaxTime,
             Complete(lease, result, at)
      PROVE  T
  <2>1. lease.task \in TaskIds /\ lease.token \in Nat /\ lease.runner \in Runners
    BY <1>0 DEF Leases
  <2>2. tasks[lease.task] \in TaskRows
    BY <1>8, <2>1, CheckedRow DEF Complete
  <2> DEFINE receipt == [runner |-> lease.runner, token |-> lease.token, result |-> result, at |-> at]
  <2>3. receipt \in Receipts
    BY <2>1 DEF Receipts
  <2>4. EndLease(tasks[lease.task], "COMPLETED", receipt) \in TaskRows
    BY <2>2, <2>3, EndedRow DEF TaskStates
  <2>5. tasks' = [tasks EXCEPT ![lease.task] = EndLease(tasks[lease.task], "COMPLETED", receipt)]
    BY <1>8 DEF Complete
  <2> QED BY <1>0, <1>8, <2>1, <2>4, <2>5 DEF Complete, TypeOK
<1>9. ASSUME NEW lease \in leases, Announce(lease) \/ Cross(lease) PROVE T
  <2>1. lease.task \in TaskIds /\ lease.token \in Nat
    BY <1>0 DEF Leases
  <2>2. CASE Announce(lease)  BY <2>1, <2>2 DEF Announce, TypeOK
  <2>3. CASE Cross(lease)  BY <2>1, <2>3 DEF Cross, TypeOK
  <2> QED BY <1>9, <2>2, <2>3
<1> HIDE DEF T
<1> QED
  BY <1>1, <1>2, <1>3, <1>4, <1>5, <1>6, <1>7, <1>8, <1>9, StepCases DEF StoreNext

(* The row of a leased task after a heartbeat or a renewal.                 *)
LEMMA TouchedRow ==
  ASSUME NEW row \in TaskRows
  PROVE  /\ \A e \in Nat :
              LET new == [row EXCEPT !.expires = e] IN
              /\ new.state = row.state /\ new.runner = row.runner /\ new.token = row.token
              /\ new.expires = e /\ new.heartbeat = row.heartbeat /\ new.receipt = row.receipt
         /\ \A b \in Heartbeats :
              LET new == [row EXCEPT !.heartbeat = b] IN
              /\ new.state = row.state /\ new.runner = row.runner /\ new.token = row.token
              /\ new.expires = row.expires /\ new.heartbeat = b /\ new.receipt = row.receipt
         /\ LET new == [row EXCEPT !.state = "EXPIRED"] IN
              /\ new.state = "EXPIRED" /\ new.runner = row.runner /\ new.token = row.token
              /\ new.expires = row.expires /\ new.heartbeat = row.heartbeat
              /\ new.receipt = row.receipt
  BY DEF TaskRows

(* A row of each kind, as a step leaves it.                                 *)
Enqueued(t) == tasks[t] = None /\ tasks'[t].state = "QUEUED" /\ tasks'[t].runner = None
                 /\ tasks'[t].token = 0 /\ tasks'[t].expires = None /\ tasks'[t].receipt = None
                 /\ leases' = leases /\ cleared' = cleared
Kept(t) == tasks'[t].runner = tasks[t].runner /\ tasks'[t].token = tasks[t].token
Recovered(t) == tasks[t].state = "LEASED" /\ Kept(t) /\ tasks'[t].expires = None
                  /\ tasks'[t].receipt = tasks[t].receipt
                  /\ tasks'[t].state = RecoveredState(tasks[t].heartbeat)
                  /\ leases' = leases /\ cleared' = cleared
Expired(t) == tasks[t].state = "QUEUED" /\ tasks'[t].state = "EXPIRED" /\ Kept(t)
                /\ tasks'[t].expires = tasks[t].expires /\ tasks'[t].receipt = tasks[t].receipt
                /\ leases' = leases /\ cleared' = cleared
Acquired(t) ==
  /\ tasks[t].state = "QUEUED" /\ tasks'[t].state = "LEASED"
  /\ tasks'[t].token = tasks[t].token + 1 /\ tasks'[t].runner \in Runners
  /\ tasks'[t].expires = now + LeaseTime /\ tasks'[t].receipt = tasks[t].receipt
  /\ leases' = leases \cup {[task |-> t, runner |-> tasks'[t].runner, token |-> tasks'[t].token,
                              expires |-> now + LeaseTime]}
  /\ cleared' = cleared
Renewed(t) ==
  /\ tasks[t].state = "LEASED" /\ tasks'[t].state = "LEASED" /\ Kept(t)
  /\ tasks'[t].expires = now + LeaseTime /\ tasks'[t].receipt = tasks[t].receipt
  /\ tasks'[t].heartbeat = tasks[t].heartbeat
  /\ leases' = leases \cup {[task |-> t, runner |-> tasks[t].runner, token |-> tasks[t].token,
                              expires |-> now + LeaseTime]}
  /\ cleared' = cleared
Beaten(t) ==
  /\ tasks[t].state = "LEASED" /\ tasks'[t].state = "LEASED" /\ Kept(t)
  /\ tasks'[t].expires = tasks[t].expires /\ tasks'[t].receipt = tasks[t].receipt
  /\ tasks'[t].heartbeat \in Heartbeats
  /\ tasks'[t].heartbeat.boundary \in Reports(t, tasks[t].token)
  /\ leases' = leases
  /\ cleared' = IF tasks'[t].heartbeat.boundary = "post" THEN cleared \cup {<<t, tasks[t].token>>}
                ELSE cleared
Completed(t) ==
  /\ tasks[t].state = "LEASED" /\ tasks'[t].state = "COMPLETED" /\ Kept(t)
  /\ tasks'[t].expires = None /\ tasks'[t].receipt \in Receipts
  /\ tasks'[t].receipt.token = tasks[t].token /\ tasks'[t].receipt.runner = tasks[t].runner
  /\ leases' = leases /\ cleared' = cleared

(* Every step leaves all rows but one alone, and that one in one of the     *)
(* seven ways above; a step that records the boundary changes no row.       *)
LEMMA StepShape ==
  ASSUME TypeOK, [Next]_vars
  PROVE  \/ UNCHANGED <<tasks, leases, cleared>>
         \/ /\ now' = now /\ announced' = announced /\ effects' = effects
            /\ \E t \in TaskIds :
                 /\ \A u \in TaskIds \ {t} : tasks'[u] = tasks[u]
                 /\ tasks'[t] \in TaskRows
                 /\ \/ Enqueued(t)
                    \/ /\ tasks[t] \in TaskRows
                       /\ \/ Recovered(t) \/ Expired(t) \/ Acquired(t) \/ Renewed(t)
                          \/ Beaten(t) \/ Completed(t)
<1> DEFINE Shape(t) ==
      /\ now' = now /\ announced' = announced /\ effects' = effects
      /\ \A u \in TaskIds \ {t} : tasks'[u] = tasks[u]
      /\ tasks'[t] \in TaskRows
      /\ \/ Enqueued(t)
         \/ /\ tasks[t] \in TaskRows
            /\ \/ Recovered(t) \/ Expired(t) \/ Acquired(t) \/ Renewed(t)
               \/ Beaten(t) \/ Completed(t)
<1>0. /\ now \in Nat /\ tasks \in [TaskIds -> TaskRows \cup {None}] /\ leases \subseteq Leases
      /\ tasks' \in [TaskIds -> TaskRows \cup {None}]
  BY TypeStep DEF TypeOK, RegistryTypeOK
<1>1. CASE UNCHANGED taskVars
  BY <1>1 DEF taskVars
<1>2. CASE StoreNext /\ now' = now
  <2> USE <1>0, <1>2, TasksNone, TasksAssumption
  <2>1. ASSUME NEW t \in TaskIds, Enqueue(t) PROVE Shape(t)
    <3>1. tasks'[t] = [state |-> "QUEUED", runner |-> None, token |-> 0, expires |-> None,
                       heartbeat |-> None, receipt |-> None]
      BY <2>1 DEF Enqueue
    <3>2. tasks'[t] \in TaskRows
      BY <3>1 DEF TaskRows, TaskStates
    <3>3. Enqueued(t)
      BY <2>1, <3>1 DEF Enqueue, Enqueued
    <3> QED BY <2>1, <3>2, <3>3 DEF Enqueue
  <2>2. ASSUME NEW t \in TaskIds, Recover(t) PROVE Shape(t)
    <3>1. tasks[t] \in TaskRows /\ tasks[t].state = "LEASED"
      BY <2>2 DEF Recover
    <3>2. tasks'[t] = EndLease(tasks[t], RecoveredState(tasks[t].heartbeat), tasks[t].receipt)
      BY <2>2 DEF Recover
    <3>3. tasks'[t] \in TaskRows
      BY <3>1, <3>2, EndedRow DEF TaskRows, RecoveredState, TaskStates
    <3>4. Recovered(t)
      BY <2>2, <3>1, <3>2 DEF Recover, Recovered, EndLease, Kept
    <3> QED BY <2>2, <3>1, <3>3, <3>4 DEF Recover
  <2>3. ASSUME NEW t \in TaskIds, AcquireExpired(t) PROVE Shape(t)
    <3>1. tasks[t] \in TaskRows /\ tasks[t].state = "QUEUED"
      BY <2>3, HeadQueued DEF AcquireExpired
    <3>2. tasks'[t] = [tasks[t] EXCEPT !.state = "EXPIRED"]
      BY <2>3 DEF AcquireExpired
    <3>3. tasks'[t] \in TaskRows
      BY <3>1, <3>2 DEF TaskRows, TaskStates
    <3>4. Expired(t)
      BY <2>3, <3>1, <3>2, TouchedRow DEF AcquireExpired, Expired, Kept
    <3> QED BY <2>3, <3>1, <3>3, <3>4 DEF AcquireExpired
  <2>4. ASSUME NEW t \in TaskIds, NEW r \in Runners, Acquire(r, t) PROVE Shape(t)
    <3>1. tasks[t] \in TaskRows /\ tasks[t].state = "QUEUED"
      BY <2>4, HeadQueued DEF Acquire
    <3>2. tasks'[t] = Leased(tasks[t], r, tasks[t].token + 1, now + LeaseTime)
      BY <2>4 DEF Acquire, NextToken
    <3>3. tasks[t].token + 1 \in Nat /\ now + LeaseTime \in Nat
      BY <3>1 DEF TaskRows
    <3>4. tasks'[t] \in TaskRows
      BY <3>1, <3>2, <3>3, LeasedRow
    <3>5. tasks'[t].runner = r /\ tasks'[t].token = tasks[t].token + 1
          /\ tasks'[t].state = "LEASED" /\ tasks'[t].expires = now + LeaseTime
          /\ tasks'[t].receipt = tasks[t].receipt
      BY <3>2 DEF Leased
    <3>6. Acquired(t)
      BY <2>4, <3>1, <3>5 DEF Acquire, Acquired, NextToken
    <3> QED BY <2>4, <3>1, <3>4, <3>6 DEF Acquire
  <2>5. ASSUME NEW lease \in leases, Renew(lease) PROVE Shape(lease.task)
    <3> DEFINE t == lease.task
    <3>1. lease \in Leases /\ t \in TaskIds /\ now + LeaseTime \in Nat
      BY DEF Leases
    <3>2. tasks[t] \in TaskRows /\ tasks[t].state = "LEASED" /\ tasks[t].runner = lease.runner
          /\ tasks[t].token = lease.token
      BY <2>5, <3>1, CheckedRow DEF Renew
    <3>3. tasks'[t] = [tasks[t] EXCEPT !.expires = now + LeaseTime]
      BY <2>5, <3>1 DEF Renew, RenewedExpiry
    <3>4. tasks'[t] \in TaskRows
      BY <3>1, <3>2, <3>3 DEF TaskRows
    <3>5. [lease EXCEPT !.expires = now + LeaseTime]
            = [task |-> t, runner |-> tasks[t].runner, token |-> tasks[t].token,
               expires |-> now + LeaseTime]
      BY <3>1, <3>2 DEF Leases
    <3>6. /\ tasks'[t].state = "LEASED" /\ Kept(t) /\ tasks'[t].expires = now + LeaseTime
          /\ tasks'[t].receipt = tasks[t].receipt /\ tasks'[t].heartbeat = tasks[t].heartbeat
      BY <3>1, <3>2, <3>3, TouchedRow DEF Kept
    <3>7. leases' = leases \cup {[lease EXCEPT !.expires = now + LeaseTime]} /\ cleared' = cleared
      BY <2>5 DEF Renew
    <3>8. Renewed(t)
      BY <3>2, <3>5, <3>6, <3>7 DEF Renewed
    <3> QED BY <2>5, <3>1, <3>2, <3>4, <3>8 DEF Renew
  <2>6. ASSUME NEW lease \in leases, NEW beat \in Heartbeats, Heartbeat(lease, beat)
        PROVE  Shape(lease.task)
    <3> DEFINE t == lease.task
    <3>1. t \in TaskIds
      BY DEF Leases
    <3>2. tasks[t] \in TaskRows /\ tasks[t].state = "LEASED" /\ tasks[t].token = lease.token
      BY <2>6, <3>1, CheckedRow DEF Heartbeat
    <3>3. tasks'[t] = [tasks[t] EXCEPT !.heartbeat = beat]
      BY <2>6, <3>1 DEF Heartbeat
    <3>4. tasks'[t] \in TaskRows
      BY <3>1, <3>2, <3>3 DEF TaskRows
    <3>5. tasks'[t].heartbeat = beat
      BY <3>2, <3>3, TouchedRow
    <3>6. Beaten(t)
      BY <2>6, <3>1, <3>2, <3>3, <3>5, TouchedRow DEF Heartbeat, Beaten, Kept
    <3> QED BY <2>6, <3>1, <3>2, <3>4, <3>6 DEF Heartbeat
  <2>7. ASSUME NEW lease \in leases, NEW result \in Results, NEW at \in 0..MaxTime,
               Complete(lease, result, at)
        PROVE  Shape(lease.task)
    <3> DEFINE t == lease.task
               receipt == [runner |-> lease.runner, token |-> lease.token, result |-> result,
                           at |-> at]
    <3>1. t \in TaskIds /\ receipt \in Receipts
      BY DEF Leases, Receipts
    <3>2. tasks[t] \in TaskRows /\ tasks[t].state = "LEASED" /\ tasks[t].runner = lease.runner
          /\ tasks[t].token = lease.token
      BY <2>7, <3>1, CheckedRow DEF Complete
    <3>3. tasks'[t] = EndLease(tasks[t], "COMPLETED", receipt)
      BY <2>7, <3>1 DEF Complete
    <3>4. tasks'[t] \in TaskRows
      BY <3>1, <3>2, <3>3, EndedRow DEF TaskStates
    <3>5. tasks'[t].receipt = receipt /\ tasks'[t].state = "COMPLETED" /\ Kept(t)
          /\ tasks'[t].expires = None
      BY <3>3 DEF EndLease, Kept
    <3>6. Completed(t)
      BY <2>7, <3>1, <3>2, <3>5 DEF Complete, Completed
    <3> QED BY <2>7, <3>1, <3>2, <3>4, <3>6 DEF Complete
  <2>8. ASSUME NEW lease \in leases, Announce(lease) \/ Cross(lease)
        PROVE  UNCHANGED <<tasks, leases, cleared>>
    BY <2>8 DEF Announce, Cross
  <2>9. \A l \in leases : l.task \in TaskIds
    BY DEF Leases
  <2> HIDE DEF Shape
  <2>10. UNCHANGED <<tasks, leases, cleared>> \/ \E t \in TaskIds : Shape(t)
    BY <2>1, <2>2, <2>3, <2>4, <2>5, <2>6, <2>7, <2>8, <2>9 DEF StoreNext
  <2> QED BY <2>10 DEF Shape
<1> QED BY <1>1, <1>2, StepCases

-----------------------------------------------------------------------------
(* The fencing invariant holds before anything is queued.                   *)
LEMMA InitInv == Init => FencingInv /\ EffectInv
<1> SUFFICES ASSUME Init PROVE FencingInv /\ EffectInv
  OBVIOUS
<1>1. TypeOK
  BY DEF Init, RegistryInit, TypeOK, RegistryTypeOK
<1>2. LeaseComplete /\ OneHolderPerToken /\ ReceiptFromHolder
  BY DEF Init, LeaseComplete, OneHolderPerToken, ReceiptFromHolder
<1>3. EffectInv
  BY DEF Init, EffectInv, ClearedOnRecord
<1> QED BY <1>1, <1>2, <1>3 DEF FencingInv

(* A row that is leased has a holder and an expiry, others have none.       *)
LEMMA LeaseStep == FencingInv /\ [Next]_vars => LeaseComplete' /\ ReceiptFromHolder'
<1> SUFFICES ASSUME FencingInv, [Next]_vars PROVE LeaseComplete' /\ ReceiptFromHolder'
  OBVIOUS
<1> USE TasksNone
<1>1. CASE UNCHANGED <<tasks, leases, cleared>>
  BY <1>1 DEF FencingInv, LeaseComplete, ReceiptFromHolder
<1>2. ASSUME NEW t \in TaskIds, NEW u \in TaskIds, u # t => tasks'[u] = tasks[u], tasks'[u] # None,
             \/ Enqueued(t)
             \/ /\ tasks[t] \in TaskRows
                /\ \/ Recovered(t) \/ Expired(t) \/ Acquired(t) \/ Renewed(t)
                   \/ Beaten(t) \/ Completed(t)
      PROVE  /\ tasks'[u].state = "LEASED" <=> tasks'[u].expires # None
             /\ tasks'[u].state = "LEASED" => tasks'[u].runner # None
             /\ tasks'[u].state = "COMPLETED" <=> tasks'[u].receipt # None
             /\ tasks'[u].receipt # None => /\ tasks'[u].receipt.token = tasks'[u].token
                                            /\ tasks'[u].receipt.runner = tasks'[u].runner
  <2>1. CASE u # t
    BY <1>2, <2>1 DEF FencingInv, LeaseComplete, ReceiptFromHolder
  <2>2. CASE u = t /\ Enqueued(t)
    BY <2>2 DEF Enqueued
  <2>3. ASSUME u = t, tasks[t] \in TaskRows
        PROVE  /\ tasks[t].state = "LEASED" <=> tasks[t].expires # None
               /\ tasks[t].state = "LEASED" => tasks[t].runner # None
               /\ tasks[t].state = "COMPLETED" <=> tasks[t].receipt # None
               /\ tasks[t].receipt # None => /\ tasks[t].receipt.token = tasks[t].token
                                             /\ tasks[t].receipt.runner = tasks[t].runner
    BY <2>3 DEF FencingInv, LeaseComplete, ReceiptFromHolder
  <2>4. CASE u = t /\ tasks[t] \in TaskRows /\ Recovered(t)
    BY <2>3, <2>4 DEF Recovered, Kept, RecoveredState
  <2>5. CASE u = t /\ tasks[t] \in TaskRows /\ Expired(t)
    BY <2>3, <2>5 DEF Expired, Kept
  <2>6. CASE u = t /\ tasks[t] \in TaskRows /\ Acquired(t)
    <3>1. now + LeaseTime # None
      BY TasksAssumption DEF FencingInv, TypeOK, RegistryTypeOK
    <3> QED BY <2>3, <2>6, <3>1 DEF Acquired
  <2>7. CASE u = t /\ tasks[t] \in TaskRows /\ Renewed(t)
    <3>1. now + LeaseTime # None
      BY TasksAssumption DEF FencingInv, TypeOK, RegistryTypeOK
    <3> QED BY <2>3, <2>7, <3>1 DEF Renewed, Kept
  <2>8. CASE u = t /\ tasks[t] \in TaskRows /\ Beaten(t)
    BY <2>3, <2>8 DEF Beaten, Kept
  <2>9. CASE u = t /\ tasks[t] \in TaskRows /\ Completed(t)
    BY <2>3, <2>9 DEF Completed, Kept
  <2> QED BY <1>2, <2>1, <2>2, <2>4, <2>5, <2>6, <2>7, <2>8, <2>9
<1>3. ASSUME NEW t \in TaskIds, \A u \in TaskIds \ {t} : tasks'[u] = tasks[u],
             \/ Enqueued(t)
             \/ /\ tasks[t] \in TaskRows
                /\ \/ Recovered(t) \/ Expired(t) \/ Acquired(t) \/ Renewed(t)
                   \/ Beaten(t) \/ Completed(t)
      PROVE  LeaseComplete' /\ ReceiptFromHolder'
  BY <1>2, <1>3 DEF LeaseComplete, ReceiptFromHolder
<1> QED BY <1>1, <1>3, StepShape DEF FencingInv

(* A token goes to one runner, and the row's token is the latest.           *)
LEMMA TokenStep == FencingInv /\ [Next]_vars => OneHolderPerToken'
<1> SUFFICES ASSUME FencingInv, [Next]_vars PROVE OneHolderPerToken'
  OBVIOUS
<1> USE TasksNone
<1>0. /\ leases \subseteq Leases /\ OneHolderPerToken
      /\ \A l \in leases : l.task \in TaskIds /\ l.token \in Nat
      /\ \A t \in TaskIds : tasks[t] \in TaskRows => tasks[t].token \in Nat
  BY DEF FencingInv, TypeOK, Leases, TaskRows
<1>1. CASE UNCHANGED <<tasks, leases, cleared>>
  BY <1>0, <1>1 DEF OneHolderPerToken
<1>2. ASSUME NEW t \in TaskIds, \A u \in TaskIds \ {t} : tasks'[u] = tasks[u],
             tasks'[t] \in TaskRows,
             \/ Enqueued(t)
             \/ /\ tasks[t] \in TaskRows
                /\ \/ Recovered(t) \/ Expired(t) \/ Acquired(t) \/ Renewed(t)
                   \/ Beaten(t) \/ Completed(t)
      PROVE  OneHolderPerToken'
  <2>1. CASE Enqueued(t)
    <3>1. \A l \in leases : l.task # t
      BY <1>0, <2>1 DEF Enqueued, OneHolderPerToken
    <3> QED BY <1>0, <1>2, <2>1, <3>1 DEF Enqueued, OneHolderPerToken
  <2>2. CASE tasks[t] \in TaskRows /\ Kept(t) /\ leases' = leases
    BY <1>0, <1>2, <2>2 DEF Kept, OneHolderPerToken
  <2>3. CASE tasks[t] \in TaskRows /\ Renewed(t)
    BY <1>0, <1>2, <2>3 DEF Renewed, Kept, OneHolderPerToken
  <2>4. CASE tasks[t] \in TaskRows /\ Acquired(t)
    <3> DEFINE new == [task |-> t, runner |-> tasks'[t].runner, token |-> tasks'[t].token,
                       expires |-> now + LeaseTime]
    <3>1. leases' = leases \cup {new} /\ tasks'[t].token = tasks[t].token + 1
      BY <2>4 DEF Acquired
    <3>2. \A l \in leases : l.task = t => l.token < tasks'[t].token
      BY <1>0, <2>4, <3>1 DEF OneHolderPerToken
    <3>3. new.task = t /\ new.runner = tasks'[t].runner /\ new.token = tasks'[t].token
      OBVIOUS
    <3>4. tasks'[t].token \in Nat
      BY <1>0, <2>4, <3>1
    <3> HIDE DEF new
    <3> QED BY <1>0, <1>2, <3>1, <3>2, <3>3, <3>4 DEF OneHolderPerToken
  <2> QED
    BY <1>2, <2>1, <2>2, <2>3, <2>4 DEF Recovered, Expired, Beaten, Completed
<1> QED BY <1>1, <1>2, StepShape DEF FencingInv

(* Once cleared, a boundary stays on record - if reports are not overtaken. *)
LEMMA EffectStep ==
  ASSUME Reordering = FALSE
  PROVE  FencingInv /\ EffectInv /\ [Next]_vars => EffectInv'
<1> SUFFICES ASSUME FencingInv, EffectInv, [Next]_vars PROVE EffectInv'
  OBVIOUS
<1> USE TasksNone
<1>0. /\ cleared \subseteq TaskIds \X Nat /\ TypeOK
      /\ \A p \in cleared : p[1] \in TaskIds /\ p = <<p[1], p[2]>>
  BY DEF FencingInv, TypeOK
<1>1. effects' \subseteq cleared'
  <2>1. effects' \subseteq cleared \/ effects' = effects
    BY DEF Next, StoreNext, vars, taskVars, EffectInv, Enqueue, Recover, AcquireExpired, Acquire,
        Renew, Heartbeat, Complete, Announce, Cross
  <2>2. cleared \subseteq cleared'
    BY StepShape DEF FencingInv, Enqueued, Recovered, Expired, Acquired, Renewed, Beaten, Completed
  <2> QED BY <2>1, <2>2 DEF EffectInv
<1>2. announced \subseteq announced'
  BY DEF Next, StoreNext, vars, taskVars, Enqueue, Recover, AcquireExpired, Acquire,
      Renew, Heartbeat, Complete, Announce, Cross
<1>3. CASE UNCHANGED <<tasks, leases, cleared>>
  BY <1>1, <1>2, <1>3 DEF EffectInv, ClearedOnRecord
<1>4. ASSUME NEW t \in TaskIds, \A u \in TaskIds \ {t} : tasks'[u] = tasks[u],
             tasks'[t] \in TaskRows,
             \/ Enqueued(t)
             \/ /\ tasks[t] \in TaskRows
                /\ \/ Recovered(t) \/ Expired(t) \/ Acquired(t) \/ Renewed(t)
                   \/ Beaten(t) \/ Completed(t)
      PROVE  ClearedOnRecord'
  <2> SUFFICES ASSUME NEW p \in cleared'
               PROVE  /\ p \in announced'
                      /\ tasks'[p[1]] # None
                      /\ tasks'[p[1]].token = p[2]
                      /\ tasks'[p[1]].state \in {"LEASED", "VERIFYING", "COMPLETED"}
                      /\ tasks'[p[1]].state = "LEASED" =>
                           tasks'[p[1]].heartbeat # None /\ tasks'[p[1]].heartbeat.boundary = "post"
    BY DEF ClearedOnRecord
  <2>1. CASE p \in cleared /\ p[1] # t
    BY <1>0, <1>2, <1>4, <2>1 DEF EffectInv, ClearedOnRecord
  <2>2. CASE p \in cleared /\ p[1] = t
    <3>1. /\ p \in announced /\ tasks[t] # None /\ tasks[t].token = p[2]
          /\ tasks[t].state \in {"LEASED", "VERIFYING", "COMPLETED"}
          /\ tasks[t].state = "LEASED" => tasks[t].heartbeat # None
                                            /\ tasks[t].heartbeat.boundary = "post"
      BY <2>2 DEF EffectInv, ClearedOnRecord
    <3>2. ~Enqueued(t) /\ ~Expired(t) /\ ~Acquired(t)
      BY <3>1 DEF Enqueued, Expired, Acquired
    <3>3. CASE Recovered(t)
      <4>1. tasks'[t].state = "VERIFYING"
        BY <3>1, <3>3 DEF Recovered, RecoveredState, Retryable
      <4> QED BY <1>2, <1>4, <2>2, <3>1, <3>3, <4>1 DEF Recovered, Kept
    <3>4. CASE Renewed(t)
      BY <1>2, <1>4, <2>2, <3>1, <3>4 DEF Renewed, Kept
    <3>5. CASE Beaten(t)
      <4>1. p = <<t, tasks[t].token>>
        BY <1>0, <2>2, <3>1
      <4>2. Reports(t, tasks[t].token) = {"post"}
        BY <3>1, <4>1 DEF Reports
      <4>3. tasks'[t].heartbeat.boundary = "post" /\ tasks'[t].heartbeat # None
        BY <3>5, <4>2 DEF Beaten
      <4> QED BY <1>2, <1>4, <2>2, <3>1, <3>5, <4>3 DEF Beaten, Kept
    <3>6. CASE Completed(t)
      BY <1>2, <1>4, <2>2, <3>1, <3>6 DEF Completed, Kept
    <3> QED BY <1>4, <3>2, <3>3, <3>4, <3>5, <3>6
  <2>3. CASE p \notin cleared
    <3>1. Beaten(t) /\ p = <<t, tasks[t].token>> /\ tasks'[t].heartbeat.boundary = "post"
      BY <1>4, <2>3 DEF Enqueued, Recovered, Expired, Acquired, Renewed, Beaten, Completed
    <3>2. p \in announced
      BY <3>1 DEF Beaten, Reports
    <3>3. p[1] = t /\ p[2] = tasks[t].token /\ tasks'[t].heartbeat # None
      BY <3>1 DEF Beaten
    <3> QED BY <1>2, <1>4, <3>1, <3>2, <3>3 DEF Beaten, Kept
  <2> QED BY <2>1, <2>2, <2>3
<1> QED BY <1>1, <1>3, <1>4, StepShape DEF EffectInv, FencingInv

(* What a runner can present expires no later than the row.                 *)
LEMMA ExpiryStep == FencingInv /\ ExpiryInv /\ [Next]_vars => ExpiryInv'
<1> SUFFICES ASSUME FencingInv, ExpiryInv, [Next]_vars PROVE ExpiryInv'
  OBVIOUS
<1> USE TasksAssumption
<1>0. /\ leases \subseteq Leases /\ now \in Nat
      /\ \A l \in leases : l.task \in TaskIds /\ l.token \in Nat /\ l.expires \in Nat
      /\ \A l \in leases : l.expires <= now + LeaseTime
      /\ \A l \in leases : tasks[l.task] # None /\ l.token <= tasks[l.task].token
      /\ PresentedLeaseNotNewer
  BY DEF FencingInv, TypeOK, RegistryTypeOK, Leases, ExpiryInv, OneHolderPerToken
<1>1. CASE UNCHANGED <<tasks, leases, cleared>>
  <2>1. now' \in Nat /\ now <= now'
    BY <1>0 DEF Next, vars, Tick
  <2> QED BY <1>0, <1>1, <2>1 DEF ExpiryInv, PresentedLeaseNotNewer
<1>2. ASSUME NEW t \in TaskIds, \A u \in TaskIds \ {t} : tasks'[u] = tasks[u],
             tasks'[t] \in TaskRows, now' = now,
             \/ Enqueued(t)
             \/ /\ tasks[t] \in TaskRows
                /\ \/ Recovered(t) \/ Expired(t) \/ Acquired(t) \/ Renewed(t)
                   \/ Beaten(t) \/ Completed(t)
      PROVE  ExpiryInv'
  <2>1. CASE leases' = leases /\ tasks'[t].state # "LEASED"
    BY <1>0, <1>2, <2>1 DEF ExpiryInv, PresentedLeaseNotNewer
  <2>2. CASE Beaten(t)
    BY <1>0, <1>2, <2>2 DEF ExpiryInv, PresentedLeaseNotNewer, Beaten, Kept
  <2>3. CASE Renewed(t)
    BY <1>0, <1>2, <2>3 DEF ExpiryInv, PresentedLeaseNotNewer, Renewed, Kept
  <2>4. CASE tasks[t] \in TaskRows /\ Acquired(t)
    <3>1. \A l \in leases : l.task = t => l.token # tasks'[t].token
      BY <1>0, <2>4 DEF Acquired, TaskRows
    <3> QED BY <1>0, <1>2, <2>4, <3>1 DEF ExpiryInv, PresentedLeaseNotNewer, Acquired
  <2> QED
    BY <1>2, <2>1, <2>2, <2>3, <2>4 DEF Enqueued, Recovered, RecoveredState, Expired, Completed
<1> QED BY <1>1, <1>2, StepShape DEF FencingInv

-----------------------------------------------------------------------------
(* Types and fencing hold in every state, however heartbeats arrive.        *)
THEOREM FencingInvariance == Spec => []FencingInv
<1>1. FencingInv /\ [Next]_vars => FencingInv'
  BY TypeStep, LeaseStep, TokenStep DEF FencingInv
<1> QED BY <1>1, InitInv, PTL DEF Spec

(* Every row, lease and boundary record has its type.                       *)
THEOREM TypeCorrect == Spec => []TypeOK
<1>1. FencingInv => TypeOK
  BY DEF FencingInv
<1> QED BY <1>1, FencingInvariance, PTL

(* A fencing token is one runner's, so at most one runner passes            *)
(* _check_lease at any time.                                                *)
THEOREM OneHolder == Spec => []OneHolderPerToken
<1>1. FencingInv => OneHolderPerToken
  BY DEF FencingInv
<1> QED BY <1>1, FencingInvariance, PTL

(* A row has a lease exactly while it is leased, and a receipt exactly when *)
(* it is completed.                                                         *)
THEOREM LeasesComplete == Spec => []LeaseComplete
<1>1. FencingInv => LeaseComplete
  BY DEF FencingInv
<1> QED BY <1>1, FencingInvariance, PTL

(* A receipt is that of the last lease given out.                           *)
THEOREM ReceiptOfHolder == Spec => []ReceiptFromHolder
<1>1. FencingInv => ReceiptFromHolder
  BY DEF FencingInv
<1> QED BY <1>1, FencingInvariance, PTL

(* Checking the expiry a runner presents is as strict as checking the row.  *)
THEOREM PresentedNotNewer == Spec => []PresentedLeaseNotNewer
<1>1. Init => ExpiryInv
  BY DEF Init, ExpiryInv, PresentedLeaseNotNewer
<1>2. ExpiryInv => PresentedLeaseNotNewer
  BY DEF ExpiryInv
<1> QED BY <1>1, <1>2, ExpiryStep, FencingInvariance, PTL DEF Spec

(* Without overtaken heartbeats a cleared boundary stays on record, and an  *)
(* effect happens only past a cleared boundary.                             *)
THEOREM EffectInvariance ==
  ASSUME Reordering = FALSE PROVE Spec => []EffectInv
<1>1. FencingInv /\ EffectInv /\ [Next]_vars => EffectInv'
  BY EffectStep
<1> QED BY <1>1, InitInv, FencingInvariance, PTL DEF Spec

(* Without overtaken heartbeats, a task past its boundary is not retried.   *)
THEOREM PostEffectSafe ==
  ASSUME Reordering = FALSE PROVE Spec => []PostEffectNotRetried
<1>1. EffectInv => PostEffectNotRetried
  BY DEF EffectInv, ClearedOnRecord, PostEffectNotRetried
<1> QED BY <1>1, EffectInvariance, PTL

(* Without overtaken heartbeats, an effect happens under at most one lease. *)
THEOREM AtMostOnce ==
  ASSUME Reordering = FALSE PROVE Spec => []EffectAtMostOnce
<1>1. TypeOK /\ EffectInv => EffectAtMostOnce
  <2> SUFFICES ASSUME TypeOK, EffectInv, NEW e \in effects, NEW f \in effects, e[1] = f[1]
               PROVE  e = f
    BY DEF EffectAtMostOnce
  <2>1. e = <<e[1], e[2]>> /\ f = <<f[1], f[2]>>
    BY DEF TypeOK
  <2>2. e[2] = f[2]
    BY DEF EffectInv, ClearedOnRecord
  <2> QED BY <2>1, <2>2
<1> QED BY <1>1, EffectInvariance, TypeCorrect, PTL

(* Tokens never go back, and a lease changes hands only under a new one.    *)
THEOREM TokensGrow == Spec => FencingMonotone
<1>1. FencingInv /\ [Next]_vars =>
        [\A t \in TaskIds : tasks[t] # None =>
           /\ tasks'[t] # None
           /\ tasks'[t].token >= tasks[t].token
           /\ tasks'[t].runner # tasks[t].runner => tasks'[t].token > tasks[t].token]_vars
  <2> SUFFICES ASSUME FencingInv, [Next]_vars, NEW t \in TaskIds, tasks[t] # None
               PROVE  /\ tasks'[t] # None
                      /\ tasks'[t].token >= tasks[t].token
                      /\ tasks'[t].runner # tasks[t].runner => tasks'[t].token > tasks[t].token
    OBVIOUS
  <2>1. TypeOK /\ tasks[t] \in TaskRows /\ tasks[t].token \in Nat
    BY DEF FencingInv, TypeOK, TaskRows
  <2>2. CASE tasks'[t] = tasks[t]
    BY <2>1, <2>2
  <2>3. CASE tasks'[t] \in TaskRows /\ (Kept(t) \/ Acquired(t))
    BY <2>1, <2>3, TasksNone DEF Kept, Acquired
  <2> QED
    BY <2>1, <2>2, <2>3, StepShape, TasksNone DEF Enqueued, Recovered, Expired, Renewed, Beaten,
        Completed
<1> QED BY <1>1, FencingInvariance, PTL DEF Spec, FencingMonotone

(* A completed, expired or to-be-verified task is never touched again.      *)
THEOREM ResultsFinal == Spec => ResultIsFinal
<1>1. FencingInv /\ [Next]_vars =>
        [\A t \in TaskIds : tasks[t] # None /\ tasks[t].state \in {"COMPLETED", "EXPIRED", "VERIFYING"}
            => tasks'[t] = tasks[t]]_vars
  BY StepShape DEF FencingInv, Enqueued, Recovered, Expired, Acquired, Renewed, Beaten, Completed
<1> QED BY <1>1, FencingInvariance, PTL DEF Spec, ResultIsFinal

-----------------------------------------------------------------------------
(* Registration alone: types and one-time tokens are inductive.             *)
RegistryInv == RegistryTypeOK /\ OneRunnerPerChallenge

(* One registry operation, or a tick of the clock.                          *)
RegistryStep == \/ RegistryNext /\ UNCHANGED now
                \/ Tick /\ UNCHANGED registryVars

(* A one-time token admits one runner, into its own scope.                  *)
THEOREM OneTimeTokens == Spec => []OneRunnerPerChallenge
<1> USE RegistryNone, RegistryAssumption
<1>1. Init => RegistryInv
  BY DEF Init, RegistryInit, RegistryInv, RegistryTypeOK, OneRunnerPerChallenge
<1>2. RegistryInv /\ [RegistryStep]_<<now, registryVars>> => RegistryInv'
  <2> SUFFICES ASSUME RegistryInv, [RegistryStep]_<<now, registryVars>> PROVE RegistryInv'
    OBVIOUS
  <2> USE DEF RegistryInv, RegistryTypeOK, OneRunnerPerChallenge
  <2>1. CASE UNCHANGED registryVars /\ now' \in Nat
    BY <2>1 DEF registryVars
  <2>2. ASSUME NEW c \in Challenges, NEW s \in Scopes, IssueChallenge(c, s), now' = now
        PROVE  RegistryInv'
    <3>1. challenges' \in [Challenges -> ChallengeRows \cup {None}] /\ runners' = runners
      BY <2>2 DEF IssueChallenge, ChallengeRows
    <3>2. \A d \in Challenges : challenges[d] # None => challenges'[d] = challenges[d]
      BY <2>2 DEF IssueChallenge
    <3>3. \A r \in Runners : runners[r] # None => runners[r].via \in Challenges
      BY DEF RunnerRows
    <3> QED BY <2>2, <3>1, <3>2, <3>3
  <2>3. ASSUME NEW c \in Challenges, NEW s \in Scopes, NEW r \in Runners,
               NEW caps \in SUBSET Capabilities, Enroll(c, s, r, caps), now' = now
        PROVE  RegistryInv'
    <3> DEFINE new == [scope |-> s, capabilities |-> caps, health |-> "ONLINE", via |-> c]
               used == [challenges[c] EXCEPT !.consumed = TRUE]
    <3>1. new \in RunnerRows /\ new.scope = s /\ new.via = c
      BY DEF RunnerRows, Health
    <3>2. challenges[c] \in ChallengeRows /\ challenges[c].scope = s /\ ~challenges[c].consumed
      BY <2>3 DEF Enroll, ChallengeOpen
    <3>3. used \in ChallengeRows /\ used.consumed /\ used.scope = s
      BY <3>2 DEF ChallengeRows
    <3>4. runners' = [runners EXCEPT ![r] = new] /\ challenges' = [challenges EXCEPT ![c] = used]
      BY <2>3 DEF Enroll
    <3>5. \A q \in Runners : runners[q] # None => runners[q].via # c /\ runners[q].via \in Challenges
      BY <3>2 DEF RunnerRows
    <3> HIDE DEF new, used
    <3>6. RegistryTypeOK'
      BY <2>3, <3>1, <3>3, <3>4
    <3>7. OneRunnerPerChallenge'
      BY <3>1, <3>3, <3>4, <3>5
    <3> QED BY <3>6, <3>7
  <2>4. ASSUME NEW r \in Runners, NEW h \in Health, SetHealth(r, h), now' = now
        PROVE  RegistryInv'
    <3> DEFINE new == [runners[r] EXCEPT !.health = h]
    <3>1. runners[r] \in RunnerRows
      BY <2>4 DEF SetHealth
    <3>2. new \in RunnerRows /\ new.scope = runners[r].scope /\ new.via = runners[r].via
      BY <3>1 DEF RunnerRows
    <3>3. runners' = [runners EXCEPT ![r] = new] /\ challenges' = challenges
      BY <2>4 DEF SetHealth
    <3> HIDE DEF new
    <3>4. \A q \in Runners : (runners'[q] # None <=> runners[q] # None)
            /\ (runners[q] # None => runners'[q].scope = runners[q].scope /\ runners'[q].via = runners[q].via)
      BY <3>1, <3>2, <3>3
    <3> QED BY <2>4, <3>2, <3>3, <3>4
  <2> QED
    BY <2>1, <2>2, <2>3, <2>4 DEF RegistryStep, RegistryNext, Tick, registryVars
<1>3. [Next]_vars => [RegistryStep]_<<now, registryVars>>
  BY DEF Next, vars, RegistryStep, registryVars
<1>4. RegistryInv => OneRunnerPerChallenge
  BY DEF RegistryInv
<1> QED BY <1>1, <1>2, <1>3, <1>4, PTL DEF Spec

(* No later report or enrollment changes the row of a revoked runner.       *)
THEOREM RevocationsFinal == Spec => RevocationIsFinal
<1>1. TypeOK /\ [Next]_vars =>
        [\A r \in Runners : runners[r] # None /\ runners[r].health = "REVOKED"
            => runners'[r] = runners[r]]_<<now, registryVars>>
  <2> SUFFICES ASSUME TypeOK, [Next]_vars, NEW r \in Runners, runners[r] # None,
                      runners[r].health = "REVOKED"
               PROVE  runners'[r] = runners[r]
    OBVIOUS
  <2>1. CASE UNCHANGED registryVars
    BY <2>1 DEF registryVars
  <2>2. ASSUME NEW c \in Challenges, NEW s \in Scopes, IssueChallenge(c, s)
        PROVE  runners'[r] = runners[r]
    BY <2>2 DEF IssueChallenge
  <2>3. ASSUME NEW c \in Challenges, NEW s \in Scopes, NEW q \in Runners,
               NEW caps \in SUBSET Capabilities, Enroll(c, s, q, caps)
        PROVE  runners'[r] = runners[r]
    BY <2>3 DEF Enroll, TypeOK, RegistryTypeOK
  <2>4. ASSUME NEW q \in Runners, NEW h \in Health, SetHealth(q, h)
        PROVE  runners'[r] = runners[r]
    <3>1. q = r => h = "REVOKED"
      BY <2>4 DEF SetHealth, MayReport
    <3>2. runners[r] \in RunnerRows
      BY DEF TypeOK, RegistryTypeOK
    <3>3. [runners[r] EXCEPT !.health = "REVOKED"] = runners[r]
      BY <3>2 DEF RunnerRows
    <3> QED BY <2>4, <3>1, <3>3 DEF SetHealth, TypeOK, RegistryTypeOK
  <2> QED BY <2>1, <2>2, <2>3, <2>4 DEF Next, RegistryNext, vars, registryVars
<1> QED BY <1>1, TypeCorrect, PTL DEF Spec, RevocationIsFinal
=============================================================================
