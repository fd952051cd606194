----------------------------- MODULE AttendedTasks -----------------------------
(***************************************************************************)
(* Attended human tasks: SQLiteAttendedTaskStore of                        *)
(* src/cargomesh/channels/human.py.                                        *)
(*                                                                         *)
(* claim and complete are BEGIN IMMEDIATE transactions, each one action;   *)
(* they read the clock before they wait for the lock, so "time" is some    *)
(* moment up to now.  create is no transaction: its SELECT and its INSERT  *)
(* are two statements, and another process that shares the file can insert *)
(* in between, so it is two actions.  A definition XFault stands before X: *)
(* X with the mistake its comment names, kept to see that the properties   *)
(* notice it.                                                              *)
(***************************************************************************)
EXTENDS Naturals

CONSTANTS
  Tasks,         \* task ids, with their tenant and environment
  Digests,       \* task digests
  Creators,      \* concurrent calls of create
  Principals,
  Results,       \* exact claim sets, with the digest of the note
  LeaseSeconds,
  MaxTime,       \* bound on the clock
  MaxClaims,     \* bound on the claims of a task
  Absent

ASSUME AttendedAssumption == LeaseSeconds \in Nat \ {0} /\ MaxTime \in Nat /\ MaxClaims \in Nat

VARIABLES
  now,
  records,       \* table attended_tasks
  leases,        \* HumanTaskLease objects handed out
  creating,      \* per call of create: the task, once the SELECT found nothing
  created,       \* per call of create: the task it reported as stored
  reported       \* completions reported to their callers

attendedVars == <<now, records, leases, creating, created, reported>>

Leases == [task: Tasks, principal: Principals, token: Nat, expires: Nat]
Completions == [lease: Leases, result: Results, rejected: BOOLEAN]
TaskRequests == [task: Tasks, digest: Digests]
Statuses == {"PENDING", "CLAIMED", "COMPLETED", "REJECTED"}
Records == [digest: Digests, status: Statuses, token: Nat,
            principal: Principals \cup {Absent}, expires: Nat \cup {Absent},
            result: Results \cup {Absent}]

ASSUME AttendedAbsent ==
  Absent \notin Principals \cup Results \cup Records \cup TaskRequests \cup Nat

AttendedInit ==
  /\ now = 0
  /\ records = [t \in Tasks |-> Absent]
  /\ leases = {}
  /\ creating = [c \in Creators |-> Absent]
  /\ created = [c \in Creators |-> Absent]
  /\ reported = {}

-----------------------------------------------------------------------------
(* Fault: an existing task is returned whatever was asked to be created.    *)
SameTaskFault(record, digest) == TRUE

SameTask(record, digest) == record.digest = digest

(* create: a task that exists already is returned if it is the same one.    *)
CreateFound(c, t, digest) ==
  /\ creating[c] = Absent /\ created[c] = Absent
  /\ records[t] # Absent
  /\ SameTask(records[t], digest)
  /\ created' = [created EXCEPT ![c] = [task |-> t, digest |-> digest]]
  /\ UNCHANGED <<now, records, leases, creating, reported>>

CreateSelect(c, t, digest) ==
  /\ creating[c] = Absent /\ created[c] = Absent
  /\ records[t] = Absent
  /\ creating' = [creating EXCEPT ![c] = [task |-> t, digest |-> digest]]
  /\ UNCHANGED <<now, records, leases, created, reported>>

(* The INSERT fails on the primary key when another one came first.         *)
CreateInsert(c) ==
  LET t == creating[c].task
      new == [digest |-> creating[c].digest, status |-> "PENDING", token |-> 0,
              principal |-> Absent, expires |-> Absent, result |-> Absent]
  IN  /\ creating[c] # Absent
      /\ \/ /\ records[t] = Absent
            /\ records' = [records EXCEPT ![t] = new]
            /\ created' = [created EXCEPT ![c] = creating[c]]
         \/ /\ records[t] # Absent
            /\ UNCHANGED <<records, created>>
      /\ creating' = [creating EXCEPT ![c] = Absent]
      /\ UNCHANGED <<now, leases, reported>>

-----------------------------------------------------------------------------
Terminal(record) == record.status \in {"COMPLETED", "REJECTED"}

(* Fault: a live lease does not stop another claim.                         *)
ActiveLeaseFault(record, time) == FALSE

ActiveLease(record, time) ==
  record.status = "CLAIMED" /\ record.expires # Absent /\ record.expires > time

NextFence(record) == record.token + 1

Claim(t, p, time) ==
  LET record == records[t]
      lease == [task |-> t, principal |-> p, token |-> NextFence(record),
                expires |-> time + LeaseSeconds]
  IN  /\ record # Absent
      /\ ~Terminal(record)
      /\ ~ActiveLease(record, time)
      /\ record.token < MaxClaims
      /\ leases' = leases \cup {lease}
      /\ records' = [records EXCEPT ![t] =
                       [digest |-> record.digest, status |-> "CLAIMED",
                        token |-> lease.token, principal |-> p,
                        expires |-> lease.expires, result |-> Absent]]
      /\ UNCHANGED <<now, creating, created, reported>>

(* _validate_current_lease                                                  *)
CurrentLease(record, lease, time) ==
  /\ record.status = "CLAIMED"
  /\ record.principal = lease.principal
  /\ record.token = lease.token
  /\ record.expires # Absent /\ record.expires > time

Outcome(done) == IF done.rejected THEN "REJECTED" ELSE "COMPLETED"

(* _is_same_completion, the completion digest covering the last three.      *)
SameCompletion(record, done) ==
  /\ record.token = done.lease.token
  /\ record.principal = done.lease.principal
  /\ record.result = done.result
  /\ record.status = Outcome(done)

Completed(record, done) ==
  [digest |-> record.digest,
   status |-> Outcome(done),
   token |-> done.lease.token, principal |-> done.lease.principal,
   expires |-> Absent, result |-> done.result]

(* complete and reject: the first completion, or a repetition of it.  The   *)
(* answer may be lost; the caller then calls again.                         *)
Complete(done, time) ==
  LET t == done.lease.task IN
  /\ records[t] # Absent
  /\ \/ /\ Terminal(records[t])
        /\ SameCompletion(records[t], done)
        /\ UNCHANGED records
     \/ /\ ~Terminal(records[t])
        /\ CurrentLease(records[t], done.lease, time)
        /\ records' = [records EXCEPT ![t] = Completed(@, done)]
  /\ reported' = reported \cup {done} \/ UNCHANGED reported
  /\ UNCHANGED <<now, leases, creating, created>>

AttendedTick ==
  /\ now < MaxTime
  /\ now' = now + 1
  /\ UNCHANGED <<records, leases, creating, created, reported>>

AttendedNext ==
  \/ \E c \in Creators, t \in Tasks, d \in Digests :
       CreateFound(c, t, d) \/ CreateSelect(c, t, d)
  \/ \E c \in Creators : CreateInsert(c)
  \/ \E t \in Tasks, p \in Principals, time \in 0..now : Claim(t, p, time)
  \/ \E lease \in leases, result \in Results, rejected \in BOOLEAN, time \in 0..now :
       Complete([lease |-> lease, result |-> result, rejected |-> rejected], time)
  \/ AttendedTick

-----------------------------------------------------------------------------
(* board-10-implementation-contract.md:34-35: at any time one principal at  *)
(* most holds a lease that has not run out, it is the record's lease until  *)
(* the task is terminal, and the result was entered under the last lease    *)
(* given out, by its holder.                                                *)
LastHolderDecides ==
  /\ \A l \in leases :
       /\ \A m \in leases : l.task = m.task /\ l.expires > now /\ m.expires > now => l = m
       /\ l.expires > now /\ ~Terminal(records[l.task]) => records[l.task].token = l.token
  /\ \A t \in Tasks : records[t] # Absent /\ Terminal(records[t]) =>
       /\ \E l \in leases : /\ l.task = t /\ l.token = records[t].token
                            /\ l.principal = records[t].principal
       /\ \A l \in leases : l.task = t => l.token <= records[t].token

(* What was acknowledged is stored: a call of create that reported success  *)
(* is for the task that is stored, also when two calls raced for one id,    *)
(* and a completion that was reported is the task's result for ever after.  *)
AcknowledgedIsStored ==
  /\ \A c \in Creators : created[c] # Absent =>
       records[created[c].task] # Absent /\ records[created[c].task].digest = created[c].digest
  /\ \A done \in reported :
       LET record == records[done.lease.task] IN
       /\ record.status = IF done.rejected THEN "REJECTED" ELSE "COMPLETED"
       /\ record.result = done.result
       /\ record.principal = done.lease.principal

=============================================================================
