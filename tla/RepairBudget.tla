----------------------------- MODULE RepairBudget -----------------------------
(***************************************************************************)
(* The budget ledger of AI repair jobs: SQLiteRepairBudgetLedger of        *)
(* src/cargomesh/repair/budget.py.  reserve and finalize are BEGIN         *)
(* IMMEDIATE transactions; what they write, and when they refuse, is       *)
(* defined here as operators for the module that calls them.               *)
(*                                                                         *)
(* The seven counters of a usage are treated alike, so any set of Fields   *)
(* stands for them.  A definition XFault stands before X: X with the       *)
(* mistake its comment names, kept to see that it is noticed.              *)
(***************************************************************************)
EXTENDS Naturals, Functions

CONSTANTS
  Ids,         \* reservation ids
  Requests,    \* request digests
  JobOf,       \* the tenant, environment and job of a request
  Budgets,     \* budget digests
  LimitOf,     \* the limits of a budget
  Fields,      \* the counters of a usage
  MaxUse,      \* bound on a single counter of a usage
  None

Usages == [Fields -> 0..MaxUse]

ASSUME BudgetAssumption ==
  /\ MaxUse \in Nat
  /\ LimitOf \in [Budgets -> [Fields -> Nat]]

VARIABLE ledger   \* table repair_budget_reservations

Rows == [request: Requests, budget: Budgets, reserved: Usages,
         status: {"RESERVED", "FINALIZED"}, actual: Usages \cup {None}]
Wants == [request: Requests, budget: Budgets, usage: Usages]

ASSUME BudgetNone == None \notin Rows

(* _usage_leq                                                               *)
Within(use, limit) == \A f \in Fields : use[f] <= limit[f]

RowsOf(job) == {i \in Ids : ledger[i] # None /\ JobOf[ledger[i].request] = job}

(* Fault: what is reserved is not counted until it is finalized.            *)
ChargedFault(row) == IF row.status = "FINALIZED" THEN row.actual ELSE [f \in Fields |-> 0]

Charged(row) == IF row.status = "FINALIZED" THEN row.actual ELSE row.reserved

(* _scope_usage                                                             *)
ScopeUsage(job) ==
  [f \in Fields |-> SumFunction([i \in RowsOf(job) |-> Charged(ledger[i])[f]])]

(* _usage_fits_sum                                                          *)
FitsSum(want) ==
  \A f \in Fields :
    ScopeUsage(JobOf[want.request])[f] + want.usage[f] <= LimitOf[want.budget][f]

(* Fault: only the request of a replayed reservation is compared.           *)
SameReservationFault(row, want) == row.request = want.request

SameReservation(row, want) ==
  row.request = want.request /\ row.budget = want.budget /\ row.reserved = want.usage

(* One row of the job, any, is looked at: LIMIT 1.                          *)
JobAgrees(want) ==
  LET same == RowsOf(JobOf[want.request]) IN
  same = {} \/ \E i \in same : ledger[i].budget = want.budget
                                 /\ ledger[i].request = want.request

CanReserve(i, want) ==
  /\ Within(want.usage, LimitOf[want.budget])
  /\ ledger[i] = None
  /\ JobAgrees(want)
  /\ FitsSum(want)

CanReplay(i, want) ==
  /\ Within(want.usage, LimitOf[want.budget])
  /\ ledger[i] # None
  /\ SameReservation(ledger[i], want)

Reserved(i, want) ==
  [ledger EXCEPT ![i] = [request |-> want.request, budget |-> want.budget,
                         reserved |-> want.usage, status |-> "RESERVED", actual |-> None]]

(* finalize, the first time or again with the same usage.                   *)
CanFinalize(i, request, actual) ==
  /\ ledger[i] # None
  /\ ledger[i].request = request
  /\ IF ledger[i].status = "FINALIZED" THEN ledger[i].actual = actual
     ELSE Within(actual, ledger[i].reserved) /\ Within(actual, LimitOf[ledger[i].budget])

Finalized(i, actual) ==
  [ledger EXCEPT ![i] = [@ EXCEPT !.status = "FINALIZED", !.actual = actual]]

-----------------------------------------------------------------------------
(* Whatever is reserved, finalized, repeated or abandoned, in any order,    *)
(* all rows of a job are for one request and one budget, although each new  *)
(* one is compared with a single earlier one, and the job is never charged  *)
(* more than that budget allows.                                            *)
BudgetRespected ==
  \A i, j \in Ids :
    /\ ledger[i] # None /\ ledger[j] # None
    /\ JobOf[ledger[i].request] = JobOf[ledger[j].request]
    => /\ ledger[i].request = ledger[j].request /\ ledger[i].budget = ledger[j].budget
       /\ Within(ScopeUsage(JobOf[ledger[i].request]), LimitOf[ledger[i].budget])

=============================================================================
