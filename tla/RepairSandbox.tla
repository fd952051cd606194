----------------------------- MODULE RepairSandbox -----------------------------
(***************************************************************************)
(* Repair attempts: IsolatedRepairSandbox.generate_and_validate of         *)
(* src/cargomesh/repair/sandbox.py, any number of them at once, over the   *)
(* budget ledger.  An attempt is overtaken between the ledger's            *)
(* transactions, so each is an action, and so is the call of the model.    *)
(* What the model and the gates do is external; an attempt sees it as      *)
(* success with some usage, or as failure.  Each use of the ledger may     *)
(* also raise because the store is unavailable, leaving it as it was.      *)
(***************************************************************************)
EXTENDS RepairBudget

CONSTANT Attempts     \* calls of generate_and_validate

VARIABLES
  pc,          \* per call: what it does next
  call,        \* per call: its attempt id and what it asks for
  invoked      \* the calls that have called the model

vars == <<ledger, pc, call, invoked>>

Calls == [id: Ids, request: Requests, budget: Budgets, usage: Usages]

ASSUME CallNone == None \notin Calls

Init ==
  /\ ledger = [i \in Ids |-> None]
  /\ pc = [a \in Attempts |-> "idle"]
  /\ call = [a \in Attempts |-> None]
  /\ invoked = {}

Goto(a, label) == pc' = [pc EXCEPT ![a] = label]

Want(a) == [request |-> call[a].request, budget |-> call[a].budget, usage |-> call[a].usage]

(* The reservation is looked up within the job; the base package was valid. *)
Replayed(i, request) ==
  ledger[i] # None /\ JobOf[ledger[i].request] = JobOf[request]

Begin(a, i, want) ==
  /\ pc[a] = "idle"
  /\ call' = [call EXCEPT ![a] = [id |-> i, request |-> want.request,
                                  budget |-> want.budget, usage |-> want.usage]]
  /\ \/ Goto(a, IF Replayed(i, want.request) THEN "replayed" ELSE "checked")
     \/ Goto(a, "refused")
  /\ UNCHANGED <<ledger, invoked>>

(* reserve_before_use: a new row, an equal one, or a RepairBudgetError.     *)
Reserve(a) ==
  LET i == call[a].id IN
  /\ pc[a] = "checked"
  /\ \/ /\ CanReserve(i, Want(a))
        /\ ledger' = Reserved(i, Want(a))
        /\ Goto(a, "reserved")
     \/ /\ CanReplay(i, Want(a))
        /\ Goto(a, "reserved")
        /\ UNCHANGED ledger
     \/ /\ Goto(a, "refused")
        /\ UNCHANGED ledger
  /\ UNCHANGED <<call, invoked>>

(* The model is called; its answer, or a gate, may turn out invalid.        *)
Propose(a) ==
  /\ pc[a] = "reserved"
  /\ invoked' = invoked \cup {a}
  /\ Goto(a, "answered") \/ Goto(a, "failing")
  /\ UNCHANGED <<ledger, call>>

(* The usage measured is finalized; a RepairBudgetError is a failure.       *)
Finalize(a, actual) ==
  /\ pc[a] = "answered"
  /\ \/ /\ CanFinalize(call[a].id, call[a].request, actual)
        /\ ledger' = Finalized(call[a].id, actual) /\ Goto(a, "done")
     \/ UNCHANGED ledger /\ Goto(a, "failing")
  /\ UNCHANGED <<call, invoked>>

(* Fault: a failed attempt is given back.                                   *)
ConservativeUsageFault(a) == [f \in Fields |-> 0]

ConservativeUsage(a) == call[a].usage

(* _finalize_conservatively: everything reserved counts as used; an error   *)
(* is swallowed, and the row stays as it was.                               *)
FinalizeConservatively(a) ==
  /\ pc[a] = "failing"
  /\ \/ /\ CanFinalize(call[a].id, call[a].request, ConservativeUsage(a))
        /\ ledger' = Finalized(call[a].id, ConservativeUsage(a))
     \/ UNCHANGED ledger
  /\ Goto(a, "failed")
  /\ UNCHANGED <<call, invoked>>

Crash(a) ==
  /\ pc[a] \in {"checked", "reserved", "answered", "failing"}
  /\ Goto(a, "dead")
  /\ UNCHANGED <<ledger, call, invoked>>

Next ==
  \E a \in Attempts :
    \/ \E i \in Ids, want \in Wants : Begin(a, i, want)
    \/ Reserve(a)
    \/ Propose(a)
    \/ \E actual \in Usages : Finalize(a, actual)
    \/ FinalizeConservatively(a)
    \/ Crash(a)

Spec == Init /\ [][Next]_vars

-----------------------------------------------------------------------------
(* A model is called only on a reservation that stands in the ledger, for   *)
(* the request, budget and usage of the call.                               *)
ReservedBeforeUse ==
  \A a \in Attempts : a \in invoked \/ pc[a] = "reserved" =>
    /\ ledger[call[a].id] # None
    /\ ledger[call[a].id].request = call[a].request
    /\ ledger[call[a].id].budget = call[a].budget
    /\ ledger[call[a].id].reserved = call[a].usage

(* Some call under this attempt id was settled with the usage it measured.  *)
Succeeded(i) == \E b \in Attempts : pc[b] = "done" /\ call[b].id = i

(* A call that used the model and did not succeed stays charged with all it *)
(* reserved, however it ended: the failure was settled, settling it failed  *)
(* too, the process died, another call of the same attempt took part.  Only *)
(* a call that succeeded under the same id may have lowered the charge.     *)
FailedIsCharged ==
  \A a \in invoked : ~Succeeded(call[a].id) =>
    Charged(ledger[call[a].id]) = call[a].usage

(* board-12-acceptance.md:15-17: "SQLite reserves budget before every       *)
(* unique attempt, ... and rejects replay": the model is called once on a   *)
(* reservation.                                                             *)
OneCallPerReservation ==
  \A a, b \in invoked : a # b => call[a].id # call[b].id

=============================================================================
