-------------------------- MODULE TransactionOutcome --------------------------
(***************************************************************************)
(* What a transaction promises to whoever submitted it, without steps in   *)
(* flight, signals, retries or statuses on the way: external writes happen *)
(* in plan order, are taken back in the opposite order, and the outcome    *)
(* that is finally reported tells which of the two was done.               *)
(***************************************************************************)
EXTENDS Naturals

CONSTANTS
  Steps        \* positions of steps

VARIABLES
  writes,      \* the steps of the submitted plan that write
  undoable,    \* the writes that declare a compensation
  outcome,     \* "OPEN" or the terminal status
  effect       \* per step: "absent", "present" or "undone"

Init ==
  /\ writes \in SUBSET Steps
  /\ undoable \in SUBSET writes
  /\ outcome = "OPEN"
  /\ effect = [s \in Steps |-> "absent"]

(* A write happens only on top of all the earlier ones.                     *)
Write(s) ==
  /\ s \in writes
  /\ \A t \in writes : t < s => effect[t] = "present"
  /\ \A t \in Steps : effect[t] # "undone"
  /\ effect' = [effect EXCEPT ![s] = "present"]

(* The latest undoable write is the one taken back.                         *)
Undo(s) ==
  /\ s \in undoable
  /\ effect[s] = "present"
  /\ \A t \in undoable : t > s => effect[t] # "present"
  /\ effect' = [effect EXCEPT ![s] = "undone"]

Honest(o, e) ==
  /\ o \in {"CANCELLED", "REJECTED", "COMPENSATED"} => \A s \in Steps : e[s] # "present"
  /\ o = "EXECUTED_UNVERIFIED" => \A s \in writes : e[s] = "present"
  /\ o \in {"VERIFIED", "NEEDS_REVIEW"} => \A s \in Steps : e[s] # "undone"

Outcomes == {"EXECUTED_UNVERIFIED", "VERIFIED", "NEEDS_REVIEW", "COMPENSATED",
             "REJECTED", "HALTED", "CANCELLED"}

Next ==
  /\ outcome = "OPEN"
  /\ UNCHANGED <<writes, undoable>>
  /\ (\E s \in Steps : Write(s) \/ Undo(s)) \/ UNCHANGED effect
  /\ \/ outcome' = "OPEN"
     \/ outcome' \in Outcomes /\ Honest(outcome', effect')

Spec == Init /\ [][Next]_<<writes, undoable, outcome, effect>>
=============================================================================
