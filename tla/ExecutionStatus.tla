--------------------------- MODULE ExecutionStatus ---------------------------
(***************************************************************************)
(* The execution statuses of a transaction and the fail-closed transition  *)
(* table every runtime backend must go through                             *)
(* (src/cargomesh/runtime/state_machine.py).                               *)
(***************************************************************************)

Terminal == {"EXECUTED_UNVERIFIED", "VERIFIED", "NEEDS_REVIEW", "COMPENSATED",
             "REJECTED", "HALTED", "CANCELLED"}

Statuses == Terminal \cup {"ACCEPTED", "RUNNING", "WAITING_APPROVAL",
                           "COMPENSATING", "VERIFYING"}

(* "INVALID" stands for the InvalidExecutionTransition exception: workflow  *)
(* code that raises it never completes its workflow task.                  *)
INVALID == "INVALID"

AllowedTransitions ==
  [s \in Statuses \cup {INVALID} |->
     CASE s = "ACCEPTED" -> {"RUNNING", "CANCELLED", "HALTED"}
       [] s = "RUNNING" -> {"WAITING_APPROVAL", "COMPENSATING", "VERIFYING",
                            "EXECUTED_UNVERIFIED", "CANCELLED", "HALTED"}
       [] s = "WAITING_APPROVAL" -> {"RUNNING", "COMPENSATING", "REJECTED",
                                     "CANCELLED", "HALTED"}
       [] s = "COMPENSATING" -> {"COMPENSATED", "REJECTED", "HALTED", "CANCELLED"}
       [] s = "VERIFYING" -> {"VERIFIED", "NEEDS_REVIEW", "HALTED", "CANCELLED"}
       [] OTHER -> {}]

(* Fault: the table forgets that an approval may be followed by undoing.    *)
TransitionFault(current, target) ==
  IF target \in AllowedTransitions[current]
       /\ ~(current = "WAITING_APPROVAL" /\ target = "COMPENSATING")
  THEN target ELSE INVALID

Transition(current, target) ==
  IF target \in AllowedTransitions[current] THEN target ELSE INVALID

=============================================================================
