------------------------------- MODULE MCLiveness ------------------------------
(***************************************************************************)
(* What must happen in the end: to a transaction, and to a task in the     *)
(* runners' queue.  The two share no state, so a behaviour is about the    *)
(* one or the other; the other stands still, which its properties allow:   *)
(* a plan that may wait for ever, a store without tasks.                   *)
(***************************************************************************)
EXTENDS MCTransactionWorkflow, MCRunnerTasks

VARIABLE about

(* A plan whose approval has a timeout, and one that may wait for ever.     *)
TimedPlan == Plan(<<Read, Permanent>>, TRUE, 2)
PatientPlan == Plan(<<Plain, Approved>>, FALSE, 0)
LivePlans == {TimedPlan, PatientPlan}

LivenessInit ==
  /\ about \in {"transaction", "task"}
  /\ WorkflowInit /\ Init
  /\ about = "task" => plan = PatientPlan

LivenessNext ==
  \/ about = "transaction" /\ LateWorkflowNext /\ UNCHANGED <<about, vars>>
  \/ about = "task" /\ Next /\ UNCHANGED <<about, workflowVars>>

(* The fairness of both modules.                                            *)
LivenessSpec ==
  /\ LivenessInit /\ [][LivenessNext]_<<about, vars, workflowVars>>
  /\ WF_workflowVars(about = "transaction" /\ Progress /\ UNCHANGED <<about, vars>>)
  /\ WF_vars(about = "task" /\ Poll /\ UNCHANGED <<about, workflowVars>>)
  /\ WF_vars(about = "task" /\ Clock /\ UNCHANGED <<about, workflowVars>>)
=============================================================================
