-------------------------------- MODULE MCRepair -------------------------------
(***************************************************************************)
(* The repair of an adapter: the budget of its generation and the release  *)
(* of what was generated.  They share no state, so a behaviour is about    *)
(* the one or the other.                                                   *)
(***************************************************************************)
EXTENDS RepairSandbox, RepairLifecycle

CONSTANTS q1, q2, q3, b1, b2, j1, j2

VARIABLE about

(* q1 and q2 are two requests for one job, q3 is for another.               *)
TwoJobs == (q1 :> j1 @@ q2 :> j1 @@ q3 :> j2)

(* One budget is larger than the other.                                     *)
TwoLimits == (b1 :> [f \in Fields |-> 2] @@ b2 :> [f \in Fields |-> 3])

RepairInit == about \in {"sandbox", "lifecycle"} /\ Init /\ LifecycleInit

RepairNext ==
  \/ about = "sandbox" /\ Next /\ UNCHANGED <<about, lifecycleVars>>
  \/ about = "lifecycle" /\ LifecycleNext /\ UNCHANGED <<about, vars>>

RepairSpec == RepairInit /\ [][RepairNext]_<<about, vars, lifecycleVars>>

Symmetry ==
  Permutations(Ids) \cup Permutations(Attempts) \cup Permutations(Callers)
=============================================================================
