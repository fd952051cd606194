----------------------------- MODULE MCRunnerTasks -----------------------------
EXTENDS RunnerTasks, TLC

(* One task, or two of which the first may expire in the queue.             *)
OneScope == [t \in TaskIds |-> CHOOSE s \in Scopes : TRUE]
OneCapability == [t \in TaskIds |-> CHOOSE c \in Capabilities : TRUE]
LateDeadlines == [t \in TaskIds |-> MaxTime]
EarlyDeadlines == [t \in TaskIds |-> t]

(* Runners, challenges and results are interchangeable.                     *)
Symmetry == Permutations(Runners) \cup Permutations(Challenges)
              \cup Permutations(Results)
=============================================================================
