SPECIFICATION MCSpec
CONSTANTS
  Candidates = {1, 2, 3, 4, 5}
  Profile <- FiveRoutes
  Attempts <- ThreeEndings
  MaxEvents = 3
  MaxTime = 2
  None = None
  Commands <- FourCommands
  Policies <- ThreePolicies
  StaticBindings <- StaticTable
  Rules <- FourRules
  Bindings <- FewBindings
  Writers = {w1, w2}
  Calls = {c1, c2, c3}
  Keys = {1, 2}
  Digests = {1, 2}
  Absent = Absent
SYMMETRY Symmetry
INVARIANTS
  OneWorkflowPerKey
  AcceptedIsRunning
  CircuitFollowsOccurrence
  HistoryNeverBlocksPlanning
  RankingRespectsDominance
  PolicyPlanFreezes
  AttemptsAreCovered
  RevisionHasOneContent
CHECK_DEADLOCK FALSE
