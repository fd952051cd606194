SPECIFICATION RepairSpec
CONSTANTS
  Ids = {i1, i2}
  Requests = {q1, q2, q3}
  JobOf <- TwoJobs
  Budgets = {b1, b2}
  LimitOf <- TwoLimits
  Fields = {"model_calls"}
  MaxUse = 2
  Attempts = {a1, a2, a3}
  None = None
  q1 = q1
  q2 = q2
  q3 = q3
  b1 = b1
  b2 = b2
  j1 = j1
  j2 = j2
  Candidates = {x, y, bad}
  Sound = {x, y}
  Callers = {k1, k2}
  MinObservations = 2
  MinSuccessPpm = 666666
  Million = 1000000
  MaxCount = 3
  Base = base
SYMMETRY Symmetry
INVARIANTS
  BudgetRespected
  FailedIsCharged
  ReleaseIsJustified
CHECK_DEADLOCK FALSE
