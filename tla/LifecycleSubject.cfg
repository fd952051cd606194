SPECIFICATION LifecycleSpec
CONSTANTS
  Candidates = {x, y, bad}
  Sound = {x, y}
  Callers = {k1}
  MinObservations = 2
  MinSuccessPpm = 666666
  Million = 1000000
  MaxCount = 3
  Base = base
INVARIANTS
  DeployedWasApproved
CHECK_DEADLOCK FALSE
