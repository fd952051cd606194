SPECIFICATION LivenessSpec
CONSTANTS
  MaxSteps = 2
  ErrorCodes = {"e1", "e2"}
  Decisions = {yes, no}
  Approving = {yes}
  NoDecision = NoDecision
  LateEffects = TRUE
  Plans <- LivePlans
  MaxTask = 2
  Runners = {r1}
  Scopes = {s1}
  Capabilities = {k1}
  Challenges = {c1}
  TTL = 1
  MaxTime = 3
  LeaseTime = 1
  Results = {ok}
  Reordering = FALSE
  None = None
  ScopeOf <- OneScope
  CapabilityOf <- OneCapability
  DeadlineOf <- EarlyDeadlines
PROPERTIES
  CancelCloses
  TimedPlansClose
  QueuedTaskSettles
CHECK_DEADLOCK FALSE
