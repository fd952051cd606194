SPECIFICATION Spec
CONSTANTS
  MaxTask = 1
  Runners = {r1, r2}
  Scopes = {s1}
  Capabilities = {k1}
  Challenges = {c1, c2}
  TTL = 1
  MaxTime = 4
  LeaseTime = 2
  Results = {ok, bad}
  Reordering = FALSE
  None = None
  ScopeOf <- OneScope
  CapabilityOf <- OneCapability
  DeadlineOf <- LateDeadlines
SYMMETRY Symmetry
INVARIANTS
  ReceiptFromHolder
  PostEffectNotRetried
  EffectAtMostOnce
CHECK_DEADLOCK FALSE
