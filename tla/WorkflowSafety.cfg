SPECIFICATION WorkflowSpec
CONSTANTS
  MaxSteps = 3
  ErrorCodes = {"e1", "e2"}
  Decisions = {yes, no}
  Approving = {yes}
  NoDecision = NoDecision
  LateEffects = FALSE
  Plans <- AllPlans
INVARIANTS
  NoInvalidTransition
  ApprovedBeforeCall
  UnknownEffectLeftAlone
  FallbackIsSafe
PROPERTIES
  ImplementsOutcome
