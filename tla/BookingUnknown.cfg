SPECIFICATION BookingSpec
CONSTANTS
  t1 = t1
  t2 = t2
  r1 = r1
  None = None
  Txns = {t1, t2}
  RefOf <- OneRef
  Inputs <- FiveInputs
  Secrets = {"api_key", "client_id"}
  RequiredLevel = 2
  Claims = {"booking.external_reference", "booking.status"}
  Fold <- AnyFold
  MaxAge = 1
  Skew = 1
  MaxAttempts = 2
  MaxTime = 2
INVARIANTS
  UnknownEffectReconciled
CHECK_DEADLOCK FALSE
