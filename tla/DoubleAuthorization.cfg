CONSTANTS
  Creators = {"new1"}
  Confirmers = {}
  Capturers = {}
  Voiders = {}
  Refunders = {}
  RefundKeys = {}
  RefundKey <- RefundKeyOf
  Twins = {}
  Candidates <- TwoProviders
  MaxAttempts = 2
  MaxResolve = 1
  Linearizable = TRUE
  Amount = 1
SPECIFICATION Spec
INVARIANT NoDoubleAuthorization
CHECK_DEADLOCK FALSE
