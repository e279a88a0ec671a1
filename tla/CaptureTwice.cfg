CONSTANTS
  Creators = {"new1"}
  Confirmers = {}
  Capturers = {"cap1", "cap2"}
  Voiders = {}
  Refunders = {}
  RefundKeys = {}
  RefundKey <- RefundKeyOf
  Twins = {}
  Candidates <- OneProvider
  MaxAttempts = 1
  MaxResolve = 1
  Linearizable = FALSE
  Amount = 2
SPECIFICATION Spec
INVARIANT SameKeySameResult
CHECK_DEADLOCK FALSE
