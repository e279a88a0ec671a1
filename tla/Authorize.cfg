CONSTANTS
  Creators = {"new1", "new2"}
  Confirmers = {"conf1"}
  Capturers = {"cap1"}
  Voiders = {}
  Refunders = {}
  Twins = {}
  RefundKeys = {}
  RefundKey <- RefundKeyOf
  Candidates <- TwoProviders
  MaxAttempts = 2
  MaxResolve = 1
  Linearizable = FALSE
  Amount = 1
SPECIFICATION FairSpec
INVARIANT TypeOK
INVARIANT AttemptDiscipline
INVARIANT OneSagaPerKey
PROPERTY CallsReturn
CHECK_DEADLOCK FALSE
