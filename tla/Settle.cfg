CONSTANTS
  Creators = {"new1"}
  Confirmers = {"conf1"}
  Capturers = {"cap1"}
  Voiders = {"void1"}
  Refunders = {ref1, ref1again, ref2}
  Twins = {ref1, ref1again}
  RefundKeys = {"k1", "k2"}
  RefundKey <- RefundKeyOf
  Candidates <- OneProvider
  MaxAttempts = 1
  MaxResolve = 1
  Linearizable = TRUE
  Amount = 2
SPECIFICATION Spec
SYMMETRY MCSymmetry
INVARIANT CapturedMatchesPsp
INVARIANT VoidedIsVoidAtPsp
INVARIANT RefundCountersMatch
INVARIANT RefundsBackedByPsp
INVARIANT RefundTx2NeverRejected
INVARIANT LogMatchesRow
INVARIANT CopiesAreStaleOrCurrent
PROPERTY ImplementsLifecycle
CHECK_DEADLOCK FALSE
