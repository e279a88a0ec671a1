CONSTANTS
  Events = {"ev1"}
  Endpoints = {"ep1"}
  Subscriptions <- AllSubscriptions
  Workers = {"w1", "w2"}
  Retriers = {"r1"}
  RetryKeys = {"k"}
  RetryKey <- SameKey
  MaxAttempts = 2
  MaxLookupErrors = 1
SPECIFICATION FairSpec
INVARIANT TypeOK
INVARIANT OneHolder
INVARIANT AttemptBudget
INVARIANT LogExplainsStatus
PROPERTY FinalUntilRetried
PROPERTY Settles
CHECK_DEADLOCK FALSE
