\* Two relays share the outbox of one payment; one of its events cannot be handled.
SPECIFICATION Spec
CONSTANTS
  Rows <- LifeRows
  TxOf <- LifeTx
  TypeOf <- LifeTypes
  Poison = {"authorized"}
  Relays = {"r1", "r2"}
  BatchSize = 2
  MaxRetries = 1
  HasDLQ = TRUE
  MaxFaults = 3
INVARIANT TypeOK
INVARIANT NothingLost
INVARIANT DuplicatesNeedFaults
PROPERTY EventsArrive
CHECK_DEADLOCK FALSE
