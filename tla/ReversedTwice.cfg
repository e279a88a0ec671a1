SPECIFICATION Spec
CONSTANTS
  None = None
  Consumers = {c1}
  Operators = {o1}
  Events <- FailedRefundEvents
  EventData <- FailedRefund
  Keys = {k1}
  Drafts = {}
  Opened = {}
  MaxRetries = 0
  RefundChargebackFeeOnWin = TRUE
INVARIANT
  ReversedOnce
