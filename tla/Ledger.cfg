\* Two consumer threads and an operator on one refund: J-REF-PEND and J-REF-FAIL lock the
\* same two accounts in opposite orders, and the operator may reverse or adjust.
SPECIFICATION Spec
CONSTANTS
  None = None
  Consumers = {c1, c2}
  Operators = {o1}
  Events <- FailedRefundEvents
  EventData <- FailedRefund
  Keys = {k1}
  Drafts <- ManualDrafts
  Opened = {"merchant_payable"}
  MaxRetries = 1
  RefundChargebackFeeOnWin = TRUE
SYMMETRY ConsumersAlike
INVARIANT TypeOK
INVARIANT TemplatesBalance
INVARIANT NoBalanceDrift
INVARIANT ProcessedMeansPosted
INVARIANT ClearingIsEmptied
INVARIANT ReversalsCancelOut
