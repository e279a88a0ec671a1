\* Two providers, one outage, two CreatePayment calls at a time.
SPECIFICATION Spec
CONSTANTS
  Order <- MCOrder
  Sagas = {"s1", "s2"}
  Threshold = 2
  MaxAttempts = 3
  MaxOutages = 1
PROPERTY ProvidersComeBack
CHECK_DEADLOCK FALSE
