\* One slot for keys and one for endpoints, with two ids each, so that two creators can race for it.
SPECIFICATION Spec
CONSTANTS
  c1 = c1
  c2 = c2
  k1 = k1
  k2 = k2
  e1 = e1
  e2 = e2
  Calls = {c1, c2}
  KeyIds = {k1, k2}
  EndpointIds = {e1, e2}
  MaxAPIKeysPerMode = 1
  MaxWebhookEndpoints = 1
  Prefs = {"p"}
  MaxVersion = 2
SYMMETRY Symmetry
INVARIANT TypeOK
INVARIANT LimitsHold
PROPERTY NothingUndone
