\* Two tries of one payment and a third that reuses their key for another payment.
SPECIFICATION Spec
CONSTANTS
  Clients = {"c1", "c2", "c3"}
  PayloadOf <- MCPayloads
  TableOf <- MCTables
  MaxFaults = 2
INVARIANT TypeOK
INVARIANT OneForwarder
INVARIANT AnswersMatch
PROPERTY RetriesEnd
CHECK_DEADLOCK FALSE
