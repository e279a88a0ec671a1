\* A payment's events in any order, two files that name the same refund, two importers
\* and two operators.
SPECIFICATION Spec
CONSTANTS
  Payments = {"p1"}
  EventsOf <- MCEvents
  Files = {"f1", "f2"}
  LinesOf <- MCLines
  Odd = {"f1"}
  Importers = {i1, i2}
  Operators = {o1, o2}
  MaxVersion = 1
SYMMETRY MCSymmetry
INVARIANT TypeOK
INVARIANT ImportedOnce
INVARIANT RecordIsNewest
INVARIANT LinesAccounted
INVARIANT ResolvedOnce
\* Every event projected, every file imported, every discrepancy closed: nothing is left to do.
CHECK_DEADLOCK FALSE
