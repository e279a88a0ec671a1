-------------------------- MODULE MCReconciliation --------------------------
(* A payment that one file names twice; another file names a payment that  *)
(* has no record; and both name a refund, which has none either.           *)
EXTENDS Reconciliation, TLC

MCEvents ==
    "p1" :> <<[seq |-> 2, status |-> "authorized", amount |-> 2],
              [seq |-> 3, status |-> "captured", amount |-> 2]>>

MCLines ==
    "f1" :> <<[ref |-> "p1", type |-> "payment", amount |-> 2],
              [ref |-> "p1", type |-> "fee", amount |-> 1],
              [ref |-> "p1", type |-> "payment", amount |-> 2],
              [ref |-> "r1", type |-> "refund", amount |-> 1]>>
 @@ "f2" :> <<[ref |-> "p2", type |-> "payment", amount |-> 2],
              [ref |-> "r1", type |-> "refund", amount |-> 1]>>

MCSymmetry == Permutations(Importers) \cup Permutations(Operators)

=============================================================================
