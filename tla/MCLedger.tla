------------------------------- MODULE MCLedger -------------------------------
(* Instances of Ledger for TLC. *)
EXTENDS Ledger, TLC

Ev(t, r, n, f) == [type |-> t, ref |-> r, amount |-> n, fee |-> f]

\* A refund that is created and fails, an event that posts nothing and one that cannot.
FailedRefund ==
  [created     |-> Ev("refund.created", "re", 2, 0),
   failed      |-> Ev("refund.failed", "re", 2, 0),
   authorized  |-> Ev("payment.authorized", "pay", 1, 0),
   overcharged |-> Ev("payment.captured", "pay", 1, 2)]
FailedRefundEvents == DOMAIN FailedRefund

\* An adjustment, and a reversal of the pending refund with a wrong amount.
ManualDrafts ==
  {[entries |-> <<Debit("merchant_payable", 1), Credit("refund_clearing", 1)>>,
    reversalOf |-> None],
   [entries |-> <<Credit("merchant_payable", 1), Debit("refund_clearing", 1)>>,
    reversalOf |-> "created"]}

ConsumersAlike == Permutations(Consumers)
=============================================================================
