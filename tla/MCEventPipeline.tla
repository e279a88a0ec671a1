--------------------------- MODULE MCEventPipeline ---------------------------
(* Instances of EventPipeline for TLC: the events of one payment. *)
EXTENDS EventPipeline

\* Confirmation authorizes and captures in one transaction, then the payment is refunded.
LifeTx == [authorized |-> 1, captured |-> 1, refund |-> 2]
LifeTypes ==
  [authorized |-> "payment.authorized", captured |-> "payment.captured",
   refund     |-> "refund.created"]
LifeRows == DOMAIN LifeTx
=============================================================================
