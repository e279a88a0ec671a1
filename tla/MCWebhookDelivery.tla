------------------------- MODULE MCWebhookDelivery --------------------------
(***************************************************************************)
(* Small instances of WebhookDelivery for TLC.                             *)
(***************************************************************************)
EXTENDS WebhookDelivery

\* Every endpoint subscribes to every event.
AllSubscriptions == Events \X Endpoints

\* Both calls of the merchant carry the same Idempotency-Key.
SameKey == [r \in Retriers |-> "k"]
=============================================================================
