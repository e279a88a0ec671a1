-------------------------- MODULE MCPaymentService --------------------------
(***************************************************************************)
(* Small instances of PaymentService for TLC.                              *)
(***************************************************************************)
EXTENDS PaymentService, TLC

\* The refund calls that carry one and the same idempotency key.
CONSTANT Twins

\* One provider, or a first choice with one fallback.
OneProvider == <<"psp1">>
TwoProviders == <<"psp1", "psp2">>

RefundKeyOf == [r \in Refunders |-> IF r \in Twins THEN "k1" ELSE "k2"]

\* Refunds of one key differ in nothing but their name.
MCSymmetry == Permutations(Twins)
=============================================================================
