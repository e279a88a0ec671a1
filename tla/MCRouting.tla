----------------------------- MODULE MCRouting -----------------------------
(* A preferred provider and a fallback. *)
EXTENDS Routing

MCOrder == <<"stripe", "mock">>

=============================================================================
