------------------------- MODULE MCMerchantService -------------------------
(* Small instances of MerchantService for TLC. *)
EXTENDS MerchantService, TLC

CONSTANTS c1, c2, k1, k2, e1, e2

\* Calls and generated ids are interchangeable.
Symmetry == Permutations({c1, c2}) \cup Permutations({k1, k2}) \cup Permutations({e1, e2})
=============================================================================
