-------------------------- MODULE MCIdempotencyKey --------------------------
(* Three clients share a key: two try one payload, one reuses the key for another. *)
EXTENDS IdempotencyKey, TLC

MCPayloads == "c1" :> "A" @@ "c2" :> "A" @@ "c3" :> "B"
MCTables == "A" :> "payments" @@ "B" :> "payments"

=============================================================================
