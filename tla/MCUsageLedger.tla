--------------------------- MODULE MCUsageLedger ---------------------------
(* The requests of the run: one may fall back to a second model, the others may not. *)
EXTENDS UsageLedger
CONSTANTS k1, k2

MCChainOf == [k \in Keys |-> IF k = k1 THEN <<"mimo", "gpt">> ELSE <<"mimo">>]

=============================================================================
