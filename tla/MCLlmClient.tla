---------------------------- MODULE MCLlmClient ----------------------------
(* The requests of the runs: the first may fall back to a second model. *)
EXTENDS LlmClient, TLC
CONSTANT k1

MCChainOf == [k \in Keys |-> IF k = k1 THEN <<"mimo", "gpt">> ELSE <<"mimo">>]

\* The other requests, the threads and the processes are alike.
MCSymmetry ==
    Permutations(Keys \ {k1}) \union Permutations(Threads) \union Permutations(Processes)

=============================================================================
