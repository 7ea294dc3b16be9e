------------------------------ MODULE Recency ------------------------------
(***************************************************************************)
(* Keys in the order of their last use, the least recently used first: the *)
(* cached answers of language models by last_accessed (skills/llm.py), the *)
(* clients of the rate limiter by when they were last seen                 *)
(* (dashboard/backend/main.py).  A key is there once.                      *)
(***************************************************************************)
EXTENDS SequencesExt

Without(keys, k) ==
    IF k \in ToSet(keys) THEN RemoveAt(keys, CHOOSE i \in DOMAIN keys : keys[i] = k) ELSE keys

\* k is there and was used last.
Touched(keys, k) == Append(Without(keys, k), k)

\* The n least recently used keys are gone.
Dropped(keys, n) == SubSeq(keys, n + 1, Len(keys))

=============================================================================
