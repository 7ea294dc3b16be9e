---------------------------- MODULE MCDashboard ----------------------------
(* Threads and settings are alike. *)
EXTENDS Dashboard

Symmetry == Permutations(Requests) \union Permutations(Keys)

=============================================================================
