---------------------------- MODULE MCActionQueue ----------------------------
(* Instances of ActionQueue for TLC. *)
EXTENDS ActionQueue

\* One action of each way of being handled: a child process after a second
\* confirm file, a child process, the inline handler, and no handler at all.
EveryWay == {"confirm", "approve", "skip", "test_scout"}
OnlyConfirm == {"confirm"}

=============================================================================
