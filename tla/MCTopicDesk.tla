----------------------------- MODULE MCTopicDesk -----------------------------
(* Instances of TopicDesk for TLC. *)
EXTENDS TopicDesk, TLC

CONSTANTS t1, t2

OneTopic == {t1}
TwoTopics == {t1, t2}
SingleScore == t1 :> 1
Ascending == t1 :> 1 @@ t2 :> 2

=============================================================================
