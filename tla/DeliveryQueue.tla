---------------------------- MODULE DeliveryQueue ----------------------------
(***************************************************************************)
(* What queue/actions/ promises its clients, without its scanner: a file   *)
(* once queued leaves the queue only after a handler was started for it,   *)
(* or by being set aside in a failure directory.  It may be handled more   *)
(* than once.                                                              *)
(***************************************************************************)

CONSTANT Files          \* the names an action file can have

VARIABLES
    queued,             \* files waiting in the queue
    delivered,          \* files for which a handler was started at least once
    retired,            \* files moved to processed/
    rejected            \* files moved to a failure directory

vars == <<queued, delivered, retired, rejected>>

Init ==
    /\ queued = {}
    /\ delivered = {}
    /\ retired = {}
    /\ rejected = {}

Enqueue(f) ==
    /\ queued' = queued \union {f}
    /\ UNCHANGED <<delivered, retired, rejected>>

Deliver(f) ==
    /\ f \in queued
    /\ delivered' = delivered \union {f}
    /\ UNCHANGED <<queued, retired, rejected>>

Retire(f) ==
    /\ f \in queued \intersect delivered
    /\ queued' = queued \ {f}
    /\ retired' = retired \union {f}
    /\ UNCHANGED <<delivered, rejected>>

Reject(F) ==
    /\ F \subseteq queued
    /\ queued' = queued \ F
    /\ rejected' = rejected \union F
    /\ UNCHANGED <<delivered, retired>>

Next ==
    \/ \E f \in Files : Enqueue(f) \/ Deliver(f) \/ Retire(f)
    \/ \E F \in SUBSET Files : Reject(F)

Spec == Init /\ [][Next]_vars

=============================================================================
