---------------------------- MODULE VersionStore ----------------------------
(***************************************************************************)
(* What the versions of a prompt promise their callers, without threads,   *)
(* locks, transactions and cache: a call that returns has taken effect in  *)
(* one step, one that raises or dies has had none.  What a call saw before *)
(* that step binds nobody: the version it activates or deletes may be gone *)
(* by then, or have become the active one.                                 *)
(***************************************************************************)

CONSTANTS Versions, Texts, NoText

VARIABLES
    rows,               \* the text of each version, or NoText
    active,             \* the versions in use
    saved               \* what callers were told is there

vars == <<rows, active, saved>>

Init ==
    /\ rows = [v \in Versions |-> NoText]
    /\ active = {}
    /\ saved = {}

\* The text becomes a version with a number nobody has, and the only one in use.
Save(v, t) ==
    /\ rows[v] = NoText
    /\ rows' = [rows EXCEPT ![v] = t]
    /\ active' = {v}
    /\ saved' = saved \union {<<v, t>>}

\* The version becomes the only one in use, if it is there.
Activate(v) ==
    /\ active' = {w \in {v} : rows[w] # NoText}
    /\ UNCHANGED <<rows, saved>>

Delete(v) ==
    /\ rows' = [rows EXCEPT ![v] = NoText]
    /\ active' = active \ {v}
    /\ saved' = {s \in saved : s[1] # v}

Next ==
    \E v \in Versions :
        \/ \E t \in Texts : Save(v, t)
        \/ Activate(v)
        \/ Delete(v)

Spec == Init /\ [][Next]_vars

=============================================================================
