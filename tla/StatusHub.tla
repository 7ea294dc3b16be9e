----------------------------- MODULE StatusHub -----------------------------
(***************************************************************************)
(* The WebSocket hub (backend/ws.py, and the endpoint in main.py): a       *)
(* watcher tells the connected clients when a status file has changed.     *)
(* All of it but reading the files runs on one event loop, where a         *)
(* coroutine goes on until it awaits; but the list of connections is       *)
(* guarded by a lock for threads.  A coroutine that asks for the lock      *)
(* while another holds it across an await stops the loop for good: the     *)
(* other one cannot go on.                                                 *)
(***************************************************************************)
EXTENDS Integers, FiniteSets

CONSTANTS
    Sockets,            \* connections, each made once
    MaxConnections,
    MaxChanges          \* bound: changes of the status files

ASSUME HubAssumption == MaxConnections \in Nat /\ MaxChanges \in Nat

Versions == 0 .. MaxChanges
Never == -1

VARIABLES
    status,             \* the status files: how often they have changed
    conn,               \* where the coroutine of each client is
    listed,             \* the list of connections
    shown,              \* the status each client has got last
    watcher,            \* where the watcher is
    hashed,             \* the status whose hash it has stored
    built,              \* the status it is sending
    pending,            \* the clients it has still to send it to
    dead,               \* those sending to has failed for
    holder,             \* the clients whose coroutine holds the lock and awaits
    stuck,              \* whether the loop has stopped
    lost                \* history: the status last built in vain

hubVars == <<status, conn, listed, shown, watcher, hashed, built, pending, dead, holder,
             stuck, lost>>

HubTypeOK ==
    /\ status \in Versions
    /\ conn \in [Sockets -> {"away", "accepted", "refusing", "open", "leaving", "gone"}]
    /\ listed \subseteq Sockets /\ Cardinality(listed) <= MaxConnections
    /\ shown \in [Sockets -> Versions \union {Never}]
    /\ watcher \in {"asleep", "building", "built", "sending"}
    /\ hashed \in Versions \union {Never} /\ built \in Versions \union {Never}
    /\ pending \subseteq Sockets /\ dead \subseteq Sockets
    /\ holder \subseteq Sockets /\ Cardinality(holder) <= 1
    /\ stuck \in BOOLEAN
    /\ lost \in Versions \union {Never}

HubInit ==
    /\ status = 0
    /\ conn = [c \in Sockets |-> "away"]
    /\ listed = {}
    /\ shown = [c \in Sockets |-> Never]
    /\ watcher = "asleep"
    /\ hashed = Never /\ built = Never
    /\ pending = {} /\ dead = {}
    /\ holder = {} /\ stuck = FALSE
    /\ lost = Never

\* What happens when the lock is asked for.
Stops ==
    /\ holder # {}
    /\ stuck' = TRUE
    /\ UNCHANGED <<status, conn, listed, shown, watcher, hashed, built, pending, dead, holder,
                   lost>>
Unlocked == ~stuck /\ holder = {}

Moves(c, where) == conn' = [conn EXCEPT ![c] = where]
hubConstants == <<status, hashed, built, stuck, lost>>

-----------------------------------------------------------------------------
(* Connections *)

\* A client is accepted, with its key.
Accept(c) ==
    /\ ~stuck /\ conn[c] = "away"
    /\ Moves(c, "accepted")
    /\ UNCHANGED <<listed, shown, watcher, pending, dead, holder, hubConstants>>

\* Mutant of Register: the present status is not sent.
RegisterSilently(c) ==
    /\ ~stuck /\ conn[c] = "accepted"
    /\ \/ Stops
       \/ /\ Unlocked /\ Cardinality(listed) >= MaxConnections
          /\ Moves(c, "refusing") /\ holder' = {c}
          /\ UNCHANGED <<listed, shown, watcher, pending, dead, hubConstants>>
       \/ /\ Unlocked /\ Cardinality(listed) < MaxConnections
          /\ listed' = listed \union {c}
          /\ Moves(c, "open")
          /\ UNCHANGED <<shown, watcher, pending, dead, holder, hubConstants>>

\* It is listed, and in the same turn of the loop sent the present status, unless that
\* cannot be built; or there are too many, and its connection is being closed, with the
\* lock held.
Register(c) ==
    /\ ~stuck /\ conn[c] = "accepted"
    /\ \/ Stops
       \/ /\ Unlocked /\ Cardinality(listed) >= MaxConnections
          /\ Moves(c, "refusing") /\ holder' = {c}
          /\ UNCHANGED <<listed, shown, watcher, pending, dead, hubConstants>>
       \/ /\ Unlocked /\ Cardinality(listed) < MaxConnections
          /\ listed' = listed \union {c}
          /\ \/ Moves(c, "open") /\ shown' = [shown EXCEPT ![c] = status]
             \/ Moves(c, "leaving") /\ UNCHANGED shown
          /\ UNCHANGED <<watcher, pending, dead, holder, hubConstants>>

\* It is closed; sending it the status raises then.
Refused(c) ==
    /\ ~stuck /\ conn[c] = "refusing"
    /\ holder' = {}
    /\ Moves(c, "leaving")
    /\ UNCHANGED <<listed, shown, watcher, pending, dead, hubConstants>>

\* A client goes, or is lost.
Leave(c) ==
    /\ ~stuck /\ conn[c] = "open"
    /\ Moves(c, "leaving")
    /\ UNCHANGED <<listed, shown, watcher, pending, dead, holder, hubConstants>>

\* Its coroutine ends.
Disconnect(c) ==
    /\ ~stuck /\ conn[c] = "leaving"
    /\ \/ Stops
       \/ /\ Unlocked
          /\ listed' = listed \ {c}
          /\ Moves(c, "gone") /\ shown' = [shown EXCEPT ![c] = Never]
          /\ UNCHANGED <<watcher, pending, dead, holder, hubConstants>>

-----------------------------------------------------------------------------
(* The watcher *)

StatusChanges ==
    /\ status < MaxChanges
    /\ status' = status + 1
    /\ UNCHANGED <<conn, listed, shown, watcher, hashed, built, pending, dead, holder, stuck,
                   lost>>

unchangedByWatcher == <<status, conn>>

\* Somebody listens and the files have changed: the hash is stored first.
Watch ==
    /\ ~stuck /\ watcher = "asleep"
    /\ listed # {} /\ hashed # status
    /\ hashed' = status
    /\ watcher' = "building"
    /\ UNCHANGED <<listed, shown, built, pending, dead, holder, stuck, lost, unchangedByWatcher>>

\* A thread reads the files; or it fails, and the watcher sleeps on.
Build ==
    /\ watcher = "building"
    /\ \/ built' = status /\ watcher' = "built" /\ UNCHANGED lost
       \/ lost' = hashed /\ watcher' = "asleep" /\ UNCHANGED built
    /\ UNCHANGED <<listed, shown, hashed, pending, dead, holder, stuck, unchangedByWatcher>>

\* broadcast: the list is copied under the lock ...
Broadcast ==
    /\ ~stuck /\ watcher = "built"
    /\ \/ Stops
       \/ /\ Unlocked
          /\ pending' = listed
          /\ watcher' = IF listed = {} THEN "asleep" ELSE "sending"
          /\ UNCHANGED <<listed, shown, hashed, built, dead, holder, stuck, lost, unchangedByWatcher>>

\* ... sent to one after the other ...
Send(c) ==
    /\ ~stuck /\ watcher = "sending" /\ c \in pending
    /\ pending' = pending \ {c}
    /\ IF conn[c] = "open"
       THEN shown' = [shown EXCEPT ![c] = built] /\ UNCHANGED dead
       ELSE dead' = dead \union {c} /\ UNCHANGED shown
    /\ UNCHANGED <<listed, watcher, hashed, built, holder, stuck, lost, unchangedByWatcher>>

\* ... and those it failed for are taken off the list, for which the lock is needed again.
Sent ==
    /\ ~stuck /\ watcher = "sending" /\ pending = {}
    /\ \/ dead # {} /\ Stops
       \/ /\ dead = {} \/ Unlocked
          /\ listed' = listed \ dead
          /\ dead' = {}
          /\ watcher' = "asleep"
          /\ UNCHANGED <<shown, hashed, built, pending, holder, stuck, lost, unchangedByWatcher>>

SocketStep(c) == Register(c) \/ Refused(c) \/ Disconnect(c)
WatcherStep == Watch \/ Build \/ Broadcast \/ (\E c \in Sockets : Send(c)) \/ Sent
HubStep ==
    \/ WatcherStep \/ StatusChanges
    \/ \E c \in Sockets : Accept(c) \/ SocketStep(c) \/ Leave(c)

\* The dashboard is restarted.
HubRestarts ==
    /\ conn' = [c \in Sockets |-> IF conn[c] = "away" THEN "away" ELSE "gone"]
    /\ shown' = [c \in Sockets |-> Never]
    /\ listed' = {} /\ pending' = {} /\ dead' = {} /\ holder' = {}
    /\ watcher' = "asleep"
    /\ hashed' = Never /\ built' = Never /\ lost' = Never
    /\ stuck' = FALSE
    /\ UNCHANGED status

\* The hub by itself.  The loop runs every coroutine that can go on.
HubSpec ==
    /\ HubInit /\ [][HubStep]_hubVars
    /\ WF_hubVars(WatcherStep)
    /\ \A c \in Sockets : WF_hubVars(SocketStep(c))

-----------------------------------------------------------------------------
(* Properties *)

\* Once the watcher sleeps with the hash of the present status stored, every client that is
\* listed and not on its way out has got that status, also one that came meanwhile; only a
\* status that could not be built is passed over (_watch_status_files).
HashedIsShown ==
    watcher = "asleep" /\ hashed = status /\ lost # status =>
        \A c \in listed : conn[c] = "open" => shown[c] = status

\* What the module's documentation says, "Broadcasts status changes to all connected clients
\* when status files change", for a status that can be built.
ClientsGetStatus ==
    \A c \in Sockets : conn[c] = "open" ~>
        (conn[c] # "open" \/ shown[c] = status \/ lost = status)

=============================================================================
