-------------------------- MODULE Dashboard_proofs --------------------------
(* Theorems about Dashboard, for every value of its constants. *)
EXTENDS Dashboard, Recency_proofs, FiniteSetTheorems, TLAPS

-----------------------------------------------------------------------------
(* The WebSocket hub *)

HubTyped ==
    /\ status \in Nat
    /\ hashed \in Nat \union {Never} /\ built \in Nat \union {Never}
    /\ conn \in [Sockets -> {"away", "accepted", "refusing", "open", "leaving", "gone"}]
    /\ shown \in [Sockets -> Nat \union {Never}]
    /\ listed \subseteq Sockets /\ pending \subseteq Sockets
    /\ watcher \in {"asleep", "building", "built", "sending"}

\* The hash is never ahead of the files, and what is sent is between the two.
HashIsBehind ==
    /\ hashed <= status /\ built <= status
    /\ watcher \in {"built", "sending"} => hashed <= built

\* Who has not got the status that is being sent is still to get it.
SentOrPending ==
    watcher = "sending" /\ built = status =>
        \A c \in listed : conn[c] = "open" => c \in pending \/ shown[c] = status

HubInv == HubTyped /\ HashIsBehind /\ SentOrPending /\ HashedIsShown

LEMMA NeverIsBefore == Never \in Int /\ Never \notin Nat /\ \A n \in Nat : Never <= n
BY DEF Never

\* A step of the connections: who is listed has been listed and open, or has got the status.
LEMMA ConnectionKeeps ==
    ASSUME HubInv, HubTyped', UNCHANGED <<status, hashed, built, watcher, pending, lost>>,
           \A c \in listed' : conn'[c] = "open" =>
               \/ c \in listed /\ conn[c] = "open" /\ shown'[c] = shown[c]
               \/ shown'[c] = status
    PROVE  HubInv'
<1>1. HashIsBehind'
  BY DEF HubInv, HashIsBehind
<1>2. SentOrPending' /\ HashedIsShown'
  BY DEF HubInv, SentOrPending, HashedIsShown
<1>3. QED
  BY <1>1, <1>2 DEF HubInv

LEMMA StopKeeps ==
    ASSUME HubInv, Stops
    PROVE  HubInv'
BY DEF HubInv, Stops, HubTyped, HashIsBehind, SentOrPending, HashedIsShown

LEMMA SocketKeeps ==
    ASSUME HubInv, NEW c \in Sockets, Accept(c) \/ SocketStep(c) \/ Leave(c)
    PROVE  HubInv'
<1> USE DEF HubInv
<1>1. CASE Stops
  BY <1>1, StopKeeps
<1>2. CASE ~Stops
  <2>1. /\ UNCHANGED <<status, hashed, built, watcher, pending, lost>>
        /\ listed' \in {listed, listed \union {c}, listed \ {c}}
        /\ \E where \in {"accepted", "refusing", "open", "leaving", "gone"} :
               conn' = [conn EXCEPT ![c] = where] /\ (where = "open" => shown'[c] = status)
        /\ \E s \in {status, Never, shown[c]} : shown' = [shown EXCEPT ![c] = s]
    <3>1. shown = [shown EXCEPT ![c] = shown[c]]
      BY DEF HubTyped
    <3>2. CASE Accept(c)
      BY <3>1, <3>2 DEF Accept, Moves, hubConstants
    <3>3. CASE Register(c)
      <4>1. \/ Moves(c, "refusing") /\ UNCHANGED <<listed, shown>>
            \/ /\ listed' = listed \union {c}
               /\ \/ Moves(c, "open") /\ shown' = [shown EXCEPT ![c] = status]
                  \/ Moves(c, "leaving") /\ UNCHANGED shown
        BY <1>2, <3>3 DEF Register
      <4>2. UNCHANGED <<status, hashed, built, watcher, pending, lost>>
        BY <1>2, <3>3 DEF Register, hubConstants
      <4>3. shown' = [shown EXCEPT ![c] = status] => shown'[c] = status
        BY DEF HubTyped
      <4>4. QED
        BY <3>1, <4>1, <4>2, <4>3 DEF Moves
    <3>4. CASE Refused(c)
      BY <3>1, <3>4 DEF Refused, Moves, hubConstants
    <3>5. CASE Disconnect(c)
      BY <1>2, <3>5 DEF Disconnect, Moves, hubConstants
    <3>6. CASE Leave(c)
      BY <3>1, <3>6 DEF Leave, Moves, hubConstants
    <3>7. QED
      BY <3>2, <3>3, <3>4, <3>5, <3>6 DEF SocketStep
  <2>2. HubTyped'
    BY <2>1 DEF HubTyped
  <2>3. ASSUME NEW d \in listed', conn'[d] = "open"
        PROVE  \/ d \in listed /\ conn[d] = "open" /\ shown'[d] = shown[d]
               \/ shown'[d] = status
    <3>1. CASE d = c
      BY <2>1, <2>3, <3>1 DEF HubTyped
    <3>2. CASE d # c
      BY <2>1, <2>3, <3>2 DEF HubTyped
    <3>3. QED
      BY <3>1, <3>2
  <2>4. QED
    BY <2>1, <2>2, <2>3, ConnectionKeeps
<1>3. QED
  BY <1>1, <1>2

LEMMA WatcherKeeps ==
    ASSUME HubInv, WatcherStep
    PROVE  HubInv'
<1> USE NeverIsBefore DEF HubInv
<1>1. CASE Stops
  BY <1>1, StopKeeps
<1>2. CASE Watch
  BY <1>2 DEF Watch, unchangedByWatcher, HubTyped, HashIsBehind, SentOrPending, HashedIsShown
<1>3. CASE Build
  BY <1>3 DEF Build, unchangedByWatcher, HubTyped, HashIsBehind, SentOrPending, HashedIsShown
<1>4. CASE Broadcast /\ ~Stops
  BY <1>4 DEF Broadcast, unchangedByWatcher, HubTyped, HashIsBehind, SentOrPending, HashedIsShown
<1>5. ASSUME NEW c \in Sockets, Send(c)
      PROVE  HubInv'
  <2>1. HubTyped' /\ HashIsBehind' /\ HashedIsShown'
    BY <1>5 DEF Send, unchangedByWatcher, HubTyped, HashIsBehind, HashedIsShown
  <2>2. SentOrPending'
    <3> SUFFICES ASSUME built = status, NEW d \in listed, conn[d] = "open"
                 PROVE  d \in pending' \/ shown'[d] = status
      BY <1>5 DEF Send, unchangedByWatcher, SentOrPending
    <3>1. d \in pending \/ shown[d] = status
      BY <1>5 DEF Send, SentOrPending
    <3>2. CASE d = c
      BY <1>5, <3>2 DEF Send, HubTyped
    <3>3. CASE d # c
      BY <1>5, <3>1, <3>3 DEF Send, HubTyped
    <3>4. QED
      BY <3>2, <3>3
  <2>3. QED
    BY <2>1, <2>2
<1>6. CASE Sent /\ ~Stops
  <2>1. UNCHANGED <<status, conn, shown, hashed, built, pending, lost>> /\ watcher = "sending"
        /\ watcher' = "asleep" /\ pending = {} /\ listed' \subseteq listed
    BY <1>6 DEF Sent, unchangedByWatcher
  <2>2. HubTyped' /\ HashIsBehind' /\ SentOrPending'
    BY <2>1 DEF HubTyped, HashIsBehind, SentOrPending
  <2>3. hashed = status => built = status
    BY <2>1 DEF HubTyped, HashIsBehind
  <2>4. HashedIsShown'
    BY <2>1, <2>3 DEF SentOrPending, HashedIsShown
  <2>5. QED
    BY <2>2, <2>4
<1>7. QED
  BY <1>1, <1>2, <1>3, <1>4, <1>5, <1>6 DEF WatcherStep

LEMMA HubStepKeeps ==
    ASSUME HubInv, HubStep \/ HubRestarts \/ UNCHANGED hubVars
    PROVE  HubInv'
<1> USE NeverIsBefore DEF HubInv
<1>1. CASE StatusChanges
  BY <1>1 DEF StatusChanges, HubTyped, HashIsBehind, SentOrPending, HashedIsShown
<1>2. CASE HubRestarts
  BY <1>2 DEF HubRestarts, HubTyped, HashIsBehind, SentOrPending, HashedIsShown
<1>3. CASE UNCHANGED hubVars
  BY <1>3 DEF hubVars, HubTyped, HashIsBehind, SentOrPending, HashedIsShown
<1>4. QED
  BY <1>1, <1>2, <1>3, SocketKeeps, WatcherKeeps DEF HubStep

LEMMA HubInitInv == HubInit => HubInv
BY NeverIsBefore DEF HubInit, HubInv, HubTyped, HashIsBehind, SentOrPending, HashedIsShown

-----------------------------------------------------------------------------
(* The limits *)

LimiterTyped ==
    /\ minute \in Nat
    /\ bucket \in [Clients -> [since : Int, count : Nat]]
    /\ served \in [Clients -> [0 .. Minutes -> Nat]]

\* What a client has been served, by its last bucket: it counts the minute it is of, and
\* was not begun after a full one.
Accounted(c) ==
    /\ bucket[c].since <= minute /\ bucket[c].count <= Limit
    /\ \A m \in 0 .. Minutes :
           /\ m > bucket[c].since => served[c][m] = 0
           /\ m = bucket[c].since => served[c][m] = bucket[c].count
           /\ m + 1 = bucket[c].since => served[c][m] < Limit
           /\ served[c][m] <= Limit
           /\ m - 1 \in 0 .. Minutes => served[c][m - 1] + served[c][m] < 2 * Limit

LimiterInv == LimiterTyped /\ \A c \in Clients \ forgotten : Accounted(c)

\* A client that is not forgotten, and nothing has happened to but that time has passed.
LEMMA SameAccount ==
    ASSUME LimiterInv, NEW c \in Clients \ forgotten, minute' \in Nat, minute <= minute',
           bucket'[c] = bucket[c], served'[c] = served[c]
    PROVE  Accounted(c)'
<1>1. bucket[c] \in [since : Int, count : Nat] /\ served[c] \in [0 .. Minutes -> Nat]
  BY DEF LimiterInv, LimiterTyped
<1>2. Accounted(c)
  BY DEF LimiterInv
<1>3. bucket[c].since <= minute'
  BY <1>1, <1>2 DEF Accounted, LimiterInv, LimiterTyped
<1>4. QED
  BY <1>2, <1>3 DEF Accounted

LEMMA Before ==
    ASSUME NEW n \in Nat, NEW k \in Int, k <= n
    PROVE  k = n \/ k = n - 1 \/ k < n - 1
OBVIOUS

LEMMA LetInKeeps ==
    ASSUME LimiterInv, NEW c \in Clients, LetIn(c), minute \in 0 .. Minutes
    PROVE  LimiterInv'
<1> USE GatewayAssumption
<1>1. PICK E, count :
        /\ count = IF bucket[c].since = minute THEN bucket[c].count + 1 ELSE 1
        /\ bucket' = [d \in Clients |-> IF d = c THEN [since |-> minute, count |-> count]
                                        ELSE IF d \in E THEN None ELSE bucket[d]]
        /\ forgotten' = forgotten \union E
        /\ served' = [d \in Clients |->
                        IF d \in forgotten' THEN Unserved
                        ELSE IF d = c THEN [served[d] EXCEPT ![minute] = @ + 1] ELSE served[d]]
  BY DEF LetIn
<1>2. minute' = minute /\ Allowed(c)
  BY DEF LetIn
<1>3. /\ bucket[c] \in [since : Int, count : Nat]
      /\ served \in [Clients -> [0 .. Minutes -> Nat]]
      /\ bucket \in [Clients -> [since : Int, count : Nat]]
      /\ minute \in Nat /\ served[c] \in [0 .. Minutes -> Nat]
  BY DEF LimiterInv, LimiterTyped
<1>4. count \in Nat
  BY <1>1, <1>3
<1>5. LimiterTyped'
  <2>1. Unserved \in [0 .. Minutes -> Nat] /\ None \in [since : Int, count : Nat]
    BY DEF Unserved, None
  <2>2. [served[c] EXCEPT ![minute] = @ + 1] \in [0 .. Minutes -> Nat]
    BY <1>3
  <2>3. served' \in [Clients -> [0 .. Minutes -> Nat]]
    BY <1>1, <1>3, <2>1, <2>2
  <2>4. [since |-> minute, count |-> count] \in [since : Int, count : Nat]
    BY <1>3, <1>4
  <2>5. bucket' \in [Clients -> [since : Int, count : Nat]]
    BY <1>1, <1>3, <2>1, <2>4
  <2>6. QED
    BY <1>2, <1>3, <2>3, <2>5 DEF LimiterTyped
<1>6. ASSUME NEW d \in Clients \ forgotten', d # c
      PROVE  Accounted(d)'
  <2>1. bucket'[d] = bucket[d] /\ served'[d] = served[d] /\ d \in Clients \ forgotten
    BY <1>1, <1>6
  <2>2. QED
    BY <1>2, <1>3, <2>1, SameAccount
<1>7. ASSUME c \notin forgotten'
      PROVE  Accounted(c)'
  <2>1. /\ bucket'[c].since = minute /\ bucket'[c].count = count
        /\ served'[c] = [served[c] EXCEPT ![minute] = @ + 1] /\ Accounted(c)
    BY <1>1, <1>7 DEF LimiterInv
  <2>2. count <= Limit /\ served[c][minute] + 1 = count
    <3>1. /\ count = IF bucket[c].since = minute THEN bucket[c].count + 1 ELSE 1
          /\ bucket[c].since = minute => bucket[c].count < Limit
      BY <1>1, <1>2 DEF Allowed
    <3>2. IF bucket[c].since = minute THEN served[c][minute] = bucket[c].count
                                      ELSE served[c][minute] = 0
      BY <1>3, <2>1 DEF Accounted
    <3>3. QED
      BY <1>3, <3>1, <3>2
  <2>3. ASSUME NEW m \in 0 .. Minutes, m # minute
        PROVE  served'[c][m] = served[c][m]
    BY <2>1, <2>3, <1>3
  <2>4. served'[c][minute] = count
    BY <1>3, <2>1, <2>2
  <2>5. minute - 1 \in 0 .. Minutes => served[c][minute - 1] < Limit
    <3> SUFFICES ASSUME minute - 1 \in 0 .. Minutes
                 PROVE  served[c][minute - 1] < Limit
      OBVIOUS
    <3>1. CASE bucket[c].since = minute
      BY <1>3, <2>1, <3>1 DEF Accounted
    <3>2. CASE bucket[c].since = minute - 1
      BY <1>2, <1>3, <2>1, <3>2 DEF Accounted, Allowed
    <3>3. CASE bucket[c].since < minute - 1
      <4>1. served[c][minute - 1] = 0
        BY <1>3, <2>1, <3>3 DEF Accounted
      <4>2. QED
        BY <4>1
    <3>4. bucket[c].since \in Int /\ bucket[c].since <= minute
      BY <1>3, <2>1 DEF Accounted
    <3>6. \/ bucket[c].since = minute \/ bucket[c].since = minute - 1
          \/ bucket[c].since < minute - 1
      BY <1>3, <3>4, Before
    <3>7. QED
      BY <3>1, <3>2, <3>3, <3>6
  <2>6. ASSUME NEW m \in 0 .. Minutes
        PROVE  /\ m > minute => served'[c][m] = 0
               /\ m = minute => served'[c][m] = count
               /\ m + 1 = minute => served'[c][m] < Limit
               /\ served'[c][m] <= Limit
               /\ m - 1 \in 0 .. Minutes => served'[c][m - 1] + served'[c][m] < 2 * Limit
    <3>1. /\ m > minute => served[c][m] = 0
          /\ served[c][m] <= Limit /\ served[c][m] \in Nat
          /\ m - 1 \in 0 .. Minutes => served[c][m - 1] + served[c][m] < 2 * Limit
                                      /\ served[c][m - 1] <= Limit /\ served[c][m - 1] \in Nat
      BY <1>3, <2>1 DEF Accounted
    <3>2. CASE m = minute
      <4>1. m - 1 \in 0 .. Minutes =>
                /\ served'[c][m - 1] = served[c][m - 1]
                /\ served[c][m - 1] < Limit /\ served[c][m - 1] \in Nat
        BY <1>3, <2>3, <2>5, <3>1, <3>2
      <4>2. QED
        BY <1>3, <1>4, <2>2, <2>4, <3>2, <4>1
    <3>3. CASE m = minute + 1
      BY <1>3, <1>4, <2>2, <2>3, <2>4, <3>1, <3>3
    <3>4. CASE m \notin {minute, minute + 1}
      <4>1. served'[c][m] = served[c][m]
        BY <2>3, <3>4
      <4>2. m - 1 \in 0 .. Minutes => served'[c][m - 1] = served[c][m - 1]
        BY <1>3, <2>3, <3>4
      <4>3. m + 1 = minute => m = minute - 1
        BY <1>3
      <4>4. QED
        BY <1>3, <2>5, <3>1, <3>4, <4>1, <4>2, <4>3
    <3>5. QED
      BY <3>2, <3>3, <3>4
  <2>7. QED
    BY <1>2, <1>3, <2>1, <2>2, <2>6 DEF Accounted
<1>8. QED
  BY <1>5, <1>6, <1>7 DEF LimiterInv

LEMMA LimiterKeeps ==
    ASSUME LimiterInv,
           MinutePasses \/ UNCHANGED limiterVars \/ GatewayRestarts
    PROVE  LimiterInv'
<1>1. CASE MinutePasses
  <2>1. minute' = minute + 1 /\ UNCHANGED <<bucket, served, forgotten>>
    BY <1>1 DEF MinutePasses
  <2>2. LimiterTyped' /\ minute <= minute'
    BY <2>1 DEF LimiterInv, LimiterTyped
  <2>3. \A c \in Clients \ forgotten' : Accounted(c)'
    BY <2>1, <2>2, SameAccount DEF LimiterTyped
  <2>4. QED
    BY <2>2, <2>3 DEF LimiterInv
<1>2. CASE UNCHANGED limiterVars
  BY <1>2 DEF limiterVars, LimiterInv, LimiterTyped, Accounted
<1>3. CASE GatewayRestarts
  BY <1>3 DEF GatewayRestarts, LimiterInv, LimiterTyped, None, Unserved
<1>4. QED
  BY <1>1, <1>2, <1>3

\* The processes the counter is for.
Tracked == {a \in Agents : agent[a] # "free"} \ stray

AgentInv ==
    /\ agent \in [Agents -> {"free", "reserved", "alive", "exited"}]
    /\ \A a \in stray : a \in Agents /\ agent[a] = "alive"
    /\ running \in Nat
    /\ Cardinality(Tracked) = running

LEMMA TrackedIsFinite == IsFiniteSet(Tracked) /\ Cardinality(Tracked) \in Nat
BY GatewayAssumption, FS_Subset, FS_CardinalityType DEF Tracked

LEMMA SameTracked ==
    ASSUME AgentInv, Tracked' = Tracked, running' = running,
           agent' \in [Agents -> {"free", "reserved", "alive", "exited"}],
           \A a \in stray' : a \in Agents /\ agent'[a] = "alive"
    PROVE  AgentInv'
BY DEF AgentInv

LEMMA OneLess ==
    ASSUME AgentInv, NEW a \in Tracked, Tracked' = Tracked \ {a}, Free,
           agent' \in [Agents -> {"free", "reserved", "alive", "exited"}],
           \A b \in stray' : b \in Agents /\ agent'[b] = "alive"
    PROVE  AgentInv'
<1>1. Cardinality(Tracked') = Cardinality(Tracked) - 1 /\ Cardinality(Tracked) \in Nat
      /\ Cardinality(Tracked') \in Nat
  BY TrackedIsFinite, FS_RemoveElement, FS_CardinalityType
<1>2. running' = running - 1
  BY <1>1 DEF AgentInv, Free
<1>3. QED
  BY <1>1, <1>2 DEF AgentInv

LEMMA AgentKeeps ==
    ASSUME AgentInv, NEW a \in Agents, Spawn(a) \/ SpawnFails(a) \/ Exit(a) \/ Release(a) \/ Rerun(a)
    PROVE  AgentInv'
<1> USE DEF AgentInv
<1>1. CASE Spawn(a)
  <2>1. Tracked' = Tracked
    BY <1>1 DEF Spawn, Tracked
  <2>2. QED
    BY <1>1, <2>1, SameTracked DEF Spawn
<1>2. CASE SpawnFails(a)
  <2>1. a \in Tracked /\ Tracked' = Tracked \ {a}
    BY <1>2 DEF SpawnFails, Tracked
  <2>2. QED
    BY <1>2, <2>1, OneLess DEF SpawnFails
<1>3. CASE Exit(a)
  <2>1. Tracked' = Tracked
    BY <1>3 DEF Exit, Tracked
  <2>2. QED
    BY <1>3, <2>1, SameTracked DEF Exit
<1>4. CASE Release(a)
  <2>1. a \in Tracked /\ Tracked' = Tracked \ {a}
    BY <1>4 DEF Release, Tracked
  <2>2. QED
    BY <1>4, <2>1, OneLess DEF Release
<1>5. CASE Rerun(a)
  <2>1. Tracked' = Tracked
    BY <1>5 DEF Rerun, Tracked
  <2>2. QED
    BY <1>5, <2>1, SameTracked DEF Rerun
<1>6. QED
  BY <1>1, <1>2, <1>3, <1>4, <1>5

LEMMA TriggerKeeps ==
    ASSUME AgentInv, NEW c \in Clients, NEW a \in Agents, Trigger(c, a)
    PROVE  AgentInv'
<1> USE DEF AgentInv
<1>1. CASE running < MaxAgents
  <2>1. agent[a] = "free" /\ agent' = [agent EXCEPT ![a] = "reserved"] /\ running' = running + 1
        /\ UNCHANGED stray
    BY <1>1 DEF Trigger
  <2>2. a \notin Tracked /\ Tracked' = Tracked \union {a}
    BY <2>1 DEF Tracked
  <2>3. Cardinality(Tracked') = Cardinality(Tracked) + 1
    BY <2>2, TrackedIsFinite, FS_AddElement
  <2>4. QED
    BY <2>1, <2>3
<1>2. CASE ~(running < MaxAgents)
  BY <1>2 DEF Trigger, Tracked
<1>3. QED
  BY <1>1, <1>2

LEMMA AgentsAtRestart ==
    ASSUME AgentInv, GatewayRestarts
    PROVE  AgentInv'
<1>1. Tracked' = {}
  BY DEF GatewayRestarts, Tracked
<1>2. Cardinality(Tracked') = 0
  BY <1>1, FS_EmptySet
<1>3. QED
  BY <1>2 DEF GatewayRestarts, AgentInv

LEMMA AgentStepKeeps ==
    ASSUME AgentInv, AgentStep \/ UNCHANGED agentVars
    PROVE  AgentInv'
<1>1. CASE UNCHANGED agentVars
  BY <1>1 DEF agentVars, AgentInv, Tracked
<1>2. ASSUME NEW c \in Clients, TriggerExpires(c)
      PROVE  AgentInv'
  BY <1>2 DEF TriggerExpires, AgentInv, Tracked
<1>3. QED
  BY <1>1, <1>2, AgentKeeps DEF AgentStep

-----------------------------------------------------------------------------
(* The theorems *)

InTime == minute \in 0 .. Minutes
DashboardInv == InTime /\ LimiterInv /\ AgentInv /\ HubInv

LEMMA InitInv == Init => DashboardInv
<1> SUFFICES ASSUME Init
             PROVE  DashboardInv
  OBVIOUS
<1> USE GatewayAssumption
<1>1. HubInv
  BY HubInitInv DEF Init
<1>2. InTime /\ LimiterTyped
  BY DEF Init, GatewayInit, InTime, LimiterTyped, None, Unserved
<1>3. \A c \in Clients : Accounted(c)
  BY DEF Init, GatewayInit, Accounted, None, Unserved
<1>4. AgentInv
  <2>1. Tracked = {} /\ running = 0 /\ stray = {}
        /\ agent \in [Agents -> {"free", "reserved", "alive", "exited"}]
    BY DEF Init, GatewayInit, Tracked
  <2>2. QED
    BY <2>1, FS_EmptySet DEF AgentInv
<1>5. QED
  BY <1>1, <1>2, <1>3, <1>4 DEF DashboardInv, LimiterInv

LEMMA StepInv == DashboardInv /\ [Next]_vars => DashboardInv'
<1> SUFFICES ASSUME DashboardInv, [Next]_vars
             PROVE  DashboardInv'
  OBVIOUS
<1> USE GatewayAssumption DEF DashboardInv
<1>1. ASSUME NEW c \in Clients,
             RequestSettings(c) \/ RequestAgent(c) \/ RequestAnything(c)
      PROVE  DashboardInv'
  <2>1. LetIn(c) /\ UNCHANGED <<kind, hubVars>>
    BY <1>1 DEF RequestSettings, RequestAgent, RequestAnything, Admitted
  <2>2. InTime' /\ LimiterInv' /\ HubInv'
    BY <2>1, LetInKeeps, HubStepKeeps DEF InTime, LetIn
  <2>3. UNCHANGED agentVars \/ \E a \in Agents : Trigger(c, a) \/ Rerun(a)
    BY <1>1 DEF RequestSettings, RequestAgent, RequestAnything
  <2>4. AgentInv'
    BY <2>3, AgentStepKeeps, TriggerKeeps, AgentKeeps
  <2>5. QED
    BY <2>2, <2>4
<1>2. CASE /\ UNCHANGED limiterVars \/ MinutePasses
           /\ UNCHANGED agentVars \/ AgentStep
           /\ UNCHANGED hubVars \/ HubStep
  <2>1. InTime'
    BY <1>2 DEF InTime, limiterVars, MinutePasses
  <2>2. QED
    BY <1>2, <2>1, LimiterKeeps, AgentStepKeeps, HubStepKeeps
<1>3. CASE Restart
  <2>1. GatewayRestarts /\ HubRestarts
    BY <1>3 DEF Restart
  <2>2. InTime'
    BY <2>1 DEF InTime, GatewayRestarts
  <2>3. QED
    BY <2>1, <2>2, LimiterKeeps, AgentsAtRestart, HubStepKeeps
<1>4. CASE UNCHANGED vars
  BY <1>2, <1>4 DEF vars
<1>5. ASSUME NEW c \in Clients, RequestRefused(c)
      PROVE  DashboardInv'
  BY <1>2, <1>5 DEF RequestRefused, Refuse
<1>6. CASE TimePasses \/ Serve \/ RunAgents \/ Push
  BY <1>2, <1>6 DEF TimePasses, Serve, RunAgents, Push
<1>7. QED
  BY <1>1, <1>3, <1>4, <1>5, <1>6 DEF Next

\* Nobody that is open misses a status the hub has stored the hash of, for any number of
\* connections, changes and restarts (_watch_status_files, broadcast).
THEOREM StoredStatusIsShown == Spec => []HashedIsShown
<1>1. DashboardInv => HashedIsShown
  BY DEF DashboardInv, HubInv
<1>2. QED
  BY <1>1, InitInv, StepInv, PTL DEF Spec

\* A client that the limiter has never forgotten gets no more than the limit in a minute, and
\* less than twice that in two (is_allowed); the counter of agents is the number of those it
\* knows (trigger_agent).  That the counter stays within the slots is in DashboardTypeCorrect.
THEOREM LimitsAreKept == Spec => []WithinLimits
<1>1. DashboardInv => WithinLimits
  <2> SUFFICES ASSUME DashboardInv
               PROVE  WithinLimits
    OBVIOUS
  <2>1. Cardinality(Tracked) = running
    BY DEF DashboardInv, AgentInv
  <2>2. ASSUME NEW c \in Clients \ forgotten, NEW m \in 0 .. Minutes
        PROVE  served[c][m] <= Limit
    BY <2>2 DEF DashboardInv, LimiterInv, Accounted
  <2>3. ASSUME NEW c \in Clients \ forgotten, NEW m \in 1 .. Minutes
        PROVE  served[c][m - 1] + served[c][m] < 2 * Limit
    <3>1. m \in 0 .. Minutes /\ m - 1 \in 0 .. Minutes
      BY GatewayAssumption
    <3>2. QED
      BY <3>1 DEF DashboardInv, LimiterInv, Accounted
  <2>4. QED
    BY <2>1, <2>2, <2>3 DEF WithinLimits, Tracked
<1>2. QED
  BY <1>1, InitInv, StepInv, PTL DEF Spec

-----------------------------------------------------------------------------
(* The settings *)

ConfigTyped ==
    /\ nested \in BOOLEAN /\ overlapped \in BOOLEAN
    /\ inode \in [Inodes -> [content : Settings \union {Corrupt}, mtime : Nat]]
    /\ time \in Nat /\ \A i \in Inodes : inode[i].mtime <= time
    /\ file \in Inodes /\ tmp \in Requests \union {Missing}
    /\ object \in [Objects -> Settings]
    /\ cache = Missing \/ cache \in [mtime : Nat, object : Requests \X {"parsed"}]
    /\ at \in [Requests -> {"idle", "load", "read", "apply", "open", "write", "rename",
                            "invalidate", "summarise", "done"}]
    /\ key \in [Requests -> Keys \union {Missing}]
    /\ ref \in [Requests -> Objects]
    /\ seen \in [Requests -> Nat]
    /\ handle \in [Requests -> Inodes]
    /\ acked \in [Keys -> Values] /\ tried \in [Keys -> SUBSET Requests]

\* The two names are of two files, of different times, and a thread that has not opened a
\* file yet will open a new one.
FileInv ==
    /\ tmp # Missing => tmp # file /\ inode[tmp].mtime # inode[file].mtime
    /\ \A r \in Requests :
           at[r] \in {"idle", "load", "read", "apply", "open", "summarise"} => r \notin {file, tmp}

\* No file to come has a modification time that is remembered.
StampInv ==
    /\ \A r \in Requests : at[r] = "read" =>
           seen[r] <= time /\ (tmp # Missing => inode[tmp].mtime # seen[r])
    /\ cache # Missing => cache.mtime <= time /\ (tmp # Missing => inode[tmp].mtime # cache.mtime)

\* Who holds which object: without objects in objects everybody a copy.
ObjectInv ==
    /\ ~nested => \A r \in Requests : ref[r] = <<r, "own">>
    /\ \A r, q \in Requests : ref[r] = <<q, "own">> => q = r
    /\ \A q \in Requests : at[q] \in {"idle", "load", "read"} =>
           /\ \A r \in Requests : ref[r] # <<q, "parsed">>
           /\ cache # Missing => cache.object # <<q, "parsed">>

Saving == {"apply", "open", "write", "rename", "invalidate"}

\* An update is on record as long as it runs.
UpdateInv ==
    /\ \A r \in Requests : /\ at[r] \in Saving => key[r] # Missing
                           /\ at[r] = "idle" => key[r] = Missing
    /\ \A r \in Requests : Updating(r) => r \in tried[key[r]]
    /\ \A r, q \in Requests : Updating(r) /\ Updating(q) /\ r # q => overlapped

\* An update that shows in the cache alone has not got its file its name yet; and once an
\* update that overlaps with none has, what is cached for the file is what it contains.
CacheInv ==
    Fresh /\ inode[file].content # Corrupt =>
        /\ \A k \in Keys :
               LET value == object[cache.object][k]
               IN value = inode[file].content[k] \/ (nested /\ value \in tried[k] /\ at[value] # "invalidate")
        /\ ~overlapped /\ (\E r \in Requests : at[r] = "invalidate") =>
               \A k \in Keys : object[cache.object][k] = inode[file].content[k]

Good(settings) == \A k \in Keys : settings[k] \in {acked[k]} \union tried[k]

\* What the one update in progress has made so far.
AloneInv ==
    ~overlapped =>
        /\ inode[file].content # Corrupt /\ Good(inode[file].content)
        /\ \A r \in Requests :
            /\ at[r] \in {"apply", "open", "write"} => Good(object[ref[r]])
            /\ at[r] \in {"open", "write"} => object[ref[r]][key[r]] = r
            /\ at[r] \in {"write", "rename"} => tmp # Missing /\ tmp = handle[r]
            /\ at[r] = "write" => inode[tmp].content = Corrupt
            /\ at[r] = "rename" => /\ inode[tmp].content # Corrupt /\ Good(inode[tmp].content)
                                   /\ inode[tmp].content[key[r]] = r
            /\ at[r] = "invalidate" => inode[file].content[key[r]] = r

SettingsInv ==
    ConfigTyped /\ FileInv /\ StampInv /\ ObjectInv /\ UpdateInv /\ CacheInv /\ AloneInv

LEMMA SettingsMarkers ==
    /\ Started \in Settings /\ \A s \in Settings : s # Corrupt
    /\ Requests \subseteq Inodes /\ First \in Inodes /\ Requests \subseteq Values
    /\ \A r \in Requests : <<r, "own">> \in Objects /\ <<r, "parsed">> \in Objects
BY ConfigAssumption DEF Started, Settings, Values, Inodes, Objects

LEMMA SettingsInit == Init => SettingsInv
<1> SUFFICES ASSUME Init
             PROVE  SettingsInv
  OBVIOUS
<1>1. ConfigInit /\ Started \in Settings /\ Missing \notin Requests /\ First \notin Requests
  BY SettingsMarkers, ConfigAssumption DEF Init
<1>2. ConfigTyped
  <2>1. [content |-> Started, mtime |-> 0] \in [content : Settings \union {Corrupt}, mtime : Nat]
    BY <1>1
  <2>2. inode \in [Inodes -> [content : Settings \union {Corrupt}, mtime : Nat]]
        /\ \A i \in Inodes : inode[i].mtime <= time
    BY <1>1, <2>1 DEF ConfigInit
  <2>3. acked \in [Keys -> Values] /\ tried \in [Keys -> SUBSET Requests]
    BY <1>1 DEF ConfigInit, Started, Values
  <2>4. QED
    BY <1>1, <2>2, <2>3, SettingsMarkers DEF ConfigInit, ConfigTyped
<1>3. FileInv /\ StampInv /\ ObjectInv
  BY <1>1 DEF ConfigInit, FileInv, StampInv, ObjectInv
<1>4. UpdateInv /\ CacheInv
  BY <1>1 DEF ConfigInit, UpdateInv, CacheInv, Updating, Fresh, Saving
<1>5. AloneInv
  BY <1>1, SettingsMarkers DEF ConfigInit, AloneInv, Good, Started
<1>6. QED
  BY <1>2, <1>3, <1>4, <1>5 DEF SettingsInv

LEMMA EndFacts ==
    ASSUME ConfigTyped, NEW r \in Requests, Ends(r)
    PROVE  /\ at' \in [Requests -> {"idle", "load", "read", "apply", "open", "write", "rename",
                            "invalidate", "summarise", "done"}]
           /\ key' \in [Requests -> Keys \union {Missing}]
           /\ ref' \in [Requests -> Objects] /\ seen' \in [Requests -> Nat]
           /\ handle' \in [Requests -> Inodes] /\ object' \in [Objects -> Settings]
           /\ at'[r] = "done" /\ key'[r] = Missing /\ ref'[r] = <<r, "own">>
           /\ \A q \in Requests \ {r} :
               /\ at'[q] = at[q] /\ key'[q] = key[q] /\ ref'[q] = ref[q]
               /\ seen'[q] = seen[q] /\ handle'[q] = handle[q]
               /\ object'[ref[q]] = object[ref[q]]
           /\ cache # Missing => object'[cache.object] = object[cache.object]
<1> DEFINE held == {ref[q] : q \in Requests \ {r}} \union
                   (IF cache = Missing THEN {} ELSE {cache.object})
<1>1. object' = [o \in Objects |-> IF o \in held THEN object[o] ELSE Started]
  BY DEF Ends
<1>2. cache # Missing => cache.object \in Objects /\ cache.object \in held
  BY DEF ConfigTyped, Objects
<1>3. \A q \in Requests \ {r} : ref[q] \in held /\ ref[q] \in Objects
  BY DEF ConfigTyped
<1> HIDE DEF held
<1>4. object' \in [Objects -> Settings]
  BY <1>1, SettingsMarkers DEF ConfigTyped
<1>5. /\ \A q \in Requests \ {r} : object'[ref[q]] = object[ref[q]]
      /\ cache # Missing => object'[cache.object] = object[cache.object]
  BY <1>1, <1>2, <1>3
<1>6. QED
  BY <1>4, <1>5, SettingsMarkers DEF Ends, ConfigTyped

\* A thread is through: a summary is answered, or a save has failed.
LEMMA EndKeeps ==
    ASSUME SettingsInv, NEW r \in Requests, Ends(r),
           tmp' = tmp \/ (tmp' = Missing /\ Updating(r)),
           UNCHANGED <<nested, inode, file, time, cache, acked, tried, overlapped>>
    PROVE  SettingsInv'
<1> USE DEF SettingsInv
<1>0. /\ at'[r] = "done" /\ key'[r] = Missing /\ ref'[r] = <<r, "own">>
      /\ \A q \in Requests \ {r} :
               /\ at'[q] = at[q] /\ key'[q] = key[q] /\ ref'[q] = ref[q]
               /\ seen'[q] = seen[q] /\ handle'[q] = handle[q]
               /\ object'[ref[q]] = object[ref[q]]
      /\ cache # Missing => object'[cache.object] = object[cache.object]
  BY EndFacts
<1>1. ConfigTyped'
  <2>1. /\ at' \in [Requests -> {"idle", "load", "read", "apply", "open", "write", "rename",
                            "invalidate", "summarise", "done"}]
           /\ key' \in [Requests -> Keys \union {Missing}]
           /\ ref' \in [Requests -> Objects] /\ seen' \in [Requests -> Nat]
           /\ handle' \in [Requests -> Inodes] /\ object' \in [Objects -> Settings]
    BY EndFacts
  <2>2. QED
    BY <2>1 DEF ConfigTyped
<1>2. FileInv'
  BY <1>0, ConfigAssumption DEF FileInv
<1>3. StampInv'
  BY <1>0 DEF StampInv
<1>4. ObjectInv'
  BY <1>0 DEF ObjectInv
<1>5. UpdateInv'
  BY <1>0 DEF UpdateInv, Updating, Saving
<1>6. CacheInv'
  BY <1>0 DEF CacheInv, Fresh, ConfigTyped
<1>7. AloneInv'
  <2>1. ~overlapped => \A q \in Requests \ {r} : at[q] \in {"write", "rename"} => tmp' = tmp
    BY DEF UpdateInv, Updating, Saving
  <2>2. \A q \in Requests \ {r} : at'[q] \in Saving =>
            object'[ref'[q]] = object[ref[q]] /\ key'[q] = key[q] /\ at'[q] = at[q]
    BY <1>0
  <2>3. QED
    BY <1>0, <2>1, <2>2 DEF AloneInv, Good, Saving
<1>8. QED
  BY <1>1, <1>2, <1>3, <1>4, <1>5, <1>6, <1>7

\* A request comes in.
LEMMA AskKeeps ==
    ASSUME SettingsInv, NEW r \in Requests, AskSummary(r) \/ \E k \in Keys : AskUpdate(r, k)
    PROVE  SettingsInv'
<1> USE DEF SettingsInv
<1>0. /\ at[r] = "idle" /\ at' = [at EXCEPT ![r] = at'[r]] /\ at'[r] \in {"load", "done"}
      /\ UNCHANGED <<nested, inode, file, tmp, time, object, cache, ref, seen, handle, acked>>
  BY DEF AskSummary, AskUpdate, Goes, storeVars, memoryVars, historyVars, ConfigTyped
<1>a. \A q \in Requests \ {r} : at'[q] = at[q] /\ key'[q] = key[q]
  BY <1>0 DEF AskSummary, AskUpdate, ConfigTyped
<1>b. \A k \in Keys : tried[k] \subseteq tried'[k]
  BY DEF AskSummary, AskUpdate, historyVars, ConfigTyped
<1>c. overlapped => overlapped'
  BY DEF AskSummary, AskUpdate, historyVars
<1>1. ConfigTyped'
  <2>1. at' \in [Requests -> {"idle", "load", "read", "apply", "open", "write", "rename",
                            "invalidate", "summarise", "done"}]
    BY <1>0 DEF ConfigTyped
  <2>2. /\ key' \in [Requests -> Keys \union {Missing}]
        /\ tried' \in [Keys -> SUBSET Requests] /\ overlapped' \in BOOLEAN
    <3>1. CASE AskSummary(r)
      BY <3>1 DEF AskSummary, historyVars, ConfigTyped
    <3>2. ASSUME NEW k \in Keys, AskUpdate(r, k)
          PROVE  /\ key' \in [Requests -> Keys \union {Missing}]
                 /\ tried' \in [Keys -> SUBSET Requests] /\ overlapped' \in BOOLEAN
      <4>1. key' = [key EXCEPT ![r] = k] /\ tried' = [tried EXCEPT ![k] = @ \union {r}]
            /\ overlapped' = (overlapped \/ \E q \in Requests : Updating(q))
        BY <3>2 DEF AskUpdate
      <4>2. overlapped' \in BOOLEAN
        BY <4>1, Zenon DEF ConfigTyped
      <4>3. QED
        BY <4>1, <4>2 DEF ConfigTyped
    <3>3. QED
      BY <3>1, <3>2
  <2>3. QED
    BY <1>0, <2>1, <2>2 DEF ConfigTyped
<1>2. FileInv'
  BY <1>0, <1>a DEF FileInv
<1>3. StampInv'
  BY <1>0, <1>a DEF StampInv
<1>4. ObjectInv'
  BY <1>0, <1>a DEF ObjectInv
<1>5. UpdateInv'
  <2>1. CASE AskSummary(r)
    BY <2>1, <1>0, <1>a, <1>b DEF AskSummary, UpdateInv, Updating, Saving, historyVars
  <2>2. ASSUME NEW k \in Keys, AskUpdate(r, k)
        PROVE  UpdateInv'
    <3>1. /\ key'[r] = k /\ r \in tried'[k] /\ at'[r] = "load"
          /\ overlapped' = (overlapped \/ \E q \in Requests : Updating(q))
      BY <2>2 DEF AskUpdate, Goes, ConfigTyped
    <3>2. \A q \in Requests \ {r} : Updating(q)' <=> Updating(q)
      BY <1>a DEF Updating
    <3>3. \A q \in Requests \ {r} : Updating(q) => key[q] \in Keys
      BY DEF Updating, ConfigTyped
    <3>4. QED
      BY <1>a, <1>b, <3>1, <3>2, <3>3 DEF UpdateInv, Saving
  <2>3. QED
    BY <2>1, <2>2
<1>6. CacheInv'
  BY <1>0, <1>a, <1>b, <1>c DEF CacheInv, Fresh, ConfigTyped
<1>7. AloneInv'
  BY <1>0, <1>a, <1>b, <1>c DEF AloneInv, Good
<1>8. QED
  BY <1>1, <1>2, <1>3, <1>4, <1>5, <1>6, <1>7

LEMMA HandFacts ==
    ASSUME ConfigTyped, NEW r \in Requests, NEW o \in Requests \X {"parsed"},
           NEW objects \in [Objects -> Settings], HandOut(r, o, objects)
    PROVE  /\ ref' \in [Requests -> Objects] /\ object' \in [Objects -> Settings]
           /\ nested => ref'[r] = o /\ object' = objects
           /\ ~nested => ref'[r] = <<r, "own">>
           /\ object'[ref'[r]] = objects[o]
           /\ \A q \in Requests \ {r} : ref'[q] = ref[q]
           /\ \A x \in Objects : x # <<r, "own">> => object'[x] = objects[x]
<1>1. o \in Objects /\ <<r, "own">> \in Objects
  BY DEF Objects
<1>2. CASE nested
  BY <1>1, <1>2 DEF HandOut, ConfigTyped
<1>3. CASE ~nested
  <2>1. ref' = [ref EXCEPT ![r] = <<r, "own">>] /\ object' = [objects EXCEPT ![<<r, "own">>] = objects[o]]
    BY <1>3 DEF HandOut
  <2>2. ref'[r] = <<r, "own">> /\ object'[<<r, "own">>] = objects[o] /\ objects[o] \in Settings
    BY <1>1, <2>1 DEF ConfigTyped
  <2>3. QED
    BY <1>1, <1>3, <2>1, <2>2 DEF ConfigTyped
<1>4. QED
  BY <1>2, <1>3

\* load_config_from_file, from the cache or from the file.
LEMMA LoadKeeps ==
    ASSUME SettingsInv, NEW r \in Requests, Load(r)
    PROVE  SettingsInv'
<1> USE DEF SettingsInv
<1>0. /\ at[r] = "load" /\ \A q \in Requests \ {r} : at'[q] = at[q]
      /\ UNCHANGED <<nested, inode, file, tmp, time, cache, key, handle, acked, tried, overlapped>>
  BY DEF Load, Goes, storeVars, historyVars, ConfigTyped
<1>1. CASE ~Fresh
  <2>1. /\ at'[r] = "read" /\ at' = [at EXCEPT ![r] = "read"]
        /\ seen' = [seen EXCEPT ![r] = inode[file].mtime] /\ UNCHANGED <<object, ref>>
    BY <1>1 DEF Load, Goes, ConfigTyped
  <2>2. ConfigTyped'
    BY <1>0, <2>1 DEF ConfigTyped
  <2>3. FileInv' /\ StampInv'
    BY <1>0, <2>1 DEF FileInv, StampInv, ConfigTyped
  <2>4. ObjectInv' /\ UpdateInv'
    BY <1>0, <2>1 DEF ObjectInv, UpdateInv, Updating, Saving
  <2>5. CacheInv' /\ AloneInv'
    BY <1>0, <2>1 DEF CacheInv, Fresh, AloneInv, Good, ConfigTyped
  <2>6. QED
    BY <2>2, <2>3, <2>4, <2>5
<1>2. CASE Fresh
  <2> DEFINE o == cache.object
  <2>1. /\ at' = [at EXCEPT ![r] = Loaded(r)] /\ Loaded(r) \in {"summarise", "apply"}
        /\ at'[r] = Loaded(r) /\ (Loaded(r) = "apply" <=> key[r] # Missing)
        /\ UNCHANGED seen /\ HandOut(r, o, object) /\ o \in Requests \X {"parsed"}
    BY <1>2 DEF Load, Goes, Fresh, Loaded, ConfigTyped
  <2>2. /\ ref' \in [Requests -> Objects] /\ object' \in [Objects -> Settings]
        /\ nested => ref'[r] = o /\ object' = object
        /\ ~nested => ref'[r] = <<r, "own">>
        /\ object'[ref'[r]] = object[o]
        /\ \A q \in Requests \ {r} : ref'[q] = ref[q]
        /\ \A x \in Objects : x # <<r, "own">> => object'[x] = object[x]
    BY <2>1, HandFacts DEF ConfigTyped
  <2>3. ConfigTyped'
    BY <1>0, <2>1, <2>2 DEF ConfigTyped
  <2>4. FileInv' /\ StampInv'
    BY <1>0, <2>1 DEF FileInv, StampInv
  <2>5. ObjectInv'
    BY <1>0, <1>2, <2>1, <2>2 DEF ObjectInv, Fresh
  <2>6. UpdateInv'
    BY <1>0, <2>1 DEF UpdateInv, Updating, Saving
  <2>7. CacheInv'
    <3>1. o \in Objects /\ o # <<r, "own">>
      BY <2>1 DEF Objects
    <3>2. object'[o] = object[o]
      BY <2>2, <3>1
    <3> HIDE DEF o
    <3>3. QED
      BY <1>0, <1>2, <2>1, <3>2 DEF CacheInv, Fresh, o, ConfigTyped
  <2>8. AloneInv'
    <3>1. ~overlapped => Good(object[o])
      BY <1>2 DEF AloneInv, CacheInv, Good
    <3>2. \A q \in Requests \ {r} : object'[ref'[q]] = object[ref[q]]
      BY <2>2 DEF ObjectInv, ConfigTyped
    <3> HIDE DEF o
    <3>3. QED
      BY <1>0, <2>1, <2>2, <3>1, <3>2 DEF AloneInv, Good
  <2>9. QED
    BY <2>3, <2>4, <2>5, <2>6, <2>7, <2>8
<1>3. QED
  BY <1>1, <1>2

LEMMA ReadKeeps ==
    ASSUME SettingsInv, NEW r \in Requests, Read(r)
    PROVE  SettingsInv'
<1> USE DEF SettingsInv
<1> DEFINE o == <<r, "parsed">>
           content == inode[file].content
<1>0. /\ at[r] = "read" /\ \A q \in Requests \ {r} : at'[q] = at[q]
      /\ UNCHANGED <<nested, inode, file, tmp, time, key, seen, handle, acked, tried, overlapped>>
      /\ at' = [at EXCEPT ![r] = Loaded(r)] /\ Loaded(r) \in {"summarise", "apply"}
      /\ at'[r] = Loaded(r) /\ (Loaded(r) = "apply" <=> key[r] # Missing)
  BY DEF Read, Goes, Loaded, storeVars, historyVars, ConfigTyped
<1>1. /\ <<r, "own">> \in Objects /\ o \in Objects /\ o \in Requests \X {"parsed"}
      /\ Started \in Settings /\ content \in Settings \union {Corrupt}
  BY SettingsMarkers DEF Objects, ConfigTyped
<1>2. FileInv' /\ UpdateInv'
  BY <1>0 DEF FileInv, UpdateInv, Updating, Saving
<1>3. CASE content = Corrupt
  <2>1. /\ object' = [object EXCEPT ![<<r, "own">>] = Started]
        /\ ref' = [ref EXCEPT ![r] = <<r, "own">>] /\ UNCHANGED cache
    BY <1>3 DEF Read
  <2>2. ConfigTyped'
    BY <1>0, <1>1, <2>1 DEF ConfigTyped
  <2>3. StampInv' /\ ObjectInv'
    BY <1>0, <2>1 DEF StampInv, ObjectInv, ConfigTyped
  <2>4. CacheInv' /\ AloneInv'
    BY <1>0, <1>3 DEF CacheInv, AloneInv
  <2>5. QED
    BY <1>2, <2>2, <2>3, <2>4
<1>4. CASE content # Corrupt
  <2> DEFINE objects == [object EXCEPT ![o] = content]
  <2>1. HandOut(r, o, objects) /\ cache' = [mtime |-> seen[r], object |-> o]
    BY <1>4 DEF Read
  <2>2. /\ objects \in [Objects -> Settings] /\ objects[o] = content
        /\ \A x \in Objects : x # o => objects[x] = object[x]
    BY <1>1, <1>4 DEF ConfigTyped
  <2>a. cache'.object = o /\ cache'.mtime = seen[r]
    BY <2>1
  <2> HIDE DEF objects
  <2>3. /\ ref' \in [Requests -> Objects] /\ object' \in [Objects -> Settings]
        /\ nested => ref'[r] = o /\ object' = objects
        /\ ~nested => ref'[r] = <<r, "own">>
        /\ object'[ref'[r]] = content
        /\ \A q \in Requests \ {r} : ref'[q] = ref[q]
        /\ \A x \in Objects : x # <<r, "own">> => object'[x] = objects[x]
    BY <1>1, <2>1, <2>2, HandFacts
  <2>4. ConfigTyped'
    BY <1>0, <1>1, <2>1, <2>3 DEF ConfigTyped
  <2>5. StampInv'
    BY <1>0, <2>a DEF StampInv
  <2>6. ObjectInv'
    BY <1>0, <2>a, <2>3 DEF ObjectInv
  <2>7. object'[o] = content
    BY <1>1, <2>2, <2>3
  <2>8. CacheInv'
    BY <1>0, <2>a, <2>7 DEF CacheInv
  <2>9. AloneInv'
    <3>1. \A q \in Requests \ {r} : object'[ref'[q]] = object[ref[q]]
      <4> SUFFICES ASSUME NEW q \in Requests \ {r}
                   PROVE  object'[ref[q]] = object[ref[q]]
        BY <2>3
      <4>1. ref[q] \in Objects /\ ref[q] # o /\ ref[q] # <<r, "own">>
        BY <1>0 DEF ObjectInv, ConfigTyped
      <4>2. QED
        BY <2>2, <2>3, <4>1
    <3> HIDE DEF o
    <3>2. QED
      BY <1>0, <2>3, <3>1 DEF AloneInv, Good
  <2>10. QED
    BY <1>2, <2>4, <2>5, <2>6, <2>8, <2>9
<1>5. QED
  BY <1>3, <1>4

\* The update is made in memory: seen in the cache where settings are nested, and nowhere
\* else but with its thread.
LEMMA ApplyKeeps ==
    ASSUME SettingsInv, NEW r \in Requests, Apply(r)
    PROVE  SettingsInv'
<1> USE DEF SettingsInv
<1>0. /\ at[r] = "apply" /\ at' = [at EXCEPT ![r] = "open"]
      /\ at'[r] = "open" /\ \A q \in Requests \ {r} : at'[q] = at[q]
      /\ UNCHANGED <<nested, inode, file, tmp, time, cache, key, ref, seen, handle, acked, tried,
                     overlapped>>
      /\ object' = [object EXCEPT ![ref[r]][key[r]] = r]
  BY DEF Apply, Goes, storeVars, historyVars, ConfigTyped
<1>1. /\ key[r] \in Keys /\ Updating(r) /\ r \in tried[key[r]] /\ ref[r] \in Objects
      /\ r \in Values
  BY <1>0, SettingsMarkers DEF UpdateInv, Updating, Saving, ConfigTyped
<1>2. object' = [object EXCEPT ![ref[r]] = [object[ref[r]] EXCEPT ![key[r]] = r]]
      /\ object[ref[r]] \in Settings
  BY <1>0, <1>1 DEF ConfigTyped
<1>3. /\ object'[ref[r]] \in Settings
      /\ object'[ref[r]][key[r]] = r
      /\ \A k \in Keys \ {key[r]} : object'[ref[r]][k] = object[ref[r]][k]
      /\ \A x \in Objects \ {ref[r]} : object'[x] = object[x]
  BY <1>1, <1>2 DEF ConfigTyped, Settings
<1>4. ConfigTyped'
  BY <1>0, <1>2, <1>3 DEF ConfigTyped
<1>5. FileInv' /\ StampInv' /\ ObjectInv'
  BY <1>0 DEF FileInv, StampInv, ObjectInv
<1>6. UpdateInv'
  BY <1>0 DEF UpdateInv, Updating, Saving
<1>7. CacheInv'
  <2>1. cache # Missing /\ cache.object = ref[r] => nested
    BY DEF ObjectInv, ConfigTyped
  <2>2. ~overlapped => \A q \in Requests : at'[q] # "invalidate"
    BY <1>0, <1>1 DEF UpdateInv, Updating, Saving
  <2>3. cache # Missing => cache.object \in Objects
    BY DEF ConfigTyped, Objects
  <2>4. QED
    BY <1>0, <1>1, <1>3, <2>1, <2>2, <2>3 DEF CacheInv, Fresh, ConfigTyped
<1>8. AloneInv'
  <2>1. ~overlapped => \A q \in Requests \ {r} : at[q] \notin Saving
    BY <1>1 DEF UpdateInv, Updating, Saving
  <2>2. QED
    BY <1>0, <1>1, <1>3, <2>1 DEF AloneInv, Good, Saving
<1>9. QED
  BY <1>4, <1>5, <1>6, <1>7, <1>8


\* The temporary file is opened; it is not the settings file, and none that a thread will
\* open anew.
LEMMA OpenKeeps ==
    ASSUME SettingsInv, NEW r \in Requests, Open(r)
    PROVE  SettingsInv'
<1> USE DEF SettingsInv
<1> DEFINE i == IF tmp = Missing THEN r ELSE tmp
<1>0. /\ at[r] = "open" /\ at' = [at EXCEPT ![r] = "write"]
      /\ at'[r] = "write" /\ \A q \in Requests \ {r} : at'[q] = at[q]
      /\ UNCHANGED <<nested, file, object, cache, key, ref, seen, acked, tried, overlapped>>
      /\ tmp' = i /\ handle' = [handle EXCEPT ![r] = i] /\ time' = time + 1
      /\ inode' = [inode EXCEPT ![i] = [content |-> Corrupt, mtime |-> time + 1]]
  BY DEF Open, Goes, Written, memoryVars, historyVars, ConfigTyped
<1>1. i \in Requests /\ i \in Inodes /\ i # Missing /\ i # file
  BY <1>0, SettingsMarkers, ConfigAssumption DEF ConfigTyped, FileInv
<1>2. \A q \in Requests :
          at[q] \in {"idle", "load", "read", "apply", "open", "summarise"} /\ q # r => q # i
  BY DEF FileInv
<1> HIDE DEF i
<1>3. /\ inode'[i].content = Corrupt /\ inode'[i].mtime = time + 1 /\ inode'[file] = inode[file]
      /\ \A j \in Inodes \ {i} : inode'[j] = inode[j]
      /\ handle'[r] = i /\ \A q \in Requests \ {r} : handle'[q] = handle[q]
  BY <1>0, <1>1 DEF ConfigTyped
<1>4. ConfigTyped'
  <2>1. [content |-> Corrupt, mtime |-> time + 1] \in [content : Settings \union {Corrupt}, mtime : Nat]
    BY DEF ConfigTyped
  <2>2. inode' \in [Inodes -> [content : Settings \union {Corrupt}, mtime : Nat]]
    BY <1>0, <2>1 DEF ConfigTyped
  <2>3. \A j \in Inodes : inode'[j].mtime <= time'
    BY <1>0, <1>3 DEF ConfigTyped
  <2>4. QED
    BY <1>0, <1>1, <2>2, <2>3 DEF ConfigTyped
<1>5. FileInv'
  BY <1>0, <1>1, <1>2, <1>3 DEF FileInv, ConfigTyped
<1>6. StampInv'
  BY <1>0, <1>3 DEF StampInv, ConfigTyped
<1>7. ObjectInv' /\ UpdateInv'
  BY <1>0 DEF ObjectInv, UpdateInv, Updating, Saving
<1>8. CacheInv'
  BY <1>0, <1>3 DEF CacheInv, Fresh, ConfigTyped
<1>9. AloneInv'
  <2>1. ~overlapped => \A q \in Requests \ {r} : at[q] \notin Saving
    BY <1>0 DEF UpdateInv, Updating, Saving
  <2>2. QED
    BY <1>0, <1>1, <1>3, <2>1 DEF AloneInv, Good, Saving
<1>10. QED
  BY <1>4, <1>5, <1>6, <1>7, <1>8, <1>9

\* The settings are written, to the temporary file unless another save has renamed it.
LEMMA WriteKeeps ==
    ASSUME SettingsInv, NEW r \in Requests, Write(r)
    PROVE  SettingsInv'
<1> USE DEF SettingsInv
<1> DEFINE i == handle[r]
           choice == {object[ref[r]]} \union (IF inode[i].content = Corrupt THEN {} ELSE {Corrupt})
<1>0. /\ at[r] = "write" /\ at' = [at EXCEPT ![r] = "rename"]
      /\ at'[r] = "rename" /\ \A q \in Requests \ {r} : at'[q] = at[q]
      /\ UNCHANGED <<nested, file, tmp, object, cache, key, ref, seen, handle, acked, tried, overlapped>>
      /\ time' = time + 1
  BY DEF Write, Goes, Written, memoryVars, historyVars, ConfigTyped
<1>1. PICK content \in choice : inode' = [inode EXCEPT ![i] = [content |-> content, mtime |-> time + 1]]
  BY DEF Write, Written
<1>2. i \in Inodes /\ content \in Settings \union {Corrupt} /\ object[ref[r]] \in Settings
  BY DEF ConfigTyped
<1>3. ~overlapped => /\ tmp # Missing /\ i = tmp /\ i # file /\ content = object[ref[r]]
                     /\ Good(content) /\ content[key[r]] = r
  BY <1>0 DEF AloneInv, FileInv
<1> HIDE DEF i, choice
<1>4. /\ inode'[i].content = content /\ inode'[i].mtime = time + 1
      /\ \A j \in Inodes \ {i} : inode'[j] = inode[j]
  BY <1>1, <1>2 DEF ConfigTyped
<1>5. ConfigTyped'
  <2>1. [content |-> content, mtime |-> time + 1] \in [content : Settings \union {Corrupt}, mtime : Nat]
    BY <1>2 DEF ConfigTyped
  <2>2. inode' \in [Inodes -> [content : Settings \union {Corrupt}, mtime : Nat]]
    BY <1>1, <2>1 DEF ConfigTyped
  <2>3. \A j \in Inodes : inode'[j].mtime <= time'
    BY <1>0, <1>4 DEF ConfigTyped
  <2>4. QED
    BY <1>0, <2>2, <2>3 DEF ConfigTyped
<1>a. file \in Inodes /\ (tmp # Missing => tmp \in Inodes)
  BY SettingsMarkers DEF ConfigTyped
<1>6. FileInv'
  BY <1>0, <1>4, <1>a DEF FileInv, ConfigTyped
<1>7. StampInv'
  BY <1>0, <1>4, <1>a DEF StampInv, ConfigTyped
<1>8. ObjectInv' /\ UpdateInv'
  BY <1>0 DEF ObjectInv, UpdateInv, Updating, Saving
<1>9. CacheInv'
  <2>1. CASE i = file
    <3>1. ~Fresh'
      BY <1>0, <1>4, <2>1 DEF Fresh, StampInv, ConfigTyped
    <3>2. QED
      BY <3>1 DEF CacheInv
  <2>2. CASE i # file
    <3>1. inode'[file] = inode[file]
      BY <1>4, <1>a, <2>2
    <3>2. QED
      BY <1>0, <3>1 DEF CacheInv, Fresh, ConfigTyped
  <2>3. QED
    BY <2>1, <2>2
<1>10. AloneInv'
  <2>1. ~overlapped => \A q \in Requests \ {r} : at[q] \notin Saving
    BY <1>0 DEF UpdateInv, Updating, Saving
  <2>2. ~overlapped => inode'[file] = inode[file] /\ inode'[tmp].content = content /\ content # Corrupt
    BY <1>2, <1>3, <1>4, <1>a, SettingsMarkers
  <2>3. QED
    BY <1>0, <1>3, <2>1, <2>2 DEF AloneInv, Good, Saving
<1>11. QED
  BY <1>5, <1>6, <1>7, <1>8, <1>9, <1>10

\* The temporary file takes the name of the settings, or is gone.
LEMMA RenameKeeps ==
    ASSUME SettingsInv, NEW r \in Requests, Rename(r)
    PROVE  SettingsInv'
<1> USE DEF SettingsInv
<1>1. CASE tmp = Missing
  <2>1. Ends(r) /\ UNCHANGED <<nested, inode, file, tmp, time, cache, acked, tried, overlapped>>
    BY <1>1 DEF Rename, historyVars
  <2>2. QED
    BY <2>1, EndKeeps
<1>2. CASE tmp # Missing
  <2>0. /\ at[r] = "rename" /\ at' = [at EXCEPT ![r] = "invalidate"]
        /\ at'[r] = "invalidate" /\ \A q \in Requests \ {r} : at'[q] = at[q]
        /\ UNCHANGED <<nested, inode, time, object, cache, key, ref, seen, handle, acked, tried,
                       overlapped>>
        /\ file' = tmp /\ tmp' = Missing /\ tmp \in Inodes
    BY <1>2, SettingsMarkers DEF Rename, Goes, historyVars, ConfigTyped
  <2>1. ConfigTyped'
    BY <2>0 DEF ConfigTyped
  <2>2. FileInv'
    BY <2>0, ConfigAssumption DEF FileInv
  <2>3. StampInv' /\ ObjectInv'
    BY <2>0 DEF StampInv, ObjectInv
  <2>4. UpdateInv'
    BY <2>0 DEF UpdateInv, Updating, Saving
  <2>5. CacheInv'
    <3>1. ~Fresh'
      BY <1>2, <2>0 DEF Fresh, StampInv
    <3>2. QED
      BY <3>1 DEF CacheInv
  <2>6. AloneInv'
    <3>1. ~overlapped => \A q \in Requests \ {r} : at[q] \notin Saving
      BY <2>0 DEF UpdateInv, Updating, Saving
    <3>2. QED
      BY <2>0, <3>1 DEF AloneInv, Good, Saving
  <2>7. QED
    BY <2>1, <2>2, <2>3, <2>4, <2>5, <2>6
<1>3. QED
  BY <1>1, <1>2

\* A save has failed, or a summary is stored.
LEMMA EndingsKeep ==
    ASSUME SettingsInv, NEW r \in Requests, SaveFails(r) \/ StoreSummary(r)
    PROVE  SettingsInv'
<1>1. CASE SaveFails(r)
  <2>1. Updating(r)
    BY <1>1 DEF SaveFails, Updating, SettingsInv, UpdateInv, Saving
  <2>2. QED
    BY <1>1, <2>1, EndKeeps DEF SaveFails
<1>2. CASE StoreSummary(r)
  BY <1>2, EndKeeps DEF StoreSummary, storeVars, historyVars
<1>3. QED
  BY <1>1, <1>2

\* An update is acknowledged.  Alone, its value is in the file, and what the cache showed
\* of other values for it is gone with the file they were shown for.
LEMMA InvalidateKeeps ==
    ASSUME SettingsInv, NEW r \in Requests, Invalidate(r)
    PROVE  SettingsInv'
<1> USE DEF SettingsInv
<1> DEFINE k == key[r]
<1>0. /\ at[r] = "invalidate" /\ Ends(r)
      /\ acked' = [acked EXCEPT ![k] = r]
      /\ tried' = [tried EXCEPT ![k] = IF overlapped THEN @ \ {r} ELSE {}]
      /\ UNCHANGED <<nested, inode, file, tmp, time, cache, overlapped>>
  BY DEF Invalidate, storeVars
<1>1. Updating(r) /\ k \in Keys /\ r \in Values
  BY <1>0, SettingsMarkers DEF UpdateInv, Updating, Saving, ConfigTyped
<1> HIDE DEF k
<1>2. /\ at' \in [Requests -> {"idle", "load", "read", "apply", "open", "write", "rename",
                            "invalidate", "summarise", "done"}]
      /\ key' \in [Requests -> Keys \union {Missing}]
      /\ ref' \in [Requests -> Objects] /\ seen' \in [Requests -> Nat]
      /\ handle' \in [Requests -> Inodes] /\ object' \in [Objects -> Settings]
      /\ at'[r] = "done" /\ key'[r] = Missing /\ ref'[r] = <<r, "own">>
      /\ \A q \in Requests \ {r} :
               /\ at'[q] = at[q] /\ key'[q] = key[q] /\ ref'[q] = ref[q]
               /\ seen'[q] = seen[q] /\ handle'[q] = handle[q]
               /\ object'[ref[q]] = object[ref[q]]
      /\ cache # Missing => object'[cache.object] = object[cache.object]
  BY <1>0, EndFacts
<1>3. /\ acked'[k] = r /\ tried'[k] = (IF overlapped THEN tried[k] \ {r} ELSE {})
      /\ \A l \in Keys \ {k} : acked'[l] = acked[l] /\ tried'[l] = tried[l]
      /\ acked' \in [Keys -> Values] /\ tried' \in [Keys -> SUBSET Requests]
  BY <1>0, <1>1 DEF ConfigTyped
<1>4. ConfigTyped'
  BY <1>0, <1>2, <1>3 DEF ConfigTyped
<1>5. FileInv'
  BY <1>0, <1>2 DEF FileInv
<1>6. StampInv' /\ ObjectInv'
  BY <1>0, <1>2 DEF StampInv, ObjectInv
<1>7. UpdateInv'
  <2>1. \A q \in Requests \ {r} : Updating(q)' <=> Updating(q)
    BY <1>2 DEF Updating
  <2>2. \A q \in Requests \ {r} : Updating(q) => overlapped /\ key[q] \in Keys /\ q \in tried[key[q]]
    BY <1>1 DEF UpdateInv, Updating, ConfigTyped
  <2>3. ~Updating(r)'
    BY <1>2 DEF Updating
  <2>4. \A q \in Requests : Updating(q)' => q \in tried'[key'[q]]
    BY <1>2, <1>3, <2>1, <2>2, <2>3
  <2>5. \A q, p \in Requests : Updating(q)' /\ Updating(p)' /\ q # p => overlapped'
    BY <1>0, <2>1, <2>2, <2>3
  <2>6. QED
    BY <1>2, <2>4, <2>5 DEF UpdateInv, Saving
<1>8. CacheInv'
  <2> SUFFICES ASSUME Fresh', inode'[file'].content # Corrupt
               PROVE  CacheInv'
    BY DEF CacheInv
  <2>1. Fresh /\ inode[file].content # Corrupt /\ object'[cache.object] = object[cache.object]
    BY <1>0, <1>2 DEF Fresh
  <2>2. CASE overlapped
    <3>1. ASSUME NEW l \in Keys, NEW value, value = object[cache.object][l]
          PROVE  value = inode[file].content[l] \/ (nested /\ value \in tried'[l] /\ at'[value] # "invalidate")
      <4>1. value = inode[file].content[l] \/ (nested /\ value \in tried[l] /\ at[value] # "invalidate")
        BY <2>1, <3>1 DEF CacheInv
      <4>2. value \in tried[l] => value \in Requests
        BY DEF ConfigTyped
      <4>3. QED
        BY <1>0, <1>2, <1>3, <2>2, <4>1, <4>2
    <3>2. QED
      BY <1>0, <2>1, <2>2, <3>1 DEF CacheInv
  <2>3. CASE ~overlapped
    <3>1. \A l \in Keys : object[cache.object][l] = inode[file].content[l]
      BY <1>0, <2>1, <2>3 DEF CacheInv
    <3>2. QED
      BY <1>0, <2>1, <3>1 DEF CacheInv
  <2>4. QED
    BY <2>2, <2>3
<1>9. AloneInv'
  <2>1. ~overlapped => \A q \in Requests \ {r} : at[q] \notin Saving
    BY <1>0 DEF UpdateInv, Updating, Saving
  <2>2. ~overlapped => inode[file].content # Corrupt /\ inode[file].content[k] = r
                       /\ \A l \in Keys : inode[file].content[l] \in {acked[l]} \union tried[l]
    BY <1>0 DEF AloneInv, Good, k
  <2>3. QED
    BY <1>0, <1>2, <1>3, <2>1, <2>2 DEF AloneInv, Good, Saving
<1>10. QED
  BY <1>4, <1>5, <1>6, <1>7, <1>8, <1>9

\* A restart leaves the two files.
LEMMA MemoryIsLost ==
    ASSUME SettingsInv, LoseMemory
    PROVE  SettingsInv'
<1> USE DEF SettingsInv
<1>0. /\ UNCHANGED <<nested, inode, file, tmp, time, acked, tried, overlapped>>
      /\ cache' = Missing /\ object' = [o \in Objects |-> Started]
      /\ at' = [r \in Requests |-> IF at[r] = "idle" THEN "idle" ELSE "done"]
      /\ key' = [r \in Requests |-> Missing] /\ ref' = [r \in Requests |-> <<r, "own">>]
      /\ seen' = [r \in Requests |-> 0] /\ handle' = [r \in Requests |-> First]
  BY DEF LoseMemory, storeVars
<1>1. ConfigTyped'
  BY <1>0, SettingsMarkers DEF ConfigTyped
<1>2. FileInv' /\ StampInv' /\ ObjectInv'
  BY <1>0 DEF FileInv, StampInv, ObjectInv
<1>3. UpdateInv' /\ CacheInv'
  BY <1>0 DEF UpdateInv, CacheInv, Updating, Fresh, Saving
<1>4. AloneInv'
  BY <1>0 DEF AloneInv, Good
<1>5. QED
  BY <1>1, <1>2, <1>3, <1>4

\* Nothing but the summary, or nothing, changes.
LEMMA SettingsStutter ==
    ASSUME SettingsInv, SummaryExpires \/ UNCHANGED configVars
    PROVE  SettingsInv'
<1> USE DEF SettingsInv
<1>0. UNCHANGED <<nested, inode, file, tmp, time, object, cache, at, key, ref, seen, handle,
                  acked, tried, overlapped>>
  BY DEF SummaryExpires, configVars, storeVars, memoryVars, threadVars, historyVars
<1>1. ConfigTyped'
  BY <1>0 DEF ConfigTyped
<1>2. FileInv' /\ StampInv' /\ ObjectInv' /\ UpdateInv'
  BY <1>0 DEF FileInv, StampInv, ObjectInv, UpdateInv, Updating
<1>3. CacheInv' /\ AloneInv'
  BY <1>0 DEF CacheInv, Fresh, AloneInv, Good
<1>4. QED
  BY <1>1, <1>2, <1>3

LEMMA SettingsStep == SettingsInv /\ [Next]_vars => SettingsInv'
<1> SUFFICES ASSUME SettingsInv, [Next]_vars
             PROVE  SettingsInv'
  OBVIOUS
<1>1. ASSUME NEW c \in Clients,
             RequestSettings(c) \/ RequestAgent(c) \/ RequestAnything(c) \/ RequestRefused(c)
      PROVE  SettingsInv'
  <2>1. CASE RequestSettings(c)
    BY <2>1, AskKeeps DEF RequestSettings
  <2>2. CASE RequestAgent(c) \/ RequestAnything(c) \/ RequestRefused(c)
    BY <2>2, SettingsStutter DEF RequestAgent, RequestAnything, RequestRefused
  <2>3. QED
    BY <1>1, <2>1, <2>2
<1>2. CASE Serve
  <2>1. CASE SummaryExpires
    BY <2>1, SettingsStutter
  <2>2. ASSUME NEW r \in Requests,
               \/ Load(r) \/ Read(r) \/ StoreSummary(r)
               \/ Apply(r) \/ Open(r) \/ Write(r) \/ Rename(r) \/ SaveFails(r) \/ Invalidate(r)
        PROVE  SettingsInv'
    BY <2>2, LoadKeeps, ReadKeeps, ApplyKeeps, OpenKeeps, WriteKeeps, RenameKeeps, EndingsKeep,
       InvalidateKeeps
  <2>3. QED
    BY <1>2, <2>1, <2>2 DEF Serve, ConfigStep
<1>3. CASE Restart
  BY <1>3, MemoryIsLost DEF Restart
<1>4. CASE TimePasses \/ RunAgents \/ Push \/ UNCHANGED vars
  BY <1>4, SettingsStutter DEF TimePasses, RunAgents, Push, vars
<1>5. QED
  BY <1>1, <1>2, <1>3, <1>4 DEF Next

\* Updates that do not overlap are never lost and leave a whole file, for any number of
\* settings, threads, failures and restarts (_save_config_file, update_*).
THEOREM UpdatesAreKept == Spec => []UpdatesAloneAreKept
<1>1. SettingsInv => UpdatesAloneAreKept
  BY DEF SettingsInv, AloneInv, Good, UpdatesAloneAreKept
<1>2. QED
  BY <1>1, SettingsInit, SettingsStep, PTL DEF Spec

\* However updates overlap, the cache never answers with another file's settings: the file
\* and the cache differ by unacknowledged updates in place only (load_config_from_file).
THEOREM CacheFollowsFile == Spec => []CacheDiffersByUnsaved
<1>1. SettingsInv => CacheDiffersByUnsaved
  BY DEF SettingsInv, CacheInv, CacheDiffersByUnsaved
<1>2. QED
  BY <1>1, SettingsInit, SettingsStep, PTL DEF Spec

-----------------------------------------------------------------------------
(* The types: the memory of the limiter *)

\* Who is remembered has a bucket, and no more are than may be.
MemoryTyped ==
    /\ recent \in Seq(Clients) /\ IsInjective(recent) /\ Len(recent) <= MaxClients
    /\ \A c \in Clients : c \in ToSet(recent) <=> bucket[c] # None
    /\ \A c \in Clients : /\ bucket[c].since \in -2 .. Minutes /\ bucket[c].since <= minute
                          /\ bucket[c].count <= Limit
    /\ forgotten \subseteq Clients
    /\ triggers \in [Clients -> 0 .. TriggerLimit]
    /\ running <= MaxAgents
    /\ stray \subseteq Agents

LEMMA LetInTyping ==
    ASSUME DashboardInv, MemoryTyped, NEW c \in Clients, LetIn(c)
    PROVE  /\ recent' \in Seq(Clients) /\ IsInjective(recent') /\ Len(recent') <= MaxClients
           /\ \A d \in Clients : d \in ToSet(recent') <=> bucket'[d] # None
           /\ \A d \in Clients : /\ bucket'[d].since \in -2 .. Minutes /\ bucket'[d].since <= minute'
                                 /\ bucket'[d].count <= Limit
           /\ forgotten' \subseteq Clients
<1> USE GatewayAssumption
<1> DEFINE evicted == IF bucket[c] = None /\ Len(recent) >= MaxClients THEN {Head(recent)} ELSE {}
           count == IF bucket[c].since = minute THEN bucket[c].count + 1 ELSE 1
           fresh == [since |-> minute, count |-> count]
           left == IF evicted = {} THEN recent ELSE Tail(recent)
<1>1. /\ recent' = Touched(left, c)
      /\ bucket' = [d \in Clients |-> IF d = c THEN fresh ELSE IF d \in evicted THEN None ELSE bucket[d]]
      /\ forgotten' = forgotten \union evicted /\ minute' = minute /\ Allowed(c)
  BY DEF LetIn
<1>2. /\ minute \in 0 .. Minutes /\ minute \in Nat /\ Minutes \in Nat
      /\ bucket \in [Clients -> [since : Int, count : Nat]]
      /\ recent \in Seq(Clients) /\ IsInjective(recent) /\ Len(recent) <= MaxClients /\ Len(recent) \in Nat
      /\ \A d \in Clients : d \in ToSet(recent) <=> bucket[d] # None
  BY DEF DashboardInv, InTime, LimiterInv, LimiterTyped, MemoryTyped
<1>3. count \in Nat /\ count <= Limit
  <2>1. bucket[c].since = minute => bucket[c].count < Limit
    BY <1>1, <1>2 DEF Allowed
  <2>2. bucket[c].count \in Nat
    BY <1>2
  <2>3. QED
    BY <2>1, <2>2
<1>4. fresh.since = minute /\ fresh.count = count /\ fresh # None
  <2>1. fresh.since = minute /\ fresh.count = count /\ None.since = -2
    BY DEF None
  <2>2. QED
    BY <1>2, <2>1
<1>5. /\ left \in Seq(Clients) /\ IsInjective(left) /\ ToSet(left) = ToSet(recent) \ evicted
      /\ evicted \subseteq ToSet(recent) /\ evicted \subseteq Clients /\ c \notin evicted
      /\ Len(left) <= MaxClients /\ (c \notin ToSet(left) => Len(left) < MaxClients) /\ Len(left) \in Nat
  <2>1. CASE evicted = {}
    <3>1. bucket[c] = None => Len(recent) < MaxClients
      <4>1. ~(bucket[c] = None /\ Len(recent) >= MaxClients)
        BY <2>1
      <4>2. QED
        BY <1>2, <4>1
    <3>2. left = recent
      BY <2>1
    <3> HIDE DEF evicted, left
    <3>3. QED
      BY <1>2, <2>1, <3>1, <3>2
  <2>2. CASE evicted # {}
    <3>1. /\ evicted = {Head(recent)} /\ bucket[c] = None /\ Len(recent) = MaxClients /\ left = Tail(recent)
      <4>1. bucket[c] = None /\ Len(recent) >= MaxClients
        BY <2>2
      <4>2. Len(recent) = MaxClients
        BY <1>2, <4>1
      <4>3. QED
        BY <2>2, <4>1, <4>2
    <3>2. recent # <<>>
      BY <1>2, <3>1
    <3>3. /\ Tail(recent) \in Seq(Clients) /\ IsInjective(Tail(recent))
          /\ ToSet(Tail(recent)) = ToSet(recent) \ {Head(recent)} /\ Head(recent) \in ToSet(recent)
          /\ Len(Tail(recent)) = Len(recent) - 1
      BY <1>2, <3>2, TailFacts
    <3>4. ToSet(recent) \subseteq Clients
      BY <1>2 DEF ToSet
    <3> HIDE DEF evicted, left
    <3>5. c \notin evicted /\ evicted \subseteq ToSet(recent) /\ evicted \subseteq Clients
      BY <1>2, <3>1, <3>3, <3>4
    <3>6. QED
      BY <1>2, <3>1, <3>3, <3>5
  <2>3. QED
    BY <2>1, <2>2
<1> HIDE DEF evicted, count, fresh, left
<1>6. /\ recent' \in Seq(Clients) /\ IsInjective(recent') /\ ToSet(recent') = ToSet(left) \union {c}
      /\ Len(recent') = IF c \in ToSet(left) THEN Len(left) ELSE Len(left) + 1
  BY <1>1, <1>5, TouchedFacts
<1>7. Len(recent') <= MaxClients
  BY <1>5, <1>6
<1>8. ASSUME NEW d \in Clients
      PROVE  d \in ToSet(recent') <=> bucket'[d] # None
  <2>1. CASE d = c
    BY <1>1, <1>4, <1>6, <2>1
  <2>2. CASE d # c /\ d \in evicted
    BY <1>1, <1>5, <1>6, <2>2
  <2>3. CASE d # c /\ d \notin evicted
    BY <1>1, <1>2, <1>5, <1>6, <2>3
  <2>4. QED
    BY <2>1, <2>2, <2>3
<1>9. ASSUME NEW d \in Clients
      PROVE  /\ bucket'[d].since \in -2 .. Minutes /\ bucket'[d].since <= minute'
             /\ bucket'[d].count <= Limit
  <2>1. CASE d = c
    <3>1. bucket'[d] = fresh
      BY <1>1, <2>1
    <3>2. QED
      BY <1>1, <1>2, <1>3, <1>4, <3>1
  <2>2. CASE d # c /\ d \in evicted
    <3>1. bucket'[d] = None /\ None.since = -2 /\ None.count = 0
      BY <1>1, <2>2 DEF None
    <3>2. QED
      BY <1>1, <1>2, <3>1
  <2>3. CASE d # c /\ d \notin evicted
    <3>1. bucket'[d] = bucket[d]
      BY <1>1, <2>3
    <3>2. QED
      BY <1>1, <3>1 DEF MemoryTyped
  <2>4. QED
    BY <2>1, <2>2, <2>3
<1>10. QED
  BY <1>1, <1>5, <1>6, <1>7, <1>8, <1>9 DEF MemoryTyped

LEMMA AgentTyping ==
    ASSUME DashboardInv, MemoryTyped,
           \/ AgentStep \/ UNCHANGED agentVars
           \/ \E c \in Clients, a \in Agents : Trigger(c, a) \/ Rerun(a)
    PROVE  triggers' \in [Clients -> 0 .. TriggerLimit] /\ running' <= MaxAgents /\ stray' \subseteq Agents
<1> USE GatewayAssumption
<1>1. running \in Nat /\ running <= MaxAgents /\ triggers \in [Clients -> 0 .. TriggerLimit]
      /\ stray \subseteq Agents
  BY DEF DashboardInv, AgentInv, MemoryTyped
<1>2. Free => running' <= MaxAgents
  BY <1>1 DEF Free
<1>3. CASE UNCHANGED agentVars
  BY <1>1, <1>3 DEF agentVars
<1>4. ASSUME NEW c \in Clients, TriggerExpires(c)
      PROVE  triggers' \in [Clients -> 0 .. TriggerLimit] /\ UNCHANGED <<running, stray>>
  BY <1>1, <1>4 DEF TriggerExpires
<1>5. ASSUME NEW a \in Agents, Spawn(a) \/ SpawnFails(a) \/ Exit(a) \/ Release(a) \/ Rerun(a)
      PROVE  triggers' = triggers /\ (running' = running \/ Free) /\ stray' \subseteq Agents
  BY <1>1, <1>5 DEF Spawn, SpawnFails, Exit, Release, Rerun
<1>6. ASSUME NEW c \in Clients, NEW a \in Agents, Trigger(c, a)
      PROVE  triggers' \in [Clients -> 0 .. TriggerLimit] /\ running' <= MaxAgents /\ stray' = stray
  <2>1. triggers' = [triggers EXCEPT ![c] = @ + 1] /\ triggers[c] < TriggerLimit /\ stray' = stray
        /\ ((running < MaxAgents /\ running' = running + 1) \/ running' = running)
    BY <1>6 DEF Trigger
  <2>2. triggers[c] \in 0 .. TriggerLimit
    BY <1>1
  <2>3. triggers[c] + 1 \in 0 .. TriggerLimit
    BY <2>1, <2>2
  <2>4. triggers' \in [Clients -> 0 .. TriggerLimit]
    BY <1>1, <2>1, <2>3
  <2>5. QED
    BY <1>1, <2>1, <2>4
<1>7. QED
  BY <1>1, <1>2, <1>3, <1>4, <1>5, <1>6 DEF AgentStep

LEMMA LimiterTyping ==
    ASSUME DashboardInv, MemoryTyped, UNCHANGED limiterVars \/ MinutePasses
    PROVE  /\ recent' \in Seq(Clients) /\ IsInjective(recent') /\ Len(recent') <= MaxClients
           /\ \A d \in Clients : d \in ToSet(recent') <=> bucket'[d] # None
           /\ \A d \in Clients : /\ bucket'[d].since \in -2 .. Minutes /\ bucket'[d].since <= minute'
                                 /\ bucket'[d].count <= Limit
           /\ forgotten' \subseteq Clients
<1>1. UNCHANGED <<recent, bucket, forgotten>> /\ minute' \in {minute, minute + 1}
  BY DEF limiterVars, MinutePasses
<1>2. minute \in Nat /\ Minutes \in Nat
  BY GatewayAssumption DEF DashboardInv, InTime
<1>3. ASSUME NEW d \in Clients
      PROVE  bucket'[d].since \in -2 .. Minutes /\ bucket'[d].since <= minute' /\ bucket'[d].count <= Limit
  <2>1. bucket[d].since \in -2 .. Minutes /\ bucket[d].since <= minute /\ bucket[d].count <= Limit
    BY DEF MemoryTyped
  <2>2. QED
    BY <1>1, <1>2, <2>1
<1>4. QED
  BY <1>1, <1>3 DEF MemoryTyped

LEMMA MemoryStep ==
    ASSUME DashboardInv, MemoryTyped, Next
    PROVE  MemoryTyped'
<1>1. ASSUME NEW c \in Clients, RequestSettings(c) \/ RequestAgent(c) \/ RequestAnything(c)
      PROVE  MemoryTyped'
  <2>1. LetIn(c) /\ (UNCHANGED agentVars \/ \E a \in Agents : Trigger(c, a) \/ Rerun(a))
    BY <1>1 DEF RequestSettings, RequestAgent, RequestAnything, Admitted
  <2>2. QED
    BY <2>1, LetInTyping, AgentTyping DEF MemoryTyped
<1>2. CASE /\ UNCHANGED limiterVars \/ MinutePasses
           /\ UNCHANGED agentVars \/ AgentStep
  BY <1>2, LimiterTyping, AgentTyping DEF MemoryTyped
<1>3. CASE Restart
  <2>1. /\ bucket' = [c \in Clients |-> None] /\ recent' = <<>> /\ forgotten' = Clients
        /\ triggers' = [c \in Clients |-> 0] /\ running' = 0 /\ minute' = minute
        /\ stray' \subseteq Agents
    BY <1>3 DEF Restart, GatewayRestarts
  <2>2. /\ recent' \in Seq(Clients) /\ IsInjective(recent') /\ ToSet(recent') = {} /\ Len(recent') = 0
    BY <2>1 DEF IsInjective, ToSet
  <2>3. ASSUME NEW d \in Clients
        PROVE  /\ bucket'[d] = None /\ bucket'[d].since \in -2 .. Minutes /\ bucket'[d].since <= minute'
               /\ bucket'[d].count <= Limit
    <3>1. bucket'[d] = None /\ None.since = -2 /\ None.count = 0 /\ minute' \in Nat
      BY <2>1 DEF None, DashboardInv, LimiterInv, LimiterTyped
    <3>2. QED
      BY <3>1, GatewayAssumption
  <2>4. QED
    BY <2>1, <2>2, <2>3, GatewayAssumption DEF MemoryTyped
<1>4. ASSUME NEW c \in Clients, RequestRefused(c)
      PROVE  MemoryTyped'
  BY <1>2, <1>4 DEF RequestRefused, Refuse
<1>5. CASE TimePasses \/ Serve \/ RunAgents \/ Push
  BY <1>2, <1>5 DEF TimePasses, Serve, RunAgents, Push
<1>6. QED
  BY <1>1, <1>3, <1>4, <1>5 DEF Next

LEMMA MemoryInit == Init => MemoryTyped
<1> SUFFICES ASSUME Init
             PROVE  MemoryTyped
  OBVIOUS
<1>1. /\ recent = <<>> /\ bucket = [c \in Clients |-> None] /\ minute = 0 /\ forgotten = {}
      /\ triggers = [c \in Clients |-> 0] /\ running = 0 /\ stray = {}
  BY DEF Init, GatewayInit
<1>2. recent \in Seq(Clients) /\ IsInjective(recent) /\ ToSet(recent) = {} /\ Len(recent) = 0
  BY <1>1 DEF IsInjective, ToSet
<1>3. \A c \in Clients : /\ bucket[c] = None /\ bucket[c].since \in -2 .. Minutes
                         /\ bucket[c].since <= minute /\ bucket[c].count <= Limit
  <2>1. None.since = -2 /\ None.count = 0
    BY DEF None
  <2>2. QED
    BY <1>1, <2>1, GatewayAssumption
<1>4. QED
  BY <1>1, <1>2, <1>3, GatewayAssumption DEF MemoryTyped

-----------------------------------------------------------------------------
(* The types: the hub *)

\* The list of connections does not outgrow its limit, and the lock has one holder.
HubBounds ==
    /\ status \in Versions
    /\ hashed \in Versions \union {Never} /\ built \in Versions \union {Never}
    /\ lost \in Versions \union {Never}
    /\ shown \in [Sockets -> Versions \union {Never}]
    /\ IsFiniteSet(listed) /\ Cardinality(listed) <= MaxConnections
    /\ dead \subseteq Sockets
    /\ holder = {} \/ \E c \in Sockets : holder = {c}
    /\ stuck \in BOOLEAN

LEMMA FewerListed ==
    ASSUME IsFiniteSet(listed), Cardinality(listed) <= MaxConnections, listed' \subseteq listed
    PROVE  IsFiniteSet(listed') /\ Cardinality(listed') <= MaxConnections
<1>1. IsFiniteSet(listed') /\ Cardinality(listed') <= Cardinality(listed)
  BY FS_Subset
<1>2. Cardinality(listed) \in Nat /\ Cardinality(listed') \in Nat
  BY <1>1, FS_CardinalityType
<1>3. QED
  BY <1>1, <1>2, HubAssumption

LEMMA SocketBounds ==
    ASSUME HubInv, HubBounds, NEW c \in Sockets, Accept(c) \/ SocketStep(c) \/ Leave(c)
    PROVE  HubBounds'
<1>1. CASE Stops
  BY <1>1 DEF Stops, HubBounds
<1>2. CASE ~Stops
  <2>1. UNCHANGED <<status, hashed, built, lost, stuck, dead>>
    BY <1>2 DEF Accept, SocketStep, Register, Refused, Disconnect, Leave, hubConstants
  <2>2. holder' \in {holder, {}, {c}}
    BY <1>2 DEF Accept, SocketStep, Register, Refused, Disconnect, Leave
  <2>3. shown' \in {shown, [shown EXCEPT ![c] = status], [shown EXCEPT ![c] = Never]}
    BY <1>2 DEF Accept, SocketStep, Register, Refused, Disconnect, Leave
  <2>4. shown' \in [Sockets -> Versions \union {Never}]
    BY <2>3 DEF HubBounds
  <2>5. \/ listed' \subseteq listed
        \/ listed' = listed \union {c} /\ Cardinality(listed) < MaxConnections
    BY <1>2 DEF Accept, SocketStep, Register, Refused, Disconnect, Leave
  <2>6. IsFiniteSet(listed') /\ Cardinality(listed') <= MaxConnections
    <3>1. IsFiniteSet(listed) /\ Cardinality(listed) <= MaxConnections /\ Cardinality(listed) \in Nat
      BY FS_CardinalityType DEF HubBounds
    <3>2. CASE listed' = listed \union {c} /\ Cardinality(listed) < MaxConnections
      <4>1. IsFiniteSet(listed') /\ Cardinality(listed') =
                IF c \in listed THEN Cardinality(listed) ELSE Cardinality(listed) + 1
        BY <3>1, <3>2, FS_AddElement
      <4>2. QED
        BY <3>1, <3>2, <4>1, HubAssumption
    <3>3. QED
      BY <2>5, <3>1, <3>2, FewerListed
  <2>7. QED
    BY <2>1, <2>2, <2>4, <2>6 DEF HubBounds
<1>3. QED
  BY <1>1, <1>2

LEMMA WatcherBounds ==
    ASSUME HubInv, HubBounds, WatcherStep
    PROVE  HubBounds'
<1>1. CASE Stops
  BY <1>1 DEF Stops, HubBounds
<1>2. CASE ~Stops
  <2>1. /\ UNCHANGED <<status, holder, stuck>> /\ listed' \subseteq listed
        /\ hashed' \in {hashed, status} /\ built' \in {built, status} /\ lost' \in {lost, hashed}
    BY <1>2 DEF WatcherStep, Watch, Build, Broadcast, Send, Sent, unchangedByWatcher
  <2>2. \/ UNCHANGED shown \/ \E c \in Sockets : shown' = [shown EXCEPT ![c] = built]
    BY <1>2 DEF WatcherStep, Watch, Build, Broadcast, Send, Sent
  <2>3. shown' \in [Sockets -> Versions \union {Never}]
    BY <2>2 DEF HubBounds
  <2>4. dead' \subseteq Sockets
    BY <1>2 DEF WatcherStep, Watch, Build, Broadcast, Send, Sent, HubBounds
  <2>5. IsFiniteSet(listed') /\ Cardinality(listed') <= MaxConnections
    BY <2>1, FewerListed DEF HubBounds
  <2>6. QED
    BY <2>1, <2>3, <2>4, <2>5 DEF HubBounds
<1>3. QED
  BY <1>1, <1>2

LEMMA HubBoundsStep ==
    ASSUME HubInv, HubBounds, HubStep \/ HubRestarts \/ UNCHANGED hubVars
    PROVE  HubBounds'
<1>1. CASE StatusChanges
  <2>1. status' \in Versions /\ UNCHANGED <<listed, shown, hashed, built, dead, holder, stuck, lost>>
    BY <1>1, HubAssumption DEF StatusChanges, HubBounds, Versions
  <2>2. QED
    BY <2>1 DEF HubBounds
<1>2. CASE HubRestarts
  <2>1. IsFiniteSet({}) /\ Cardinality({}) <= MaxConnections
    BY FS_EmptySet, HubAssumption
  <2>2. QED
    BY <1>2, <2>1 DEF HubRestarts, HubBounds
<1>3. CASE UNCHANGED hubVars
  BY <1>3 DEF hubVars, HubBounds
<1>4. QED
  BY <1>1, <1>2, <1>3, SocketBounds, WatcherBounds DEF HubStep

LEMMA HubBoundsInit == HubInit => HubBounds
<1>1. IsFiniteSet({}) /\ Cardinality({}) <= MaxConnections /\ 0 \in Versions
  BY FS_EmptySet, HubAssumption DEF Versions
<1>2. QED
  BY <1>1 DEF HubInit, HubBounds

-----------------------------------------------------------------------------
(* The types: the settings *)

\* No thread remembers a time to come.
SettingsBounds ==
    /\ \A r \in Requests : seen[r] <= time
    /\ summary \in Settings \union {Missing}
    /\ faults \in 0 .. MaxFaults

LEMMA EndBounds ==
    ASSUME SettingsInv, SettingsBounds, NEW r \in Requests, Ends(r), time' = time
    PROVE  \A q \in Requests : seen'[q] <= time'
<1>1. seen' = [seen EXCEPT ![r] = 0] /\ seen \in [Requests -> Nat] /\ time \in Nat
  BY DEF Ends, SettingsInv, ConfigTyped
<1>2. QED
  BY <1>1 DEF SettingsBounds

LEMMA ServeBounds ==
    ASSUME SettingsInv, SettingsBounds, ConfigStep
    PROVE  SettingsBounds'
<1>0. /\ seen \in [Requests -> Nat] /\ time \in Nat /\ MaxFaults \in Nat
      /\ \A i \in Inodes : inode[i].mtime <= time /\ inode[i].mtime \in Nat
      /\ file \in Inodes /\ \A r \in Requests : object[ref[r]] \in Settings
  BY ConfigAssumption DEF SettingsInv, ConfigTyped
<1>1. CASE SummaryExpires
  BY <1>1 DEF SummaryExpires, SettingsBounds, storeVars, threadVars, historyVars
<1>2. ASSUME NEW r \in Requests, Load(r)
      PROVE  SettingsBounds'
  <2>1. UNCHANGED <<time, summary, faults>> /\ seen' \in {seen, [seen EXCEPT ![r] = inode[file].mtime]}
    BY <1>2 DEF Load, storeVars, historyVars
  <2>2. QED
    BY <1>0, <2>1 DEF SettingsBounds
<1>3. ASSUME NEW r \in Requests, Read(r) \/ Apply(r)
      PROVE  SettingsBounds'
  <2>1. UNCHANGED <<time, seen, summary, faults>>
    BY <1>3 DEF Read, Apply, storeVars, historyVars
  <2>2. QED
    BY <2>1 DEF SettingsBounds
<1>4. ASSUME NEW r \in Requests, Open(r) \/ Write(r)
      PROVE  SettingsBounds'
  <2>1. UNCHANGED <<seen, summary, faults>> /\ time' = time + 1
    BY <1>4 DEF Open, Write, Written, memoryVars, historyVars
  <2>2. QED
    BY <1>0, <2>1 DEF SettingsBounds
<1>5. ASSUME NEW r \in Requests, Rename(r)
      PROVE  SettingsBounds'
  <2>1. UNCHANGED <<time, summary, faults>> /\ (seen' = seen \/ Ends(r))
    BY <1>5 DEF Rename, historyVars
  <2>2. QED
    BY <2>1, EndBounds DEF SettingsBounds
<1>6. ASSUME NEW r \in Requests, StoreSummary(r) \/ Invalidate(r)
      PROVE  SettingsBounds'
  <2>1. Ends(r) /\ UNCHANGED <<time, faults>> /\ summary' \in Settings \union {Missing}
    BY <1>0, <1>6 DEF StoreSummary, Invalidate, storeVars, historyVars
  <2>2. QED
    BY <2>1, EndBounds DEF SettingsBounds
<1>7. ASSUME NEW r \in Requests, SaveFails(r)
      PROVE  SettingsBounds'
  <2>1. Ends(r) /\ UNCHANGED <<time, summary>> /\ faults < MaxFaults /\ faults' = faults + 1
    BY <1>7 DEF SaveFails
  <2>2. faults' \in 0 .. MaxFaults
    BY <1>0, <2>1 DEF SettingsBounds
  <2>3. QED
    BY <2>1, <2>2, EndBounds DEF SettingsBounds
<1>8. QED
  BY <1>1, <1>2, <1>3, <1>4, <1>5, <1>6, <1>7 DEF ConfigStep

LEMMA BoundsStep ==
    ASSUME SettingsInv, SettingsBounds, Next
    PROVE  SettingsBounds'
<1>1. CASE Serve
  BY <1>1, ServeBounds DEF Serve
<1>2. CASE Restart
  <2>1. /\ seen' = [r \in Requests |-> 0] /\ time' = time /\ summary' = Missing
        /\ faults < MaxFaults /\ faults' = faults + 1
    BY <1>2 DEF Restart, LoseMemory, storeVars
  <2>2. time \in Nat
    BY DEF SettingsInv, ConfigTyped
  <2>3. faults' \in 0 .. MaxFaults
    BY <2>1, ConfigAssumption DEF SettingsBounds
  <2>4. \A r \in Requests : seen'[r] <= time'
    BY <2>1, <2>2
  <2>5. QED
    BY <2>1, <2>3, <2>4 DEF SettingsBounds
<1>3. CASE UNCHANGED <<time, seen, summary, faults>>
  BY <1>3 DEF SettingsBounds
<1>4. ASSUME NEW c \in Clients,
             RequestSettings(c) \/ RequestAgent(c) \/ RequestAnything(c) \/ RequestRefused(c)
      PROVE  SettingsBounds'
  <2>1. CASE RequestSettings(c)
    BY <1>3, <2>1 DEF RequestSettings, AskSummary, AskUpdate, storeVars, memoryVars, historyVars
  <2>2. CASE RequestAgent(c) \/ RequestAnything(c) \/ RequestRefused(c)
    BY <1>3, <2>2 DEF RequestAgent, RequestAnything, RequestRefused, configVars, storeVars,
       memoryVars, threadVars, historyVars
  <2>3. QED
    BY <1>4, <2>1, <2>2
<1>5. CASE TimePasses \/ RunAgents \/ Push
  BY <1>3, <1>5 DEF TimePasses, RunAgents, Push, configVars, storeVars, memoryVars, threadVars,
     historyVars
<1>6. QED
  BY <1>1, <1>2, <1>4, <1>5 DEF Next

-----------------------------------------------------------------------------
(* The types: the theorem *)

BoundsInv == MemoryTyped /\ HubBounds /\ SettingsBounds /\ kind \in {"settings", "agents", "anything", "status"}

WholeInv == DashboardInv /\ SettingsInv /\ BoundsInv

LEMMA WholeInit == Init => WholeInv
<1> SUFFICES ASSUME Init
             PROVE  WholeInv
  OBVIOUS
<1>1. MemoryTyped /\ HubBounds /\ DashboardInv /\ SettingsInv
  BY MemoryInit, HubBoundsInit, InitInv, SettingsInit DEF Init
<1>2. SettingsBounds
  <2>1. seen = [r \in Requests |-> 0] /\ time = 0 /\ summary = Missing /\ faults = 0
    BY DEF Init, ConfigInit
  <2>2. QED
    BY <2>1, ConfigAssumption DEF SettingsBounds
<1>3. kind \in {"settings", "agents", "anything", "status"}
  BY DEF Init
<1>4. QED
  BY <1>1, <1>2, <1>3 DEF WholeInv, BoundsInv

LEMMA WholeStep == WholeInv /\ [Next]_vars => WholeInv'
<1> SUFFICES ASSUME WholeInv, [Next]_vars
             PROVE  WholeInv'
  OBVIOUS
<1>1. DashboardInv' /\ SettingsInv' /\ HubInv
  BY StepInv, SettingsStep DEF WholeInv, DashboardInv
<1>2. CASE Next
  <2>1. MemoryTyped' /\ SettingsBounds'
    BY <1>2, MemoryStep, BoundsStep DEF WholeInv, BoundsInv
  <2>2. HubStep \/ HubRestarts \/ UNCHANGED hubVars
    BY <1>2 DEF Next, RequestSettings, RequestAgent, RequestAnything, RequestRefused, Admitted,
       TimePasses, Serve, RunAgents, Push, Restart
  <2>3. HubBounds'
    BY <1>1, <2>2, HubBoundsStep DEF WholeInv, BoundsInv
  <2>4. kind' = kind
    BY <1>2 DEF Next, RequestSettings, RequestAgent, RequestAnything, RequestRefused, Admitted,
       TimePasses, Serve, RunAgents, Push, Restart
  <2>5. QED
    BY <1>1, <2>1, <2>3, <2>4 DEF WholeInv, BoundsInv
<1>3. CASE UNCHANGED vars
  <2>1. MemoryTyped'
    BY <1>3 DEF vars, limiterVars, agentVars, WholeInv, BoundsInv, MemoryTyped
  <2>2. HubBounds'
    BY <1>1, <1>3, HubBoundsStep DEF vars, WholeInv, BoundsInv
  <2>3. SettingsBounds' /\ kind' = kind
    BY <1>3 DEF vars, configVars, storeVars, memoryVars, threadVars, historyVars, WholeInv, BoundsInv,
       SettingsBounds
  <2>4. QED
    BY <1>1, <2>1, <2>2, <2>3 DEF WholeInv, BoundsInv
<1>4. QED
  BY <1>2, <1>3

\* The types of the dashboard's parts: no more clients are remembered, agents counted and
\* connections listed than the limits allow, and the lock of the hub has one holder at most.
THEOREM DashboardTypeCorrect == Spec => []TypeOK
<1>1. WholeInv => TypeOK
  <2> SUFFICES ASSUME WholeInv
               PROVE  TypeOK
    OBVIOUS
  <2>1. DashboardInv /\ SettingsInv /\ MemoryTyped /\ HubBounds /\ SettingsBounds
        /\ kind \in {"settings", "agents", "anything", "status"}
    BY DEF WholeInv, BoundsInv
  <2>2. ConfigTypeOK
    <3>1. ConfigTyped /\ StampInv /\ time \in Nat
      BY <2>1 DEF SettingsInv, ConfigTyped
    <3>2. inode \in [Inodes -> [content : Settings \union {Corrupt}, mtime : 0 .. time]]
      <4>1. ASSUME NEW i \in Inodes
            PROVE  inode[i] \in [content : Settings \union {Corrupt}, mtime : 0 .. time]
        <5>1. inode[i] \in [content : Settings \union {Corrupt}, mtime : Nat] /\ inode[i].mtime <= time
          BY <3>1 DEF ConfigTyped
        <5>2. inode[i].mtime \in 0 .. time
          BY <3>1, <5>1
        <5>3. QED
          BY <5>1, <5>2
      <4>2. inode \in [Inodes -> [content : Settings \union {Corrupt}, mtime : Nat]]
        BY <3>1 DEF ConfigTyped
      <4>3. QED
        BY <4>1, <4>2
    <3>3. cache = Missing \/ (cache.mtime \in 0 .. time /\ cache.object \in Objects)
      BY <3>1 DEF ConfigTyped, StampInv, Objects
    <3>4. seen \in [Requests -> 0 .. time]
      <4>1. seen \in [Requests -> Nat] /\ \A r \in Requests : seen[r] <= time
        BY <2>1, <3>1 DEF ConfigTyped, SettingsBounds
      <4>2. \A n \in Nat : n <= time => n \in 0 .. time
        BY <3>1
      <4>3. QED
        BY <4>1, <4>2
    <3>5. tmp \in Inodes \union {Missing}
      BY <3>1, SettingsMarkers DEF ConfigTyped
    <3>6. QED
      BY <2>1, <3>1, <3>2, <3>3, <3>4, <3>5 DEF ConfigTyped, SettingsBounds, ConfigTypeOK
  <2>3. GatewayTypeOK
    <3>1. bucket \in [Clients -> [since : -2 .. Minutes, count : 0 .. Limit]]
      <4>1. bucket \in [Clients -> [since : Int, count : Nat]]
        BY <2>1 DEF DashboardInv, LimiterInv, LimiterTyped
      <4>2. ASSUME NEW c \in Clients
            PROVE  bucket[c] \in [since : -2 .. Minutes, count : 0 .. Limit]
        <5>1. bucket[c] \in [since : Int, count : Nat] /\ bucket[c].since \in -2 .. Minutes
              /\ bucket[c].count <= Limit
          BY <2>1, <4>1 DEF MemoryTyped
        <5>2. bucket[c].count \in 0 .. Limit
          BY <5>1, GatewayAssumption
        <5>3. QED
          BY <5>1, <5>2
      <4>3. QED
        BY <4>1, <4>2
    <3>2. running \in 0 .. MaxAgents
      BY <2>1, GatewayAssumption DEF DashboardInv, AgentInv, MemoryTyped
    <3>3. QED
      BY <2>1, <3>1, <3>2 DEF DashboardInv, InTime, LimiterInv, LimiterTyped, AgentInv, MemoryTyped,
         GatewayTypeOK
  <2>4. HubTypeOK
    <3>1. holder \subseteq Sockets /\ Cardinality(holder) <= 1
      BY <2>1, FS_EmptySet, FS_Singleton DEF HubBounds
    <3>2. HubTyped
      BY <2>1 DEF DashboardInv, HubInv
    <3>3. QED
      BY <2>1, <3>1, <3>2 DEF HubTyped, HubBounds, HubTypeOK
  <2>5. QED
    BY <2>1, <2>2, <2>3, <2>4 DEF TypeOK
<1>2. QED
  BY <1>1, WholeInit, WholeStep, PTL DEF Spec

=============================================================================
