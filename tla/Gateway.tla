------------------------------ MODULE Gateway ------------------------------
(***************************************************************************)
(* What stands between the clients and the work of the dashboard: the rate *)
(* limiter of all requests (backend/main.py), and the route that starts    *)
(* agents (routes/pipeline.py), with a limit for each client and one for   *)
(* the agents that run at once.  All counters are memory of the dashboard; *)
(* an agent is a process of a session of its own and survives it.          *)
(***************************************************************************)
EXTENDS Integers, FiniteSets, Recency

CONSTANTS
    Clients,
    Limit,              \* requests of a client in a minute
    MaxClients,         \* clients the limiter remembers
    Minutes,            \* bound: the clock
    Agents,             \* processes
    TriggerLimit,       \* triggers of a client within 60 seconds
    MaxAgents           \* agents at once

ASSUME GatewayAssumption ==
    /\ Limit \in Nat \ {0} /\ MaxClients \in Nat \ {0} /\ Minutes \in Nat
    /\ TriggerLimit \in Nat \ {0} /\ MaxAgents \in Nat \ {0}
    /\ IsFiniteSet(Agents)

VARIABLES
    minute,             \* the clock: the number of a bucket
    bucket,             \* of each client remembered: the last bucket, and its count
    recent,             \* the clients remembered, by the time they were last let in
    served,             \* history: requests let in, by minute, of clients not forgotten
    forgotten,          \* history: clients the limiter has forgotten
    triggers,           \* of each client: triggers of the last 60 seconds
    agent,              \* the processes
    running,            \* the counter of running agents
    stray               \* history: processes that were lost count of

limiterVars == <<minute, bucket, recent, served, forgotten>>
agentVars == <<triggers, agent, running, stray>>

Unserved == [m \in 0 .. Minutes |-> 0]
None == [since |-> -2, count |-> 0]

GatewayTypeOK ==
    /\ minute \in 0 .. Minutes
    /\ bucket \in [Clients -> [since : -2 .. Minutes, count : 0 .. Limit]]
    /\ Len(recent) <= MaxClients /\ IsInjective(recent)
    /\ \A c \in Clients : c \in ToSet(recent) <=> bucket[c] # None
    /\ served \in [Clients -> [0 .. Minutes -> Nat]]
    /\ forgotten \subseteq Clients
    /\ triggers \in [Clients -> 0 .. TriggerLimit]
    /\ agent \in [Agents -> {"free", "reserved", "alive", "exited"}]
    /\ running \in 0 .. MaxAgents
    /\ stray \subseteq Agents

GatewayInit ==
    /\ minute = 0
    /\ bucket = [c \in Clients |-> None]
    /\ recent = <<>>
    /\ served = [c \in Clients |-> Unserved]
    /\ forgotten = {}
    /\ triggers = [c \in Clients |-> 0]
    /\ agent = [a \in Agents |-> "free"]
    /\ running = 0 /\ stray = {}

-----------------------------------------------------------------------------
(* The rate limiter *)

\* Mutant of Allowed: a bucket that was full is not looked at in the next minute.
AllowedAfterwards(c) == bucket[c].since = minute => bucket[c].count < Limit

\* is_allowed: a client is refused while its last bucket is full, through the whole
\* minute after it as well.
Allowed(c) == bucket[c].since \in {minute - 1, minute} => bucket[c].count < Limit

\* A request is let in and counted, in a new bucket if need be; for a new client the one
\* that was let in longest ago is forgotten when there are too many.
LetIn(c) ==
    /\ Allowed(c)
    /\ LET evicted == IF bucket[c] = None /\ Len(recent) >= MaxClients THEN {Head(recent)} ELSE {}
           count == IF bucket[c].since = minute THEN bucket[c].count + 1 ELSE 1
       IN /\ recent' = Touched(IF evicted = {} THEN recent ELSE Tail(recent), c)
          /\ bucket' = [d \in Clients |-> IF d = c THEN [since |-> minute, count |-> count]
                                          ELSE IF d \in evicted THEN None ELSE bucket[d]]
          /\ forgotten' = forgotten \union evicted
          /\ served' = [d \in Clients |->
                          IF d \in forgotten' THEN Unserved
                          ELSE IF d = c THEN [served[d] EXCEPT ![minute] = @ + 1] ELSE served[d]]
    /\ UNCHANGED minute

\* A refused request leaves no trace (dispatch answers 429).
Refuse(c) == ~Allowed(c) /\ UNCHANGED limiterVars

MinutePasses ==
    /\ minute < Minutes
    /\ minute' = minute + 1
    /\ UNCHANGED <<bucket, recent, served, forgotten>>

-----------------------------------------------------------------------------
(* Agents *)

\* Mutant of Trigger: one slot more.
TriggerOneMore(c, a) ==
    /\ triggers[c] < TriggerLimit
    /\ triggers' = [triggers EXCEPT ![c] = @ + 1]
    /\ agent[a] = "free"
    /\ IF running <= MaxAgents
       THEN agent' = [agent EXCEPT ![a] = "reserved"] /\ running' = running + 1
       ELSE UNCHANGED <<agent, running>>
    /\ UNCHANGED stray

\* trigger_agent: a slot is reserved under a lock.  A trigger counts for its client also
\* when it is refused for the sake of the slots, or for its arguments.
Trigger(c, a) ==
    /\ triggers[c] < TriggerLimit
    /\ triggers' = [triggers EXCEPT ![c] = @ + 1]
    /\ agent[a] = "free"
    /\ IF running < MaxAgents
       THEN agent' = [agent EXCEPT ![a] = "reserved"] /\ running' = running + 1
       ELSE UNCHANGED <<agent, running>>
    /\ UNCHANGED stray

\* The oldest trigger of a client is more than 60 seconds old.
TriggerExpires(c) ==
    /\ triggers[c] > 0
    /\ triggers' = [triggers EXCEPT ![c] = @ - 1]
    /\ UNCHANGED <<agent, running, stray>>

Free == running' = IF running > 0 THEN running - 1 ELSE 0

\* The process is started, and a thread waits for it.
Spawn(a) ==
    /\ agent[a] = "reserved"
    /\ agent' = [agent EXCEPT ![a] = "alive"]
    /\ UNCHANGED <<triggers, running, stray>>

\* The process, or the thread, cannot be started; in the second case the slot is given
\* back although the process runs.
SpawnFails(a) ==
    /\ agent[a] = "reserved"
    /\ \/ agent' = [agent EXCEPT ![a] = "free"] /\ UNCHANGED stray
       \/ agent' = [agent EXCEPT ![a] = "alive"] /\ stray' = stray \union {a}
    /\ Free
    /\ UNCHANGED triggers

\* A process ends; nobody waits for a stray one.
Exit(a) ==
    /\ agent[a] = "alive"
    /\ agent' = [agent EXCEPT ![a] = IF a \in stray THEN "free" ELSE "exited"]
    /\ stray' = stray \ {a}
    /\ UNCHANGED <<triggers, running>>

\* The thread gives the slot back.
Release(a) ==
    /\ agent[a] = "exited"
    /\ agent' = [agent EXCEPT ![a] = "free"]
    /\ Free
    /\ UNCHANGED <<triggers, stray>>

\* rerun_from_stage starts a process outside all limits but that of requests.
Rerun(a) ==
    /\ agent[a] = "free"
    /\ agent' = [agent EXCEPT ![a] = "alive"]
    /\ stray' = stray \union {a}
    /\ UNCHANGED <<triggers, running>>

AgentStep ==
    \/ \E c \in Clients : TriggerExpires(c)
    \/ \E a \in Agents : Spawn(a) \/ SpawnFails(a) \/ Exit(a) \/ Release(a)

\* The dashboard is restarted: it has forgotten all clients and all agents.
GatewayRestarts ==
    /\ bucket' = [c \in Clients |-> None]
    /\ recent' = <<>>
    /\ forgotten' = Clients
    /\ triggers' = [c \in Clients |-> 0]
    /\ running' = 0
    /\ agent' = [a \in Agents |-> IF agent[a] = "alive" THEN "alive" ELSE "free"]
    /\ stray' = {a \in Agents : agent[a] = "alive"}
    /\ served' = [c \in Clients |-> Unserved]
    /\ UNCHANGED minute

-----------------------------------------------------------------------------
(* Properties *)

\* What the two limits amount to (is_allowed, trigger_agent).  A client the limiter has
\* not forgotten gets no more than Limit requests in a minute, and less than twice that in
\* two minutes that follow each other.  Not more agents run than the counter says but for
\* those it has lost: started by a rerun, before a restart or without a thread.
WithinLimits ==
    /\ \A c \in Clients \ forgotten :
           /\ \A m \in 0 .. Minutes : served[c][m] <= Limit
           /\ \A m \in 1 .. Minutes : served[c][m - 1] + served[c][m] < 2 * Limit
    /\ Cardinality({a \in Agents : agent[a] # "free"} \ stray) = running

=============================================================================
