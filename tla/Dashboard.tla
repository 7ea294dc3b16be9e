----------------------------- MODULE Dashboard -----------------------------
(***************************************************************************)
(* The dashboard process: requests pass the rate limiter, which runs on    *)
(* the event loop, and are served by threads; the WebSocket hub runs on    *)
(* the same loop.  Once the loop has stopped, nothing is let in any more;  *)
(* threads and agents go on.  A restart takes the memory of all parts.     *)
(*                                                                         *)
(* The parts share nothing else, so a behaviour has one kind of client.    *)
(***************************************************************************)
EXTENDS ConfigStore, Gateway, StatusHub

VARIABLES
    kind                \* bound: what the clients of a behaviour ask for

vars == <<kind, configVars, limiterVars, agentVars, hubVars>>

TypeOK ==
    /\ kind \in {"settings", "agents", "anything", "status"}
    /\ ConfigTypeOK /\ GatewayTypeOK /\ HubTypeOK

Init ==
    /\ kind \in {"settings", "agents", "anything", "status"}
    /\ ConfigInit /\ GatewayInit /\ HubInit
    /\ kind # "settings" => ~nested

\* Bound: the time passes only where nothing but the limiter is looked at, and only there
\* is more than one client.
OneClient(c) == kind # "anything" => c = CHOOSE d \in Clients : TRUE

\* A request of client c is let in.
Admitted(c) == ~stuck /\ OneClient(c) /\ LetIn(c) /\ UNCHANGED <<kind, hubVars>>

RequestSettings(c) ==
    /\ kind = "settings"
    /\ Admitted(c)
    /\ \E r \in Requests : AskSummary(r) \/ \E k \in Keys : AskUpdate(r, k)
    /\ UNCHANGED agentVars

RequestAgent(c) ==
    /\ kind = "agents"
    /\ Admitted(c)
    /\ \E a \in Agents : Trigger(c, a) \/ Rerun(a)
    /\ UNCHANGED configVars

RequestAnything(c) ==
    /\ kind = "anything"
    /\ Admitted(c)
    /\ UNCHANGED <<configVars, agentVars>>

RequestRefused(c) ==
    /\ ~stuck /\ OneClient(c) /\ Refuse(c)
    /\ UNCHANGED <<kind, configVars, agentVars, hubVars>>

TimePasses ==
    /\ kind = "anything" /\ MinutePasses
    /\ UNCHANGED <<kind, configVars, agentVars, hubVars>>

Serve == ConfigStep /\ UNCHANGED <<kind, limiterVars, agentVars, hubVars>>
RunAgents == AgentStep /\ UNCHANGED <<kind, limiterVars, configVars, hubVars>>
Push == kind = "status" /\ HubStep /\ UNCHANGED <<kind, limiterVars, agentVars, configVars>>

\* The process ends, in the middle of whatever it does, and is started again.
Restart ==
    /\ LoseMemory /\ GatewayRestarts /\ HubRestarts
    /\ UNCHANGED kind

Next ==
    \/ \E c \in Clients :
           RequestSettings(c) \/ RequestAgent(c) \/ RequestAnything(c) \/ RequestRefused(c)
    \/ TimePasses \/ Serve \/ RunAgents \/ Push \/ Restart

Spec == Init /\ [][Next]_vars

=============================================================================
