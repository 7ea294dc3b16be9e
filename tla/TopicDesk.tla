------------------------------- MODULE TopicDesk -------------------------------
(***************************************************************************)
(* The topics in queue/pending/, their confirmation and the Writer Router. *)
(*                                                                         *)
(* The Scout leaves a topic as a file topic_{id}.json.  A user confirms a  *)
(* topic by a request, which looks for the file and writes a confirm       *)
(* action; a poller thread confirms one of the topics whose time is up,    *)
(* and adds ".timeout" to the name of its file.  The scanner starts a      *)
(* router for each confirm action, in a process of its own, which looks    *)
(* for the topic's file and has an article written.  The queue of actions  *)
(* is the subject of ActionQueue: here it holds the confirm actions.       *)
(***************************************************************************)
EXTENDS Naturals, Sequences

CONSTANTS
    Topics,             \* topic ids, without the prefix "topic_"
    FinalScore,         \* the field final_score the Scout gave each topic
    Users,              \* request threads
    NoFile,             \* stands for "no file"
    MaxRounds,          \* bound: rounds of the poller that pick a topic
    MaxFaults           \* bound: crashes and exceptions

\* The name of a topic's file: how often ".timeout" was added to it.
Depths == 0 .. MaxRounds
Files == [topic : Topics, depth : Depths]
Later(f) == [f EXCEPT !.depth = @ + 1]

ASSUME FinalScoreAssumption == FinalScore \in [Topics -> Nat]
ASSUME NoFileAssumption == NoFile \notin Files
ASSUME BoundsAssumption == MaxRounds \in Nat /\ MaxFaults \in Nat

VARIABLES
    pending,            \* files in queue/pending/
    expired,            \* topics older than topic_timeout_minutes
    confirms,           \* targets of the confirm actions in the queue
    routers,            \* targets of the routers that run
    written,            \* topics whose writing has begun
    pc,                 \* where the poller thread is
    picked,             \* the file it confirms
    asking,             \* the file each user's request has found
    confirmed,          \* history: topics confirmed by a user or by the poller
    autoConfirms,       \* history: how often the poller confirmed each topic
    interrupted,        \* history: how often it was stopped before the rename
    rounds,             \* history: rounds that picked a topic
    faults              \* history: crashes and exceptions

queueVars == <<confirms, routers, written>>
pollerVars == <<pc, picked>>
countVars == <<interrupted, rounds, faults>>
vars == <<pending, expired, queueVars, pollerVars, asking, confirmed, autoConfirms,
          countVars>>

TypeOK ==
    /\ pending \subseteq Files
    /\ expired \subseteq Topics
    /\ confirms \subseteq Files
    /\ routers \subseteq Files
    /\ written \subseteq Topics
    /\ pc \in {"idle", "confirm", "rename", "audit"}
    /\ picked \in Files \union {NoFile}
    /\ asking \in [Users -> Files \union {NoFile}]
    /\ confirmed \subseteq Topics
    /\ autoConfirms \in [Topics -> Nat]
    /\ interrupted \in [Topics -> Nat]
    /\ rounds \in 0 .. MaxRounds
    /\ faults \in 0 .. MaxFaults

Init ==
    /\ pending = {}
    /\ expired = {}
    /\ confirms = {}
    /\ routers = {}
    /\ written = {}
    /\ pc = "idle"
    /\ picked = NoFile
    /\ asking = [u \in Users |-> NoFile]
    /\ confirmed = {}
    /\ autoConfirms = [t \in Topics |-> 0]
    /\ interrupted = [t \in Topics |-> 0]
    /\ rounds = 0
    /\ faults = 0

\* The files of one topic.
FilesOf(t) == {f \in pending : f.topic = t}

-----------------------------------------------------------------------------
(* The Scout, the clock and the users *)

\* write_topic_pending: a name of its own for every topic.
WriteTopic(t) ==
    /\ FilesOf(t) = {}
    /\ pending' = pending \union {[topic |-> t, depth |-> 0]}
    /\ UNCHANGED <<expired, queueVars, pollerVars, asking, confirmed, autoConfirms, countVars>>

\* The file's modification time, which a rename keeps, falls behind the timeout.
Expire(t) ==
    /\ FilesOf(t) # {}
    /\ expired' = expired \union {t}
    /\ UNCHANGED <<pending, queueVars, pollerVars, asking, confirmed, autoConfirms, countVars>>

\* confirm_topic looks for the file of the id the user chose ...
ConfirmCheck(u, f) ==
    /\ asking[u] = NoFile
    /\ f \in pending
    /\ asking' = [asking EXCEPT ![u] = f]
    /\ UNCHANGED <<pending, expired, queueVars, pollerVars, confirmed, autoConfirms, countVars>>

\* Mutant of ConfirmWrite: the action names the bare id of the topic.
ConfirmWriteBareId(u) ==
    /\ asking[u] # NoFile
    /\ confirms' = confirms \union {asking[u].topic}
    /\ confirmed' = confirmed \union {asking[u].topic}
    /\ asking' = [asking EXCEPT ![u] = NoFile]
    /\ UNCHANGED <<pending, expired, routers, written, pollerVars, autoConfirms, countVars>>

\* ... and writes the action, by which time the file may have another name.
ConfirmWrite(u) ==
    /\ asking[u] # NoFile
    /\ confirms' = confirms \union {asking[u]}
    /\ confirmed' = confirmed \union {asking[u].topic}
    /\ asking' = [asking EXCEPT ![u] = NoFile]
    /\ UNCHANGED <<pending, expired, routers, written, pollerVars, autoConfirms, countVars>>

-----------------------------------------------------------------------------
(* topic_timeout_target, in the poller thread *)

\* data.get("score", 0): the files have no field of that name.
Rank(f) == 0

Best(S) == {f \in S : \A g \in S : Rank(g) <= Rank(f)}

\* List the expired files and pick the best; a file whose next name is taken is
\* not picked, and the round is over.
PollPick ==
    /\ pc = "idle"
    /\ rounds < MaxRounds
    /\ \E f \in Best({g \in pending : g.topic \in expired}) :
        /\ Later(f) \notin pending
        /\ picked' = f
    /\ rounds' = rounds + 1
    /\ pc' = "confirm"
    /\ UNCHANGED <<pending, expired, queueVars, asking, confirmed, autoConfirms, interrupted,
                   faults>>

\* Mutants of PollConfirm: no action is written; the action is written for the name
\* the file is about to get.
PollConfirmForgets ==
    /\ pc = "confirm"
    /\ pc' = "rename"
    /\ UNCHANGED <<pending, expired, queueVars, picked, asking, confirmed, autoConfirms,
                   countVars>>

PollConfirmLater ==
    /\ pc = "confirm"
    /\ confirms' = confirms \union {Later(picked)}
    /\ confirmed' = confirmed \union {picked.topic}
    /\ autoConfirms' = [autoConfirms EXCEPT ![picked.topic] = @ + 1]
    /\ pc' = "rename"
    /\ UNCHANGED <<pending, expired, routers, written, picked, asking, countVars>>

PollConfirm ==
    /\ pc = "confirm"
    /\ confirms' = confirms \union {picked}
    /\ confirmed' = confirmed \union {picked.topic}
    /\ autoConfirms' = [autoConfirms EXCEPT ![picked.topic] = @ + 1]
    /\ pc' = "rename"
    /\ UNCHANGED <<pending, expired, routers, written, picked, asking, countVars>>

\* Mutants of PollRename: the file is copied; the file is not renamed at all.
PollRenameCopies ==
    /\ pc = "rename"
    /\ pending' = pending \union {Later(picked)}
    /\ pc' = "audit"
    /\ UNCHANGED <<expired, queueVars, picked, asking, confirmed, autoConfirms, countVars>>

PollRenameForgotten ==
    /\ pc = "rename"
    /\ pc' = "audit"
    /\ UNCHANGED <<pending, expired, queueVars, picked, asking, confirmed, autoConfirms,
                   countVars>>

PollRename ==
    /\ pc = "rename"
    /\ pending' = (pending \ {picked}) \union {Later(picked)}
    /\ pc' = "audit"
    /\ UNCHANGED <<expired, queueVars, picked, asking, confirmed, autoConfirms, countVars>>

\* The audit row and the alert; both may fail unnoticed.
PollAudit ==
    /\ pc = "audit"
    /\ picked' = NoFile
    /\ pc' = "idle"
    /\ UNCHANGED <<pending, expired, queueVars, asking, confirmed, autoConfirms, countVars>>

-----------------------------------------------------------------------------
(* The scanner and the routers it starts *)

\* Mutant of ScanConfirm: the topic's file is removed as well.
ScanConfirmConsumes(a) ==
    /\ a \in confirms
    /\ routers' = routers \union {a}
    /\ confirms' = confirms \ {a}
    /\ pending' = pending \ {a}
    /\ UNCHANGED <<expired, written, pollerVars, asking, confirmed, autoConfirms, countVars>>

\* Dispatch starts a router and writes the confirm action again: under the old
\* name, which is then renamed away, if it is still the second of the first one,
\* and else under a new name, which the next scan finds.
ScanConfirm(a) ==
    /\ a \in confirms
    /\ routers' = routers \union {a}
    /\ \/ confirms' = confirms
       \/ confirms' = confirms \ {a}
    /\ UNCHANGED <<pending, expired, written, pollerVars, asking, confirmed, autoConfirms,
                   countVars>>

\* A file's name without ".json", cut into its parts.
Stem(f) == <<"topic", f.topic>> \o [i \in 1 .. f.depth |-> "timeout"]

\* The pattern topic_*{id}*.json: the id occurs somewhere after the prefix.
Matches(f, id) ==
    \E i \in 2 .. Len(Stem(f)) + 1 - Len(id) : SubSeq(Stem(f), i, i + Len(id) - 1) = id

\* main of writer_router.py: with a topic found, writers are started for it; and
\* without one the router reports "no topic" and ends.  (The files *.confirmed it
\* looks for next are written by no one.)
RouterRuns(a) ==
    /\ a \in routers
    /\ routers' = routers \ {a}
    /\ LET found == {f \in pending : Matches(f, Stem(a))}
       IN  IF found = {}
           THEN UNCHANGED written
           ELSE \E f \in found : written' = written \union {f.topic}
    /\ UNCHANGED <<pending, expired, confirms, pollerVars, asking, confirmed, autoConfirms,
                   countVars>>

-----------------------------------------------------------------------------
(* Exceptions and restarts *)

Interrupt ==
    /\ faults < MaxFaults
    /\ faults' = faults + 1
    /\ interrupted' = IF pc = "rename" THEN [interrupted EXCEPT ![picked.topic] = @ + 1]
                                       ELSE interrupted
    /\ pc' = "idle"
    /\ picked' = NoFile
    /\ UNCHANGED <<pending, expired, queueVars, confirmed, autoConfirms, rounds>>

\* An exception ends the poller's round (a rename that fails is caught and ends it
\* too); Poller._run starts another one later.
PollRaises == pc # "idle" /\ Interrupt /\ UNCHANGED asking

\* The dashboard dies and is restarted; the routers are processes of their own.
Crash == Interrupt /\ asking' = [u \in Users |-> NoFile]

-----------------------------------------------------------------------------

Environment ==
    \/ \E t \in Topics : WriteTopic(t) \/ Expire(t)
    \/ \E u \in Users : ConfirmWrite(u) \/ \E f \in Files : ConfirmCheck(u, f)

Poll == PollPick \/ PollConfirm \/ PollRename \/ PollAudit

Next ==
    \/ Environment
    \/ Poll
    \/ \E a \in Files : ScanConfirm(a) \/ RouterRuns(a)
    \/ PollRaises
    \/ Crash

\* The threads loop for as long as the dashboard runs, each confirm action is
\* served (ActionQueue), and a process that was started runs.
Fairness ==
    /\ WF_vars(Poll)
    /\ \A a \in Files : WF_vars(ScanConfirm(a)) /\ WF_vars(RouterRuns(a))

Spec == Init /\ [][Next]_vars
FairSpec == Spec /\ Fairness

-----------------------------------------------------------------------------
(* Properties *)

OneNamePerTopic ==
    \A f, g \in pending : f.topic = g.topic => f = g

\* No step loses or doubles the file of a topic, a rename between interruptions least
\* of all: a file in queue/pending/ is there under one name after it, the same or a
\* later one and never an earlier one.
TopicsAreKept ==
    [][/\ OneNamePerTopic'
       /\ \A f \in pending :
              \E g \in pending' : g.topic = f.topic /\ f.depth <= g.depth]_vars

\* The poller confirms a topic once for every ".timeout" in the name of its file,
\* but for the confirmation in progress and those a crash kept from the rename.
AutoConfirmsAccounted ==
    \A f \in pending :
        autoConfirms[f.topic] =
            f.depth + interrupted[f.topic]
            + (IF pc = "rename" /\ picked.topic = f.topic THEN 1 ELSE 0)

\* A confirm action names a file that is there or was there under this name: it
\* may be out of date but never ahead of the renames.
ConfirmsAreNotAhead ==
    \A a \in confirms \union routers :
        \E f \in pending : f.topic = a.topic /\ a.depth <= f.depth

\* The file the poller holds keeps its name until the poller renames it.
PickedStaysPut == pc \in {"confirm", "rename"} => picked \in pending

\* If some topic's time is up, some topic is confirmed.
SomeTopicConfirmed == expired # {} ~> confirmed # {}

\* background.py:335: the file is renamed "so next poll skips it".
ConfirmedOnce ==
    [][\A t \in Topics : autoConfirms'[t] > autoConfirms[t] =>
           autoConfirms[t] = interrupted[t]]_vars

\* routes/topics.py, confirm_topic: confirming a topic triggers the Writer.
ConfirmedGetsWritten == \A t \in Topics : t \in confirmed ~> t \in written

=============================================================================
