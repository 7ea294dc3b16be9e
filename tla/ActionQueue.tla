----------------------------- MODULE ActionQueue -----------------------------
(***************************************************************************)
(* The action file protocol of skills/action.py and the scanner of         *)
(* dashboard/backend/background.py that serves it.                         *)
(*                                                                         *)
(* Clients (the dashboard's routes, the timeout pollers, agents in other   *)
(* processes) write files into queue/actions/.  A file is named by its     *)
(* action, its target and the second at which the write began, so two      *)
(* requests of one second share a file.  One poller thread scans the       *)
(* directory: it takes a list of the files, and for each file on the list  *)
(* starts a handler and then renames the file into processed/, or into a   *)
(* failure directory when no handler could be started.  An exception ends  *)
(* the scan; a crash of the dashboard does so too, and it is restarted.    *)
(***************************************************************************)
EXTENDS Naturals, FiniteSets

CONSTANTS
    Kinds,              \* the action types clients write
    Targets,            \* topic and article ids
    Clients,            \* threads and processes that write action files
    NoFile,             \* stands for "no file"
    MaxClock,           \* bound: last second of a behaviour
    MaxRequests,        \* bound: files written by clients
    MaxFaults,          \* bound: scans cut short by an exception or a crash
    DuplicateWindow     \* seconds in which the requirements call a request a duplicate

\* ALLOWED_ACTIONS: validate_action raises on any other action type.
AllowedActions == {"confirm", "approve", "reject", "rewrite", "skip", "test_scout"}

\* The keys of DISPATCH_MAP: the actions served by a child process.
Dispatchable == {"confirm", "approve", "reject", "rewrite"}

Seconds == 0 .. MaxClock

\* The name of an action file: {action}_{target_id}_{stamp}.json
Files == [action : Kinds, target : Targets, stamp : Seconds]

ASSUME KindsAssumption == Kinds \subseteq AllowedActions
ASSUME NoFileAssumption == NoFile \notin Files
ASSUME BoundsAssumption ==
    /\ MaxClock \in Nat
    /\ MaxRequests \in Nat
    /\ MaxFaults \in Nat
    /\ DuplicateWindow \in Nat

VARIABLES
    clock,              \* wall clock, in seconds
    writing,            \* the file each client is writing: temp file, not yet renamed
    actions,            \* files in queue/actions/
    malformed,          \* those of them that do not parse
    processed,          \* files in queue/actions/processed/
    failed,             \* files in queue/failed/ and queue/actions/failed/
    pc,                 \* where the scanner thread is
    batch,              \* files of this scan not handled yet
    cur,                \* the file being handled
    writes,             \* history: how often each file was written
    launches,           \* history: how often a handler was started for each file
    unanswered,         \* history: files written since their name was last handled
    overtaken,          \* history: those of them written while a handler already
                        \*   started for the name had its file still to be renamed
    requests,           \* history: files written by clients
    faults              \* history: scans cut short

clientVars == <<writing, requests>>
dirVars == <<actions, malformed, processed, failed>>
scannerVars == <<pc, batch, cur>>
requestVars == <<unanswered, overtaken>>
historyVars == <<writes, launches, requestVars, faults>>
vars == <<clock, clientVars, dirVars, scannerVars, historyVars>>

TypeOK ==
    /\ clock \in Seconds
    /\ writing \in [Clients -> Files \union {NoFile}]
    /\ actions \subseteq Files
    /\ malformed \subseteq actions
    /\ processed \subseteq Files
    /\ failed \subseteq Files
    /\ pc \in {"idle", "next", "dispatch", "retire", "park"}
    /\ batch \subseteq Files
    /\ cur \in Files \union {NoFile}
    /\ writes \in [Files -> Nat]
    /\ launches \in [Files -> Nat]
    /\ unanswered \subseteq Files
    /\ overtaken \subseteq Files
    /\ requests \in 0 .. MaxRequests
    /\ faults \in 0 .. MaxFaults

Init ==
    /\ clock = 0
    /\ writing = [c \in Clients |-> NoFile]
    /\ actions = {}
    /\ malformed = {}
    /\ processed = {}
    /\ failed = {}
    /\ pc = "idle"
    /\ batch = {}
    /\ cur = NoFile
    /\ writes = [f \in Files |-> 0]
    /\ launches = [f \in Files |-> 0]
    /\ unanswered = {}
    /\ overtaken = {}
    /\ requests = 0
    /\ faults = 0

Tick ==
    /\ clock < MaxClock
    /\ clock' = clock + 1
    /\ UNCHANGED <<clientVars, dirVars, scannerVars, historyVars>>

-----------------------------------------------------------------------------
(* Writing an action file *)

\* A request waits under the name f for a handler of its own.
Request(f) ==
    /\ writes' = [writes EXCEPT ![f] = @ + 1]
    /\ unanswered' = unanswered \union {f}
    /\ overtaken' = IF pc = "retire" /\ cur = f THEN overtaken \union {f}
                                               ELSE overtaken \ {f}

\* The name f was handled, or its file set aside, after all that was written to it.
Answer(f) ==
    /\ unanswered' = unanswered \ {f}
    /\ overtaken' = overtaken \ {f}

\* The rename that makes a file visible; it replaces a file of the same name.
Publish(f) ==
    /\ actions' = actions \union {f}
    /\ malformed' = malformed \ {f}
    /\ Request(f)

\* write_action validates, fixes the file name and writes a temporary file ...
BeginWrite(c, k, t) ==
    /\ writing[c] = NoFile
    /\ requests < MaxRequests
    /\ k \in AllowedActions
    /\ writing' = [writing EXCEPT ![c] = [action |-> k, target |-> t, stamp |-> clock]]
    /\ requests' = requests + 1
    /\ UNCHANGED <<clock, dirVars, scannerVars, historyVars>>

\* ... and renames it into the directory, which is when the client is told "ok".
FinishWrite(c) ==
    /\ writing[c] # NoFile
    /\ Publish(writing[c])
    /\ writing' = [writing EXCEPT ![c] = NoFile]
    /\ UNCHANGED <<clock, requests, processed, failed, scannerVars, launches, faults>>

\* The write fails, or its process dies: no file appears, the client sees an error.
AbandonWrite(c) ==
    /\ writing[c] # NoFile
    /\ writing' = [writing EXCEPT ![c] = NoFile]
    /\ UNCHANGED <<clock, requests, dirVars, scannerVars, historyVars>>

\* A file that is not valid JSON is dropped into the directory by other means.
DropMalformed(f) ==
    /\ requests < MaxRequests
    /\ f.stamp = clock
    /\ f \notin actions
    /\ actions' = actions \union {f}
    /\ malformed' = malformed \union {f}
    /\ Request(f)
    /\ requests' = requests + 1
    /\ UNCHANGED <<clock, writing, processed, failed, scannerVars, launches, faults>>

-----------------------------------------------------------------------------
(* The scanner thread *)

\* Mutants of ScanActions: files that do not parse stay where they are, or are
\* deleted instead of moved.
ScanActionsLeavesMalformed ==
    /\ pc = "idle"
    /\ batch' = actions \ malformed
    /\ pc' = "next"
    /\ UNCHANGED <<clock, clientVars, dirVars, cur, historyVars>>

ScanActionsDeletesMalformed ==
    /\ pc = "idle"
    /\ batch' = actions \ malformed
    /\ actions' = actions \ malformed
    /\ malformed' = {}
    /\ pc' = "next"
    /\ UNCHANGED <<clock, clientVars, processed, failed, cur, historyVars>>

\* scan_actions lists the directory and moves the files it cannot parse away.
ScanActions ==
    /\ pc = "idle"
    /\ batch' = actions \ malformed
    /\ actions' = actions \ malformed
    /\ failed' = failed \union malformed
    /\ malformed' = {}
    /\ unanswered' = unanswered \ malformed
    /\ pc' = "next"
    /\ UNCHANGED <<clock, clientVars, processed, cur, writes, launches, overtaken, faults>>

\* The list is used up: the poller sleeps until its next round.
EndScan ==
    /\ pc = "next"
    /\ batch = {}
    /\ pc' = "idle"
    /\ UNCHANGED <<clock, clientVars, dirVars, batch, cur, historyVars>>

\* Mutant of TakeNext: the file is renamed away before it is handled.
TakeNextClaims(f) ==
    /\ pc = "next"
    /\ f \in batch \intersect actions
    /\ cur' = f
    /\ batch' = batch \ {f}
    /\ pc' = "dispatch"
    /\ actions' = actions \ {f}
    /\ processed' = processed \union {f}
    /\ UNCHANGED <<clock, clientVars, malformed, failed, historyVars>>

\* A file of the list is passed over if it is gone from the directory; dispatch of
\* a confirm first writes a confirm file of its own.
TakeNext(f) ==
    /\ pc = "next"
    /\ f \in batch
    /\ batch' = batch \ {f}
    /\ IF f \in actions
       THEN cur' = f /\ pc' = "dispatch"
       ELSE UNCHANGED <<cur, pc>>
    /\ IF f \in actions /\ f.action = "confirm"
       THEN Publish([f EXCEPT !.stamp = clock])
       ELSE UNCHANGED <<actions, malformed, writes, requestVars>>
    /\ UNCHANGED <<clock, clientVars, processed, failed, launches, faults>>

\* Popen succeeds, or the inline skip handler moves the article's files.
DispatchOk ==
    /\ pc = "dispatch"
    /\ cur.action \in Dispatchable \union {"skip"}
    /\ launches' = [launches EXCEPT ![cur] = @ + 1]
    /\ Answer(cur)
    /\ pc' = "retire"
    /\ UNCHANGED <<clock, clientVars, dirVars, batch, cur, writes, faults>>

\* Mutant of DispatchFails: the test of the handler's result is off by one, so
\* that -1 counts as a process id.
DispatchFailureIsSuccess ==
    /\ pc = "dispatch"
    /\ pc' = "retire"
    /\ UNCHANGED <<clock, clientVars, dirVars, batch, cur, historyVars>>

\* An action without a handler, Popen raising, or skip finding no files: -1.
DispatchFails ==
    /\ pc = "dispatch"
    /\ pc' = "park"
    /\ UNCHANGED <<clock, clientVars, dirVars, batch, cur, historyVars>>

\* The rename that ends the handling of cur, if cur is still there to be renamed.
LeaveQueue ==
    /\ cur \in actions
    /\ actions' = actions \ {cur}
    /\ malformed' = malformed \ {cur}
    /\ cur' = NoFile
    /\ pc' = "next"

\* Mutant of MarkProcessed: the file is copied instead of renamed.
MarkProcessedCopies ==
    /\ pc = "retire"
    /\ cur \in actions
    /\ cur' = NoFile
    /\ pc' = "next"
    /\ processed' = processed \union {cur}
    /\ UNCHANGED <<clock, clientVars, actions, malformed, failed, batch, historyVars>>

MarkProcessed ==
    /\ pc = "retire"
    /\ LeaveQueue
    /\ processed' = processed \union {cur}
    /\ UNCHANGED <<clock, clientVars, failed, batch, historyVars>>

\* Mutant of MoveToFailed: the current file is forgotten before it is renamed.
MoveToFailedForgets ==
    /\ pc = "park"
    /\ LeaveQueue
    /\ failed' = failed \union {cur'}
    /\ UNCHANGED <<clock, clientVars, processed, batch, historyVars>>

MoveToFailed ==
    /\ pc = "park"
    /\ LeaveQueue
    /\ failed' = failed \union {cur}
    /\ Answer(cur)
    /\ UNCHANGED <<clock, clientVars, processed, batch, writes, launches, faults>>

\* An exception out of the scan (a rename or a write that fails) is caught by
\* Poller._run, which starts over at its next round; a crash and restart of the
\* dashboard leaves the same state behind.  The directories stay as they are.
AbortScan ==
    /\ pc # "idle"
    /\ faults < MaxFaults
    /\ faults' = faults + 1
    /\ pc' = "idle"
    /\ batch' = {}
    /\ cur' = NoFile
    /\ UNCHANGED <<clock, clientVars, dirVars, writes, launches, requestVars>>

-----------------------------------------------------------------------------

Write ==
    \/ \E c \in Clients :
        \/ \E k \in Kinds, t \in Targets : BeginWrite(c, k, t)
        \/ FinishWrite(c)
        \/ AbandonWrite(c)
    \/ \E f \in Files : DropMalformed(f)

Scan ==
    \/ ScanActions
    \/ EndScan
    \/ \E f \in Files : TakeNext(f)
    \/ DispatchOk
    \/ DispatchFails
    \/ MarkProcessed
    \/ MoveToFailed

Next == Tick \/ Write \/ Scan \/ AbortScan

\* The scanner is a daemon thread that loops for as long as the process lives,
\* and the process is restarted when it dies.
Fairness == WF_vars(Scan)

Spec == Init /\ [][Next]_vars
FairSpec == Spec /\ Fairness

-----------------------------------------------------------------------------
(* Properties *)

\* A request is queued until a handler was started, or its file set aside, after
\* it was written, however scans, crashes and writers of one name interleave, with
\* one exception: a request that replaces its namesake between the start of the
\* namesake's handler and the rename that ends the handling (lines 172 to 174 of
\* background.py) is renamed away with no handler of its own.
NoRequestLost == unanswered \subseteq actions \union overtaken

\* The files on the scanner's list and the one being handled stay in the directory
\* until the scanner itself renames them, whatever clients write meanwhile: none
\* is passed over, and mark_processed never fails for want of its source.
SourceStaysPut ==
    /\ batch \subseteq actions
    /\ pc \in {"dispatch", "retire", "park"} => cur \in actions \ batch

\* Handlers are started at most once for each time a file was written, and once
\* more for each scan that was cut short: a re-listed file is not handled twice.
LaunchesBounded ==
    \A f \in Files : launches[f] <= writes[f] + faults

\* Every queued file leaves the queue.
EveryFileLeaves == \A f \in Files : f \in actions ~> f \notin actions

\* The queue and its scanner keep the promise of DeliveryQueue.
Promise == INSTANCE DeliveryQueue WITH
    queued <- actions,
    delivered <- {f \in Files : launches[f] > 0},
    retired <- processed,
    rejected <- failed

ImplementsDeliveryQueue == Promise!Spec

\* Product requirement 2.6, duplicate check: before handling a file the scanner
\* looks in processed/ for a file of the same action and target not older than
\* the window, and passes the new one over.
Repeats(f, p) ==
    /\ p.action = f.action
    /\ p.target = f.target
    /\ clock - p.stamp <= DuplicateWindow

DuplicatesSuppressed ==
    [][\A f \in Files :
         launches'[f] > launches[f] => ~\E p \in processed : Repeats(f, p)]_vars

=============================================================================
