------------------------------ MODULE ReviewDesk ------------------------------
(***************************************************************************)
(* The articles in queue/review/ and the approval timeout.                 *)
(*                                                                         *)
(* The Writer, a process of its own, leaves an article as two files: the   *)
(* text ({id}.md) and then its description ({id}.meta.json), which puts it *)
(* on the approval list.  A poller thread marks an article whose time is   *)
(* up by renaming its description to {id}.skipped.json, and then writes a  *)
(* skip action.  The scanner thread serves that action and moves what is   *)
(* left of the article to queue/skipped/.  Meanwhile editors of the        *)
(* dashboard rewrite texts.  (Answers of reviewers stop none of this: they *)
(* are actions of other kinds, which the poller does not look at.)  The    *)
(* action file itself is the subject of ActionQueue: here the queue holds  *)
(* the skip actions and nothing else.                                      *)
(***************************************************************************)
EXTENDS Naturals, FiniteSets

CONSTANTS
    Articles,           \* article ids
    Editors,            \* request threads that edit a text
    NoText,             \* stands for "no such file"
    NoArticle,          \* stands for "no article"
    MaxEdits,           \* bound: texts written by editors
    MaxFaults           \* bound: crashes and exceptions in the two threads

\* The versions of a text: 0 is the Writer's, n is what the n-th edit wrote.
Versions == 0 .. MaxEdits
MaybeText == Versions \union {NoText}
MaybeArticle == Articles \union {NoArticle}

ASSUME NoTextAssumption == NoText \notin Nat
ASSUME NoArticleAssumption == NoArticle \notin Articles
ASSUME BoundsAssumption == MaxEdits \in Nat /\ MaxFaults \in Nat

VARIABLES
    meta,               \* where the description of each article is
    inReview,           \* the text in queue/review/
    inSkipped,          \* the text in queue/skipped/
    aged,               \* articles older than approval_timeout_minutes
    skipQueue,          \* articles with a skip action in queue/actions/
    failedSkips,        \* articles whose skip action went to queue/failed/
    ppc,                \* where the poller thread is
    todo,               \* expired articles it has listed and not visited
    picked,             \* the article it is skipping
    spc,                \* where the scanner thread is in _handle_skip
    target,             \* the article it is moving
    moved,              \* whether it has moved anything
    editing,            \* the article each editor has checked and will write
    edits,              \* history: texts written by editors
    newest,             \* history: last text written, by article
    interrupted,        \* history: articles marked whose skip was never written
    faults              \* history: crashes and exceptions

diskVars == <<meta, inReview, inSkipped>>
queueVars == <<skipQueue, failedSkips>>
pollerVars == <<ppc, todo, picked>>
skipVars == <<spc, target, moved>>
editVars == <<editing, edits, newest>>
historyVars == <<interrupted, faults>>
vars == <<diskVars, aged, queueVars, pollerVars, skipVars, editVars, historyVars>>

TypeOK ==
    /\ meta \in [Articles -> {"none", "review", "marked", "skipped"}]
    /\ inReview \in [Articles -> MaybeText]
    /\ inSkipped \in [Articles -> MaybeText]
    /\ aged \subseteq Articles
    /\ skipQueue \subseteq Articles
    /\ failedSkips \subseteq Articles
    /\ ppc \in {"idle", "each", "write"}
    /\ todo \subseteq Articles
    /\ picked \in MaybeArticle
    /\ spc \in {"idle", "meta", "text", "end"}
    /\ target \in MaybeArticle
    /\ moved \in BOOLEAN
    /\ editing \in [Editors -> MaybeArticle]
    /\ edits \in Versions
    /\ newest \in [Articles -> MaybeText]
    /\ interrupted \subseteq Articles
    /\ faults \in 0 .. MaxFaults

Init ==
    /\ meta = [a \in Articles |-> "none"]
    /\ inReview = [a \in Articles |-> NoText]
    /\ inSkipped = [a \in Articles |-> NoText]
    /\ aged = {}
    /\ skipQueue = {}
    /\ failedSkips = {}
    /\ ppc = "idle"
    /\ todo = {}
    /\ picked = NoArticle
    /\ spc = "idle"
    /\ target = NoArticle
    /\ moved = FALSE
    /\ editing = [e \in Editors |-> NoArticle]
    /\ edits = 0
    /\ newest = [a \in Articles |-> NoText]
    /\ interrupted = {}
    /\ faults = 0

-----------------------------------------------------------------------------
(* The Writer process, the clock and the editors *)

\* write_output writes the text first ...
WriteText(a) ==
    /\ newest[a] = NoText
    /\ inReview' = [inReview EXCEPT ![a] = 0]
    /\ newest' = [newest EXCEPT ![a] = 0]
    /\ UNCHANGED <<meta, inSkipped, aged, queueVars, pollerVars, skipVars,
                   editing, edits, historyVars>>

\* ... and the description after it; a Writer that dies in between never does.
WriteMeta(a) ==
    /\ newest[a] # NoText
    /\ meta[a] = "none"
    /\ meta' = [meta EXCEPT ![a] = "review"]
    /\ UNCHANGED <<inReview, inSkipped, aged, queueVars, pollerVars, skipVars,
                   editVars, historyVars>>

\* The description's modification time falls behind the timeout.
Age(a) ==
    /\ meta[a] = "review"
    /\ aged' = aged \union {a}
    /\ UNCHANGED <<diskVars, queueVars, pollerVars, skipVars, editVars, historyVars>>

\* update_article_content checks that the text is there ...
EditCheck(e, a) ==
    /\ editing[e] = NoArticle
    /\ inReview[a] # NoText
    /\ edits < MaxEdits
    /\ editing' = [editing EXCEPT ![e] = a]
    /\ UNCHANGED <<diskVars, aged, queueVars, pollerVars, skipVars, edits, newest,
                   historyVars>>

\* ... and then writes it, which creates the file anew if it has left meanwhile.
EditWrite(e) ==
    /\ editing[e] # NoArticle
    /\ edits < MaxEdits
    /\ edits' = edits + 1
    /\ inReview' = [inReview EXCEPT ![editing[e]] = edits + 1]
    /\ newest' = [newest EXCEPT ![editing[e]] = edits + 1]
    /\ editing' = [editing EXCEPT ![e] = NoArticle]
    /\ UNCHANGED <<meta, inSkipped, aged, queueVars, pollerVars, skipVars, historyVars>>

-----------------------------------------------------------------------------
(* approval_timeout_target, in the poller thread *)

PollList ==
    /\ ppc = "idle"
    /\ todo' = {a \in aged : meta[a] = "review"}
    /\ todo' # {}
    /\ ppc' = "each"
    /\ UNCHANGED <<diskVars, aged, queueVars, picked, skipVars, editVars, historyVars>>

\* One round of the loop up to the skip action: an article with a marker is
\* passed over; else its description, if it is there, becomes the marker.
PollMark(a) ==
    /\ ppc = "each"
    /\ a \in todo
    /\ todo' = todo \ {a}
    /\ IF meta[a] = "marked"
       THEN UNCHANGED <<meta, picked, ppc>>
       ELSE /\ meta' = [meta EXCEPT ![a] = IF @ = "review" THEN "marked" ELSE @]
            /\ picked' = a
            /\ ppc' = "write"
    /\ UNCHANGED <<inReview, inSkipped, aged, queueVars, skipVars, editVars, historyVars>>

\* Mutants of PollWrite: the article is forgotten before its action is written, and
\* the action is never written.
PollWriteNobody ==
    /\ ppc = "write"
    /\ picked' = NoArticle
    /\ skipQueue' = skipQueue \union {picked'}
    /\ ppc' = "each"
    /\ UNCHANGED <<diskVars, aged, failedSkips, todo, skipVars, editVars, historyVars>>

PollWriteForgets ==
    /\ ppc = "write"
    /\ picked' = NoArticle
    /\ ppc' = "each"
    /\ UNCHANGED <<diskVars, aged, queueVars, todo, skipVars, editVars, historyVars>>

\* The skip action; the audit row and the alert that follow may fail unnoticed.
PollWrite ==
    /\ ppc = "write"
    /\ skipQueue' = skipQueue \union {picked}
    /\ picked' = NoArticle
    /\ ppc' = "each"
    /\ UNCHANGED <<diskVars, aged, failedSkips, todo, skipVars, editVars, historyVars>>

PollEnd ==
    /\ ppc = "each"
    /\ todo = {}
    /\ ppc' = "idle"
    /\ UNCHANGED <<diskVars, aged, queueVars, todo, picked, skipVars, editVars, historyVars>>

-----------------------------------------------------------------------------
(* _handle_skip, called by the scanner for a skip action *)

TakeSkip(a) ==
    /\ spc = "idle"
    /\ a \in skipQueue
    /\ target' = a
    /\ moved' = FALSE
    /\ spc' = "meta"
    /\ UNCHANGED <<diskVars, aged, queueVars, pollerVars, editVars, historyVars>>

MoveMeta ==
    /\ spc = "meta"
    /\ meta' = [meta EXCEPT ![target] = IF @ = "review" THEN "skipped" ELSE @]
    /\ moved' = (meta[target] = "review")
    /\ spc' = "text"
    /\ UNCHANGED <<inReview, inSkipped, aged, queueVars, pollerVars, target, editVars,
                   historyVars>>

\* Mutants of MoveText: the text is deleted from review/ when skipped/ has one
\* already; the text is copied and stays in review/.
MoveTextKeepsOld ==
    /\ spc = "text"
    /\ inSkipped' = [inSkipped EXCEPT ![target] = IF @ = NoText THEN inReview[target] ELSE @]
    /\ inReview' = [inReview EXCEPT ![target] = NoText]
    /\ moved' = TRUE
    /\ spc' = "end"
    /\ UNCHANGED <<meta, aged, queueVars, pollerVars, target, editVars, historyVars>>

MoveTextCopies ==
    /\ spc = "text"
    /\ inSkipped' = [inSkipped EXCEPT ![target] = inReview[target]]
    /\ moved' = TRUE
    /\ spc' = "end"
    /\ UNCHANGED <<meta, inReview, aged, queueVars, pollerVars, target, editVars,
                   historyVars>>

\* The rename replaces a text that is in skipped/ already.
MoveText ==
    /\ spc = "text"
    /\ IF inReview[target] # NoText
       THEN /\ inSkipped' = [inSkipped EXCEPT ![target] = inReview[target]]
            /\ inReview' = [inReview EXCEPT ![target] = NoText]
            /\ moved' = TRUE
       ELSE UNCHANGED <<inReview, inSkipped, moved>>
    /\ spc' = "end"
    /\ UNCHANGED <<meta, aged, queueVars, pollerVars, target, editVars, historyVars>>

\* Mutant of EndSkip: the action is parked although something was moved.
EndSkipInverted ==
    /\ spc = "end"
    /\ skipQueue' = skipQueue \ {target}
    /\ failedSkips' = IF moved THEN failedSkips \union {target} ELSE failedSkips
    /\ target' = NoArticle
    /\ spc' = "idle"
    /\ UNCHANGED <<diskVars, aged, pollerVars, moved, editVars, historyVars>>

\* The action leaves the queue: to processed/, or to failed/ if nothing moved.
EndSkip ==
    /\ spc = "end"
    /\ skipQueue' = skipQueue \ {target}
    /\ failedSkips' = IF moved THEN failedSkips ELSE failedSkips \union {target}
    /\ target' = NoArticle
    /\ spc' = "idle"
    /\ UNCHANGED <<diskVars, aged, pollerVars, moved, editVars, historyVars>>

-----------------------------------------------------------------------------
(* Exceptions and restarts *)

\* An exception ends the poller's round; Poller._run starts another one later.
PollRaises ==
    /\ ppc # "idle"
    /\ faults < MaxFaults
    /\ faults' = faults + 1
    /\ interrupted' = IF ppc = "write" THEN interrupted \union {picked} ELSE interrupted
    /\ ppc' = "idle"
    /\ todo' = {}
    /\ picked' = NoArticle
    /\ UNCHANGED <<diskVars, aged, queueVars, skipVars, editVars>>

\* Mutant of ScanRaises: the action is dropped.
ScanRaisesDrops ==
    /\ spc # "idle"
    /\ faults < MaxFaults
    /\ faults' = faults + 1
    /\ skipQueue' = skipQueue \ {target}
    /\ spc' = "idle"
    /\ target' = NoArticle
    /\ UNCHANGED <<diskVars, aged, failedSkips, pollerVars, moved, editVars, interrupted>>

\* An exception in the scanner leaves the action where it is.
ScanRaises ==
    /\ spc # "idle"
    /\ faults < MaxFaults
    /\ faults' = faults + 1
    /\ spc' = "idle"
    /\ target' = NoArticle
    /\ UNCHANGED <<diskVars, aged, queueVars, pollerVars, moved, editVars, interrupted>>

\* The dashboard dies, and with it both threads and every request; it restarts.
Crash ==
    /\ faults < MaxFaults
    /\ faults' = faults + 1
    /\ interrupted' = IF ppc = "write" THEN interrupted \union {picked} ELSE interrupted
    /\ ppc' = "idle"
    /\ todo' = {}
    /\ picked' = NoArticle
    /\ spc' = "idle"
    /\ target' = NoArticle
    /\ editing' = [e \in Editors |-> NoArticle]
    /\ UNCHANGED <<diskVars, aged, queueVars, moved, edits, newest>>

-----------------------------------------------------------------------------

Environment ==
    \/ \E a \in Articles : WriteText(a) \/ WriteMeta(a) \/ Age(a)
    \/ \E e \in Editors : EditWrite(e) \/ \E a \in Articles : EditCheck(e, a)

ApprovalTimeout ==
    \/ PollList
    \/ \E a \in Articles : PollMark(a)
    \/ PollWrite
    \/ PollEnd

HandleSkip ==
    \/ \E a \in Articles : TakeSkip(a)
    \/ MoveMeta
    \/ MoveText
    \/ EndSkip

Next ==
    \/ Environment
    \/ ApprovalTimeout
    \/ HandleSkip
    \/ PollRaises
    \/ ScanRaises
    \/ Crash

\* Both are daemon threads that loop for as long as the dashboard runs.
Fairness == WF_vars(ApprovalTimeout) /\ WF_vars(HandleSkip)

Spec == Init /\ [][Next]_vars
FairSpec == Spec /\ Fairness

-----------------------------------------------------------------------------
(* Properties *)

\* What was last written for an article, by the Writer or by an editor who was
\* told "ok", is in review/ or in skipped/, whatever the skip does meanwhile.
NewestTextKept ==
    \A a \in Articles : newest[a] # NoText => newest[a] \in {inReview[a], inSkipped[a]}

\* An article that is marked is on its way to skipped/ or there already, unless
\* the poller was stopped between the marker and the skip action.
MarkedIsOnItsWay ==
    \A a \in Articles :
        meta[a] = "marked" =>
            \/ ppc = "write" /\ picked = a
            \/ a \in skipQueue
            \/ inSkipped[a] # NoText
            \/ a \in interrupted

\* Two texts of one article exist only when an edit came after the move: the
\* older one is then in skipped/.
SkippedCopyIsOlder ==
    \A a \in Articles :
        inReview[a] # NoText /\ inSkipped[a] # NoText => inSkipped[a] < inReview[a]

\* A skip action fails only for an article that an earlier run had moved.
FailedSkipWasDone == \A a \in failedSkips : inSkipped[a] # NoText /\ faults > 0

\* A marked article is moved in the end, unless its skip action was never written.
MarkedGetsSkipped ==
    \A a \in Articles :
        meta[a] = "marked" ~> inSkipped[a] # NoText \/ a \in interrupted

=============================================================================
