----------------------------- MODULE Production -----------------------------
(***************************************************************************)
(* Writers, editors and Publishers around queue/review/.  A Publisher      *)
(* (skills/publisher.py) takes one article to several platforms, a thread  *)
(* for each: through a command that gets the whole text in a file, or by   *)
(* steering a browser (publisher_webbridge.py), which is modelled from its *)
(* calls: a session of the browser has tabs, and a call acts on the newest *)
(* one.  All Publishers use one session per platform.                      *)
(***************************************************************************)
EXTENDS WriterRun, Sequences, SequencesExt

CONSTANTS
    Platforms,          \* where a Publisher without arguments publishes
    BrowserPlatforms,   \* those steered by the browser
    VideoPlatforms      \* those that get the video instead, if there is one

ASSUME PlatformAssumption ==
    BrowserPlatforms \subseteq Platforms /\ VideoPlatforms \subseteq Platforms

VARIABLES
    target,             \* the article of each Publisher, and whether it has a video
    sending,            \* where each of its threads is
    copy,               \* the text the thread has read
    tabs,               \* the tabs of the browser's session for a platform
    mixed,              \* history: a post had the title of one text and the body of another
    crowded             \* history: platforms whose session had a tab open already

publisherVars == <<target, sending, copy, tabs, mixed, crowded>>
vars == <<second, jobVars, writerVars, videos, reviewVars, videoVars, publisherVars>>

Pages == [title : Texts \union {Missing}, body : Texts \union {Missing}]
BlankPage == [title |-> Missing, body |-> Missing]
NoTarget == [id |-> Earlier, video |-> FALSE]
Mixed(page) == Missing \notin {page.title, page.body} /\ page.title # page.body

Places ==
    Stages \union {"idle", "text", "meta", "describing", "done", "failed",
                   "publishing", "published", "unpublished"}

PublisherTypeOK ==
    /\ pc \in [Jobs -> Places]
    /\ target \in [Jobs -> [id : Ids, video : BOOLEAN]]
    /\ sending \in [Jobs -> [Platforms ->
           {"wait", "send", "title", "body", "click", "close", "ended"}]]
    /\ copy \in [Jobs -> [Platforms -> Texts]]
    /\ tabs \in [BrowserPlatforms -> Seq(Pages)]
    /\ mixed \in BOOLEAN
    /\ crowded \subseteq BrowserPlatforms

TypeOK == VideoTypeOK /\ WriterTypeOK /\ PublisherTypeOK

Init ==
    /\ pc = [j \in Jobs |-> "idle"]
    /\ WriterInit /\ VideoInit
    /\ target = [j \in Jobs |-> NoTarget]
    /\ sending = [j \in Jobs |-> [x \in Platforms |-> "wait"]]
    /\ copy = [j \in Jobs |-> [x \in Platforms |-> NoText]]
    /\ tabs = [x \in BrowserPlatforms |-> <<>>]
    /\ mixed = FALSE
    /\ crowded = {}

unchangedByPublisher == <<second, writerVars, videos, reviewVars, videoVars>>

-----------------------------------------------------------------------------
(* The Publisher *)

\* An article without a text, without a description or with half a one is not found.
Found(id) == text[id] # Missing /\ meta[id] \notin {Missing, Partial}

\* It is started for an approved article, with no platforms but its own, and reads the
\* description once.  (Without files of the very name find_article takes the first that has
\* the name within its own; ids are of one length, so here there is none.)
StartPublisher(p, id) ==
    /\ MayStart(p)
    /\ began' = [began EXCEPT ![p] = second]
    /\ IF Found(id)
       THEN /\ Goto(p, "publishing")
            /\ target' = [target EXCEPT ![p] = [id |-> id, video |-> meta[id].video]]
       ELSE Goto(p, "unpublished") /\ UNCHANGED target
    /\ UNCHANGED <<sending, copy, tabs, mixed, crowded, unchangedByPublisher>>

\* A thread goes on.
Step(p, x, from, to) ==
    /\ pc[p] = "publishing"
    /\ sending[p][x] = from
    /\ sending' = [sending EXCEPT ![p][x] = to]
    /\ UNCHANGED <<jobVars, target, unchangedByPublisher>>

ByVideo(p, x) == x \in VideoPlatforms /\ target[p].video
ByBrowser(p, x) == x \in BrowserPlatforms /\ ~ByVideo(p, x)

\* A command gets the text in a file of its own, and answers by its exit code; whatever
\* goes wrong with it counts as a failure ...
SendByCommand(p, x) ==
    /\ ~ByBrowser(p, x) /\ ~ByVideo(p, x)
    /\ Step(p, x, "wait", "ended")
    /\ UNCHANGED <<copy, tabs, mixed, crowded>>

\* ... and so does the one that gets the path of the video, or finds none there.
SendVideo(p, x) ==
    /\ ByVideo(p, x)
    /\ Step(p, x, "wait", "ended")
    /\ UNCHANGED <<copy, tabs, mixed, crowded>>

\* Each thread reads the text for itself.
ReadText(p, x) ==
    /\ ByBrowser(p, x)
    /\ Step(p, x, "wait", "send")
    /\ copy' = [copy EXCEPT ![p][x] = text[target[p].id].version]
    /\ UNCHANGED <<tabs, mixed, crowded>>

\* The session is in use: it has a tab, or the thread of another Publisher is in it.
InUse(p, x) ==
    tabs[x] # <<>> \/ \E q \in Jobs \ {p} : sending[q][x] \in {"title", "body", "click", "close"}

\* A tab is opened, beside those of other Publishers or left by one.
OpenTab(p, x) ==
    /\ tabs' = [tabs EXCEPT ![x] = Append(@, BlankPage)]
    /\ crowded' = IF InUse(p, x) THEN crowded \union {x} ELSE crowded

Navigate(p, x) ==
    /\ Step(p, x, "send", "title")
    /\ OpenTab(p, x)
    /\ UNCHANGED <<copy, mixed>>

\* The newest tab of the session is filled in; that no selector works is passed over.
FillIn(x, page) ==
    tabs' \in {tabs, [tabs EXCEPT ![x] = IF @ = <<>> THEN @ ELSE [@ EXCEPT ![Len(@)] = page]]}

Shown(x) == IF tabs[x] = <<>> THEN BlankPage ELSE Last(tabs[x])

FillTitle(p, x) ==
    /\ Step(p, x, "title", "body")
    /\ FillIn(x, [Shown(x) EXCEPT !.title = copy[p][x]])
    /\ UNCHANGED <<copy, mixed, crowded>>

\* Mutant of FillBody: the text is read once more for its body.
FillBodyReadsAgain(p, x) ==
    /\ Step(p, x, "body", "click")
    /\ FillIn(x, [Shown(x) EXCEPT !.body = text[target[p].id].version])
    /\ UNCHANGED <<copy, mixed, crowded>>

FillBody(p, x) ==
    /\ Step(p, x, "body", "click")
    /\ FillIn(x, [Shown(x) EXCEPT !.body = copy[p][x]])
    /\ UNCHANGED <<copy, mixed, crowded>>

\* The button posts what the page shows and leaves it blank, or no selector works,
\* which is passed over as well.
Click(p, x) ==
    /\ Step(p, x, "click", "close")
    /\ \/ /\ mixed' = (mixed \/ Mixed(Shown(x)))
          /\ FillIn(x, BlankPage)
       \/ UNCHANGED <<mixed, tabs>>
    /\ copy' = [copy EXCEPT ![p][x] = NoText]
    /\ UNCHANGED crowded

\* A call that is not passed over fails: opening the page, which may be open all the same,
\* or looking at it before it is filled in or after.
BrowserFails(p, x) ==
    /\ \/ Step(p, x, "send", "close") /\ OpenTab(p, x)
       \/ \E from \in {"send", "title", "click"} :
              Step(p, x, from, "close") /\ UNCHANGED <<tabs, crowded>>
    /\ copy' = [copy EXCEPT ![p][x] = NoText]
    /\ UNCHANGED mixed

\* The tab is closed in any case, unless that fails too.
CloseTab(p, x) ==
    /\ Step(p, x, "close", "ended")
    /\ tabs' \in {tabs, [tabs EXCEPT ![x] = IF @ = <<>> THEN @ ELSE Front(@)]}
    /\ UNCHANGED <<copy, mixed, crowded>>

\* All threads have been waited for.  (A platform that was not reached is put on record,
\* for the monitors of ActionQueue.)
FinishPublishing(p) ==
    /\ pc[p] = "publishing"
    /\ \A x \in Platforms : sending[p][x] = "ended"
    /\ Goto(p, "published")
    /\ target' = [target EXCEPT ![p] = NoTarget]
    /\ sending' = [sending EXCEPT ![p] = [x \in Platforms |-> "wait"]]
    /\ UNCHANGED <<began, copy, tabs, mixed, crowded, unchangedByPublisher>>

\* The sites differ in their selectors only.
BrowserStep(p, x) ==
    \/ Navigate(p, x) \/ FillTitle(p, x) \/ FillBody(p, x) \/ Click(p, x)
    \/ BrowserFails(p, x) \/ CloseTab(p, x)

PublisherStep(p) ==
    \/ FinishPublishing(p)
    \/ \E x \in Platforms : SendByCommand(p, x) \/ SendVideo(p, x) \/ ReadText(p, x)
    \/ \E x \in BrowserPlatforms : BrowserStep(p, x)

-----------------------------------------------------------------------------

WriterGoesOn(j) == WriterProgress(j) /\ UNCHANGED publisherVars
WriterTurns(j) == WriterFate(j) /\ UNCHANGED publisherVars
VideoGoesOn == VideoStep /\ UNCHANGED <<second, jobVars, writerVars, videos, reviewVars, publisherVars>>
Others == (Tick \/ \E id \in Ids : EditText(id)) /\ UNCHANGED publisherVars

Next ==
    \/ VideoGoesOn \/ Others
    \/ \E j \in Jobs :
           \/ WriterGoesOn(j) \/ WriterTurns(j)
           \/ PublisherStep(j) \/ \E id \in Ids : StartPublisher(j, id)

Spec == Init /\ [][Next]_vars

-----------------------------------------------------------------------------
(* Properties *)

IsPublisher(j) == pc[j] \in {"publishing", "published", "unpublished"}

\* Other writers that began in the second of this one.
Namesakes(j) ==
    {k \in Jobs \ {j} : began[k] = began[j] /\ pc[k] # "idle" /\ ~IsPublisher(k)}

\* A writer that has finished has its article in review/, text and description by
\* itself (but for edits) and no pictures of others, unless another writer began in
\* the same second: the names of write_output and illustrate have seconds only.
FinishedArticleIsWhole ==
    \A j \in Jobs : pc[j] = "done" /\ Namesakes(j) = {} =>
        /\ text[began[j]] # Missing /\ text[began[j]].owner \in {j, "editor"}
        /\ meta[began[j]] \notin {Missing, Partial} /\ meta[began[j]].owner = j
        /\ pictures[began[j]] \subseteq {j}

\* The score of the critique in an article's description is that of the text beside it, also
\* after a rerun from a late stage: run_critique_loop never rewrites a text after its last
\* score.  Two exceptions: a text an editor has changed, which keeps its score, and behaviours
\* in which two writers shared a second, because a rerun may carry what they mixed up to any
\* article.  (The score of the proofreader is of a text before: it is not in the model.)
CritiqueScoreIsOfTheText ==
    \A id \in Ids : meta[id] \notin {Missing, Partial} =>
        \/ text[id] # Missing /\ text[id].version \in
               {meta[id].scored} \union [by : {"editor"}, rewrites : 0 .. MaxEdits]
        \/ \E j \in Jobs : ~IsPublisher(j) /\ pc[j] # "idle" /\ Namesakes(j) # {}

\* A post has the title of one text and the body of another only after a session of the
\* browser was used by two Publishers at once, or left open by one (publish_xiaohongshu,
\* publish_douyin): a thread reads its text once.
MixedPostsWereCrowded ==
    mixed => crowded # {}

=============================================================================
