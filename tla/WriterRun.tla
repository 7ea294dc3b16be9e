----------------------------- MODULE WriterRun -----------------------------
(***************************************************************************)
(* The Writer's stages (skills/writer.py, writer_stages.py,                *)
(* writer_helpers.py, writer_illustration.py) and the Router that starts   *)
(* one of them for a confirmed topic (writer_router.py).                   *)
(*                                                                         *)
(* A job is a process.  A text is told apart by who wrote it and how often *)
(* it has been rewritten since; a name of an article is the second its     *)
(* writer began in, so that writers of one second share the name, and the  *)
(* directory of pictures with it.  Stages whose text is not told apart     *)
(* (formatting, titles) only go on or raise; indeed the first draft is     *)
(* dropped: what the next stage gets is the source material.               *)
(***************************************************************************)
EXTENDS SegmentVideo

CONSTANTS
    Jobs,               \* processes: writers here, Publishers in Production
    MaxRounds,          \* max_rewrite_rounds
    MaxSecond,          \* bound: the clock
    MaxEdits,           \* bound: edits of articles
    Missing, Partial    \* a file that is not there, or not complete

ASSUME WriterAssumption ==
    MaxRounds \in Nat \ {0} /\ MaxSecond \in Nat /\ MaxEdits \in Nat

Seconds == 0 .. MaxSecond
Earlier == MaxSecond + 1                        \* an article of an earlier day
Ids == Seconds \union {Earlier}
Authors == Jobs \union {"earlier", "editor"}
Texts == [by : Authors, rewrites : 0 .. MaxRounds + MaxEdits + 1]
Articles == [owner : Authors, version : Texts]
Descriptions == [owner : Authors, scored : Texts, video : BOOLEAN]

ASSUME MarkerAssumption ==
    /\ Missing # Partial
    /\ {Missing, Partial} \intersect (Articles \union Descriptions) = {}

Stages == {"fetch", "draft", "proofread", "critique", "format", "titles", "illustrate", "video"}

VARIABLES
    second,             \* the clock, in seconds
    pc,                 \* where each job is
    began,              \* the second it began in
    version,            \* the text a writer holds
    scored,             \* the text its last critique was about
    round,              \* the round of critique
    videos,             \* whether the style asks for a video
    text,               \* the articles in queue/review/: who wrote the file, and what
    meta,               \* their descriptions: who wrote them, and the text they score
    pictures,           \* whose pictures are in the directory of each second
    newest,             \* the article whose text was written last
    edits               \* how often an editor has saved

writerVars == <<version, scored, round>>
reviewVars == <<text, meta, pictures, newest, edits>>
jobVars == <<pc, began>>

NoText == [by |-> "earlier", rewrites |-> 0]

WriterTypeOK ==
    /\ second \in Seconds
    /\ began \in [Jobs -> Seconds]
    /\ version \in [Jobs -> Texts] /\ scored \in [Jobs -> Texts]
    /\ round \in [Jobs -> 1 .. MaxRounds]
    /\ videos \in BOOLEAN
    /\ text \in [Ids -> Articles \union {Missing}]
    /\ meta \in [Ids -> Descriptions \union {Missing, Partial}]
    /\ pictures \in [Ids -> SUBSET Authors]
    /\ newest \in Ids
    /\ edits \in 0 .. MaxEdits

\* One article waits for approval already.
WriterInit ==
    /\ second = 0
    /\ began = [j \in Jobs |-> 0]
    /\ version = [j \in Jobs |-> NoText] /\ scored = [j \in Jobs |-> NoText]
    /\ round = [j \in Jobs |-> 1]
    /\ videos \in BOOLEAN
    /\ text = [id \in Ids |-> IF id = Earlier THEN [owner |-> "earlier", version |-> NoText]
                                              ELSE Missing]
    /\ meta = [id \in Ids |->
                 IF id = Earlier THEN [owner |-> "earlier", scored |-> NoText, video |-> videos]
                                 ELSE Missing]
    /\ pictures = [id \in Ids |-> IF id = Earlier THEN {"earlier"} ELSE {}]
    /\ newest = Earlier
    /\ edits = 0

Goto(j, where) == pc' = [pc EXCEPT ![j] = where]
Writing(j) == pc[j] \in Stages \union {"text", "meta", "describing"}

\* Bound: where the style asks for a video, one job runs, and nobody edits meanwhile.  So
\* two videos never meet in videos_dir/run_timestamp, as those of one second would
\* (writer_video.py, line 304).
MayStart(j) == pc[j] = "idle" /\ (videos => \A k \in Jobs : pc[k] = "idle")

-----------------------------------------------------------------------------
(* How a writer is started *)

\* The topic is the one it was given, or else the newest in pending/; without one the
\* writer exits at once.  (For reject and rewrite the command line is "--rewrite ID": the
\* first argument is taken for the article, none has that name, and it is the newest topic
\* that is written.)
FindTopic(j) == Goto(j, "fetch") \/ Goto(j, "failed")

\* The Router starts it for a confirmed topic; trigger, reject and rewrite start it
\* without waiting for it.
StartWriter(j) ==
    /\ MayStart(j)
    /\ began' = [began EXCEPT ![j] = second]
    /\ FindTopic(j)
    /\ UNCHANGED <<writerVars, second, videos, reviewVars, videoVars>>

\* Where a writer resumes that is to start from stage k.
StageOf(k) ==
    <<"fetch", "fetch", "proofread", "critique", "format", "titles", "illustrate">>[k]

\* _run_from_stage takes the article whose text is the newest and starts from stage k
\* with its text and its scores; without a description, or with half a one, it ends.
\* The description is read just before the text: here both are read in one step, which an
\* edit in between tells apart only by an edited text.
StartRerun(j, k) ==
    /\ MayStart(j)
    /\ began' = [began EXCEPT ![j] = second]
    /\ IF meta[newest] \in {Missing, Partial}
       THEN Goto(j, "failed") /\ UNCHANGED <<version, scored>>
       ELSE /\ Goto(j, StageOf(k))
            /\ version' = [version EXCEPT ![j] = text[newest].version]
            /\ scored' = [scored EXCEPT ![j] = meta[newest].scored]
    /\ UNCHANGED <<round, second, videos, reviewVars, videoVars>>

-----------------------------------------------------------------------------
(* The stages *)

\* A stage ends and another follows.
Advance(j, stage, next) ==
    /\ pc[j] = stage
    /\ Goto(j, next)
    /\ UNCHANGED <<began, second, videos, reviewVars>>

\* Some text is always had for the source, if only that there is none.
Fetch(j) == Advance(j, "fetch", "draft") /\ UNCHANGED <<writerVars, videoVars>>

\* What is drafted from it for a rerun, or goes on undrafted, is a text of the job's own.
Draft(j) ==
    /\ Advance(j, "draft", "proofread")
    /\ version' = [version EXCEPT ![j] = [by |-> j, rewrites |-> 0]]
    /\ UNCHANGED <<scored, round, videoVars>>

\* The patterns are removed and the text is scored; below the threshold it is rewritten, and
\* proofread_score stays that of the text before.  That score is left out, and the rewritten
\* text is not told apart: the score modelled is that of the critique that follows.
Proofread(j) == Advance(j, "proofread", "critique") /\ UNCHANGED <<writerVars, videoVars>>

Rewritten(v) == [v EXCEPT !.rewrites = IF @ <= MaxRounds THEN @ + 1 ELSE @]

\* A text that did not pass is rewritten for the next round, if there is one.
NextRound(j) ==
    /\ round[j] < MaxRounds
    /\ round' = [round EXCEPT ![j] = @ + 1]
    /\ version' = [version EXCEPT ![j] = Rewritten(@)]
    /\ UNCHANGED pc

\* A text that passes, and that of the last round, goes on as it was scored.
LeaveLoop(j) == Goto(j, "format") /\ round' = [round EXCEPT ![j] = 1]

\* Mutant of CritiqueRound: the last round rewrites like the others.
CritiqueRoundAlways(j) ==
    /\ pc[j] = "critique"
    /\ scored' = [scored EXCEPT ![j] = version[j]]
    /\ \/ NextRound(j)
       \/ LeaveLoop(j) /\ version' \in {version, [version EXCEPT ![j] = Rewritten(@)]}
    /\ UNCHANGED <<began, second, videos, reviewVars, videoVars>>

\* Mutant of CritiqueRound: one round more.
CritiqueRoundOnceMore(j) ==
    /\ pc[j] = "critique"
    /\ scored' = [scored EXCEPT ![j] = version[j]]
    /\ \/ LeaveLoop(j) /\ UNCHANGED version
       \/ /\ round[j] <= MaxRounds /\ round' = [round EXCEPT ![j] = @ + 1]
          /\ version' = [version EXCEPT ![j] = Rewritten(@)] /\ UNCHANGED pc
    /\ UNCHANGED <<began, second, videos, reviewVars, videoVars>>

\* Scorer and critic are asked at once; who fails counts as a score of zero.
CritiqueRound(j) ==
    /\ pc[j] = "critique"
    /\ scored' = [scored EXCEPT ![j] = version[j]]
    /\ NextRound(j) \/ (LeaveLoop(j) /\ UNCHANGED version)
    /\ UNCHANGED <<began, second, videos, reviewVars, videoVars>>

\* The text is cut into paragraphs, which changes nothing a score is about ...
Format(j) == Advance(j, "format", "titles") /\ UNCHANGED <<writerVars, videoVars>>

\* ... and titles are made for it; the best one is taken, however low its score.
MakeTitles(j) == Advance(j, "titles", "illustrate") /\ UNCHANGED <<writerVars, videoVars>>

\* No picture is described: the style has none, or the language model fails.
NothingToDraw == UNCHANGED pictures

\* Agnes draws pictures or none into the directory of the second, where those of another
\* may be.
DrawInto(dir, j) == pictures' \in {pictures, [pictures EXCEPT ![dir] = @ \union {j}]}

\* The style says whether a video is asked for.
AfterPictures == IF videos THEN "video" ELSE "text"

\* Mutant of Illustrate: all writers use one directory.
IllustrateInOne(j) ==
    /\ pc[j] = "illustrate"
    /\ NothingToDraw \/ DrawInto(MaxSecond, j)
    /\ Goto(j, AfterPictures)
    /\ IF videos THEN VideoStart ELSE UNCHANGED videoVars
    /\ UNCHANGED <<began, second, videos, writerVars, text, meta, newest, edits>>

\* A process that has ended holds nothing any more.
WriterEnds(j, how) ==
    /\ Goto(j, how)
    /\ version' = [version EXCEPT ![j] = NoText]
    /\ scored' = [scored EXCEPT ![j] = NoText]
    /\ round' = [round EXCEPT ![j] = 1]
    /\ VideoEnds

\* The pictures; then the video, if the style has one.
Illustrate(j) ==
    /\ pc[j] = "illustrate"
    /\ NothingToDraw \/ DrawInto(began[j], j)
    /\ Goto(j, AfterPictures)
    /\ IF videos THEN VideoStart ELSE UNCHANGED videoVars
    /\ UNCHANGED <<began, second, videos, writerVars, text, meta, newest, edits>>

\* generate_video returns a video or none ...
VideoReturns(j) ==
    /\ vpc \in {"video", "none"}
    /\ Advance(j, "video", "text")
    /\ UNCHANGED <<writerVars, videoVars>>

\* ... or raises, and the Writer ends.
VideoRaises(j) ==
    /\ pc[j] = "video" /\ vpc = "raised"
    /\ WriterEnds(j, "failed")
    /\ UNCHANGED <<began, second, videos, reviewVars>>

-----------------------------------------------------------------------------
(* The output *)

\* write_output: the text is written first ...
WriteText(j) ==
    /\ pc[j] = "text"
    /\ text' = [text EXCEPT ![began[j]] = [owner |-> j, version |-> version[j]]]
    /\ newest' = began[j]
    /\ Goto(j, "meta")
    /\ UNCHANGED <<began, second, videos, writerVars, meta, pictures, edits, videoVars>>

\* ... then the description, which is not complete at once.
WriteMeta(j) ==
    /\ pc[j] = "meta"
    /\ meta' = [meta EXCEPT ![began[j]] = Partial]
    /\ Goto(j, "describing")
    /\ UNCHANGED <<began, second, videos, writerVars, text, pictures, newest, edits, videoVars>>

CompleteMeta(j) ==
    /\ pc[j] = "describing"
    /\ meta' = [meta EXCEPT ![began[j]] =
                  [owner |-> j, scored |-> scored[j], video |-> vpc = "video"]]
    /\ WriterEnds(j, "done")
    /\ UNCHANGED <<began, second, videos, text, pictures, newest, edits>>

\* A language model fails, its answer has another shape, a prompt is missing or the disk
\* is full, and the exception ends the process.
WriterRaises(j) ==
    /\ Writing(j)
    /\ WriterEnds(j, "failed")
    /\ UNCHANGED <<began, second, videos, reviewVars>>

\* It is killed, by the Router after its time or with the machine.
WriterKilled(j) ==
    /\ Writing(j)
    /\ WriterEnds(j, "failed")
    /\ UNCHANGED <<began, second, videos, reviewVars>>

\* An editor saves a text of queue/review/ (update_article_content).
EditText(id) ==
    /\ edits < MaxEdits /\ ~videos /\ text[id] # Missing
    /\ text' = [text EXCEPT ![id] = [owner |-> "editor",
                                     version |-> [by |-> "editor", rewrites |-> edits]]]
    /\ newest' = id
    /\ edits' = edits + 1
    /\ UNCHANGED <<jobVars, second, videos, writerVars, meta, pictures, videoVars>>

Tick ==
    /\ second < MaxSecond
    /\ second' = second + 1
    /\ UNCHANGED <<jobVars, videos, writerVars, reviewVars, videoVars>>

\* What a running writer does, and what happens to it.
WriterProgress(j) ==
    \/ Fetch(j) \/ Draft(j) \/ Proofread(j) \/ CritiqueRound(j)
    \/ Format(j) \/ MakeTitles(j) \/ Illustrate(j)
    \/ VideoReturns(j) \/ VideoRaises(j)
    \/ WriteText(j) \/ WriteMeta(j) \/ CompleteMeta(j)

WriterFate(j) == StartWriter(j) \/ (\E k \in 1 .. 7 : StartRerun(j, k))
                 \/ WriterRaises(j) \/ WriterKilled(j)

=============================================================================
