-------------------------- MODULE Production_proofs --------------------------
(* Theorems about Production, for every value of its constants. *)
EXTENDS Production, SequenceTheorems, TLAPS

-----------------------------------------------------------------------------
(* The segments of a video *)

\* Where the picture made for segment k can be found: image_1.png, or a segment's own.
\* There is one such place at most, and none before the script has written it.
InOnePlace ==
    /\ \A i \in Segments : picture[i] # Nothing => picture[i] # shared
    /\ \A k \in Segments :
           drawing[k] \in {"wait", "asked"} =>
               shared # k /\ \A i \in Segments : picture[i] # k

VideoInv == VideoTypeOK /\ InOnePlace /\ NoPictureTwice

LEMMA NoSegment == Nothing \notin Segments /\ Segments \subseteq Nat
BY VideoAssumption DEF Segments, Nothing

LEMMA EmptyIsFine ==
    ASSUME EmptyDirectory, vpc' \in {"idle", "split"}
    PROVE  VideoInv'
<1>1. VideoTypeOK'
  BY DEF EmptyDirectory, VideoTypeOK
<1>2. InOnePlace' /\ NoPictureTwice'
  BY NoSegment DEF EmptyDirectory, InOnePlace, NoPictureTwice
<1>3. QED
  BY <1>1, <1>2 DEF VideoInv

\* A step after which no picture is anywhere else, and none is to be drawn anew.
LEMMA SamePlaces ==
    ASSUME VideoInv, VideoTypeOK', UNCHANGED <<shared, picture>>,
           \A k \in Segments : drawing'[k] \in {"wait", "asked"} => drawing[k] \in {"wait", "asked"}
    PROVE  VideoInv'
BY DEF VideoInv, InOnePlace, NoPictureTwice

LEMMA VideoStepKeeps ==
    ASSUME VideoInv, VideoStep
    PROVE  VideoInv'
<1> USE DEF VideoInv
<1>1. CASE Split
  <2>1. \A n \in Segments : 1 .. n \subseteq Segments
    BY VideoAssumption DEF Segments
  <2>2. VideoTypeOK'
    BY <1>1, <2>1 DEF Split, VideoTypeOK
  <2>3. QED
    BY <1>1, <2>2, SamePlaces DEF Split
<1>2. CASE CollectSegments
  BY <1>2, SamePlaces DEF CollectSegments, VideoTypeOK
<1>3. CASE MakeClip
  <2>1. VideoTypeOK'
    BY <1>3 DEF MakeClip, VideoTypeOK
  <2>2. QED
    BY <1>3, <2>1, SamePlaces DEF MakeClip
<1>4. CASE ClipsMade
  BY <1>4, SamePlaces DEF ClipsMade, VideoTypeOK
<1>5. CASE Concat
  BY <1>5, SamePlaces DEF Concat, VideoTypeOK
<1>6. CASE TidyUp
  BY <1>6, SamePlaces DEF TidyUp, VideoTypeOK
<1>7. CASE AskAgnes
  BY <1>7, SamePlaces DEF AskAgnes, VideoTypeOK
<1>8. ASSUME NEW i \in Segments, TakeSegment(i)
      PROVE  VideoInv'
  <2>1. VideoTypeOK'
    BY <1>8 DEF TakeSegment, VideoTypeOK
  <2>2. \A k \in Segments : drawing'[k] \in {"wait", "asked"} => drawing[k] \in {"wait", "asked"}
    BY <1>8 DEF TakeSegment, Started, VideoTypeOK
  <2>3. QED
    BY <1>8, <2>1, <2>2, SamePlaces DEF TakeSegment
<1>9. ASSUME NEW i \in Segments, AgnesWrites(i)
      PROVE  VideoInv'
  <2>1. VideoTypeOK'
    BY <1>9 DEF AgnesWrites, VideoTypeOK
  <2>2. \A k \in Segments : picture[k] # i
    BY <1>9 DEF AgnesWrites, InOnePlace
  <2>3. InOnePlace' /\ NoPictureTwice'
    BY <1>9, <2>2, NoSegment DEF AgnesWrites, InOnePlace, NoPictureTwice, VideoTypeOK
  <2>4. QED
    BY <2>1, <2>3
<1>10. ASSUME NEW i \in Segments, FindPicture(i) \/ AgnesFails(i)
       PROVE  VideoInv'
  <2>1. VideoTypeOK'
    BY <1>10 DEF FindPicture, AgnesFails, VideoTypeOK
  <2>2. \A k \in Segments : drawing'[k] \in {"wait", "asked"} => drawing[k] \in {"wait", "asked"}
    BY <1>10 DEF FindPicture, AgnesFails, VideoTypeOK
  <2>3. QED
    BY <1>10, <2>1, <2>2, SamePlaces DEF FindPicture, AgnesFails
<1>11. ASSUME NEW i \in Segments, MovePicture(i)
       PROVE  VideoInv'
  <2>1. VideoTypeOK'
    BY <1>11, NoSegment DEF MovePicture, VideoTypeOK
  <2>2. \A k \in Segments : drawing'[k] \in {"wait", "asked"} =>
            drawing[k] \in {"wait", "asked"} /\ shared # k
    BY <1>11 DEF MovePicture, VideoTypeOK, InOnePlace
  <2>3. \A k \in Segments : picture'[k] \in {picture[k], shared}
                            /\ (k # i => picture'[k] = picture[k])
    BY <1>11 DEF MovePicture, VideoTypeOK
  <2>4. InOnePlace'
    BY <1>11, <2>2, <2>3, NoSegment DEF MovePicture, InOnePlace
  <2>5. NoPictureTwice'
    BY <1>11, <2>3 DEF InOnePlace, NoPictureTwice
  <2>6. QED
    BY <2>1, <2>4, <2>5
<1>12. ASSUME NEW i \in Segments, Speak(i)
       PROVE  VideoInv'
  <2>1. VideoTypeOK'
    BY <1>12 DEF Speak, VideoTypeOK
  <2>2. QED
    BY <1>12, <2>1, SamePlaces DEF Speak
<1>13. QED
  BY <1>1, <1>2, <1>3, <1>4, <1>5, <1>6, <1>7, <1>8, <1>9, <1>10, <1>11, <1>12 DEF VideoStep

\* What a writer does to the video: it starts one, ends it, or leaves it alone.
LEMMA WriterAndVideo ==
    ASSUME NEW j \in Jobs, WriterProgress(j) \/ WriterFate(j)
    PROVE  (EmptyDirectory /\ vpc' \in {"idle", "split"}) \/ UNCHANGED videoVars
<1>1. CASE Illustrate(j)
  BY <1>1 DEF Illustrate, VideoStart
<1>2. CASE VideoRaises(j) \/ CompleteMeta(j) \/ WriterRaises(j) \/ WriterKilled(j)
  BY <1>2 DEF VideoRaises, CompleteMeta, WriterRaises, WriterKilled, WriterEnds, VideoEnds
<1>3. CASE Fetch(j) \/ Draft(j) \/ Proofread(j) \/ CritiqueRound(j) \/ Format(j) \/ MakeTitles(j)
           \/ VideoReturns(j) \/ WriteText(j) \/ WriteMeta(j) \/ StartWriter(j)
  BY <1>3 DEF Fetch, Draft, Proofread, CritiqueRound, Format, MakeTitles, VideoReturns, WriteText,
     WriteMeta, StartWriter
<1>4. ASSUME NEW k \in 1 .. 7, StartRerun(j, k)
      PROVE  UNCHANGED videoVars
  BY <1>4 DEF StartRerun
<1>5. QED
  BY <1>1, <1>2, <1>3, <1>4 DEF WriterProgress, WriterFate

LEMMA VideoInvariant == Spec => []VideoInv
<1>1. Init => VideoInv
  <2> SUFFICES ASSUME VideoInit
               PROVE  VideoInv
    BY DEF Init
  <2>1. VideoTypeOK
    BY DEF VideoInit, VideoTypeOK
  <2>2. QED
    BY <2>1, NoSegment DEF VideoInit, VideoInv, InOnePlace, NoPictureTwice
<1>2. VideoInv /\ [Next]_vars => VideoInv'
  <2> SUFFICES ASSUME VideoInv, [Next]_vars
               PROVE  VideoInv'
    OBVIOUS
  <2>1. CASE UNCHANGED videoVars
    BY <2>1 DEF videoVars, VideoInv, VideoTypeOK, InOnePlace, NoPictureTwice
  <2>2. CASE VideoGoesOn
    BY <2>2, VideoStepKeeps DEF VideoGoesOn
  <2>3. ASSUME NEW j \in Jobs, WriterGoesOn(j) \/ WriterTurns(j)
        PROVE  VideoInv'
    BY <2>1, <2>3, WriterAndVideo, EmptyIsFine DEF WriterGoesOn, WriterTurns
  <2>4. CASE Others
    BY <2>1, <2>4 DEF Others, Tick, EditText
  <2>5. ASSUME NEW j \in Jobs, PublisherStep(j)
        PROVE  UNCHANGED videoVars
    BY <2>5 DEF PublisherStep, FinishPublishing, SendByCommand, SendVideo, ReadText, BrowserStep,
       Navigate, FillTitle, FillBody, Click, BrowserFails, CloseTab, Step, unchangedByPublisher
  <2>6. ASSUME NEW j \in Jobs, NEW id \in Ids, StartPublisher(j, id)
        PROVE  UNCHANGED videoVars
    BY <2>6 DEF StartPublisher, unchangedByPublisher
  <2>7. QED
    BY <2>1, <2>2, <2>3, <2>4, <2>5, <2>6 DEF Next, vars
<1>3. QED
  BY <1>1, <1>2, PTL DEF Spec

\* No two segments of a video show the same picture, for any number of segments and any
\* size of the pool, although all pictures are made under one name.
THEOREM PicturesAreDistinct == Spec => []NoPictureTwice
<1>1. VideoInv => NoPictureTwice
  BY DEF VideoInv
<1>2. QED
  BY <1>1, VideoInvariant, PTL

-----------------------------------------------------------------------------
(* Types *)

\* What was written last is there, and so is what is being published: no text is removed.
Present ==
    /\ text[newest] # Missing
    /\ \A p \in Jobs : pc[p] = "publishing" => text[target[p].id] # Missing

TypeInv == WriterTypeOK /\ PublisherTypeOK /\ Present

LEMMA Kinds ==
    /\ Earlier \in Ids /\ Seconds \subseteq Ids /\ 0 \in Seconds
    /\ NoText \in Texts
    /\ 1 \in 1 .. MaxRounds
    /\ \A j \in Jobs : [by |-> j, rewrites |-> 0] \in Texts
    /\ \A n \in 0 .. MaxEdits : [by |-> "editor", rewrites |-> n] \in Texts
    /\ \A v \in Texts : Rewritten(v) \in Texts
    /\ Missing # Partial
    /\ \A a \in Articles : a # Missing
    /\ \A d \in Descriptions : d \notin {Missing, Partial}
<1>1. 0 \in Seconds /\ 1 \in 1 .. MaxRounds /\ MaxRounds \in Nat /\ MaxEdits \in Nat
  BY WriterAssumption DEF Seconds
<1>2. Earlier \in Ids /\ Seconds \subseteq Ids
  BY DEF Ids
<1>3. NoText \in Texts /\ (\A j \in Jobs : [by |-> j, rewrites |-> 0] \in Texts)
  BY <1>1 DEF NoText, Texts, Authors
<1>4. \A n \in 0 .. MaxEdits : [by |-> "editor", rewrites |-> n] \in Texts
  BY <1>1 DEF Texts, Authors
<1>5. ASSUME NEW v \in Texts
      PROVE  Rewritten(v) \in Texts
  <2>1. v.by \in Authors /\ v.rewrites \in 0 .. MaxRounds + MaxEdits + 1
        /\ v = [by |-> v.by, rewrites |-> v.rewrites]
    BY DEF Texts
  <2>2. Rewritten(v) = [by |-> v.by,
            rewrites |-> IF v.rewrites <= MaxRounds THEN v.rewrites + 1 ELSE v.rewrites]
    BY <2>1 DEF Rewritten
  <2>3. QED
    BY <1>1, <2>1, <2>2 DEF Texts
<1>6. Missing # Partial /\ (\A a \in Articles : a # Missing)
      /\ (\A d \in Descriptions : d \notin {Missing, Partial})
  BY MarkerAssumption
<1>7. QED
  BY <1>1, <1>2, <1>3, <1>4, <1>5, <1>6

LEMMA InitTypes == Init => TypeInv
<1> SUFFICES ASSUME Init
             PROVE  TypeInv
  OBVIOUS
<1>1. [owner |-> "earlier", version |-> NoText] \in Articles
  BY Kinds DEF Articles, Authors
<1>2. [owner |-> "earlier", scored |-> NoText, video |-> videos] \in Descriptions
  BY Kinds DEF Descriptions, Authors, Init, WriterInit
<1>3. "earlier" \in Authors /\ edits = 0 /\ 0 \in 0 .. MaxEdits
  BY WriterAssumption DEF Authors, Init, WriterInit
<1>4. WriterTypeOK
  BY <1>1, <1>2, <1>3, Kinds DEF Init, WriterInit, WriterTypeOK
<1>5. PublisherTypeOK
  <2>1. NoTarget \in [id : Ids, video : BOOLEAN]
    BY Kinds DEF NoTarget
  <2>2. [x \in Platforms |-> "wait"] \in
            [Platforms -> {"wait", "send", "title", "body", "click", "close", "ended"}]
    OBVIOUS
  <2>3. <<>> \in Seq(Pages) /\ "idle" \in Places
    BY DEF Places
  <2>4. QED
    BY <2>1, <2>2, <2>3, Kinds DEF Init, PublisherTypeOK
<1>6. Present
  BY <1>1, Kinds DEF Init, WriterInit, Present
<1>7. QED
  BY <1>4, <1>5, <1>6 DEF TypeInv

\* Steps that leave the articles alone and publish nothing new.
LEMMA StaysPresent ==
    ASSUME TypeInv, UNCHANGED <<text, newest, target>>,
           \A p \in Jobs : pc'[p] = "publishing" => pc[p] = "publishing"
    PROVE  Present'
BY DEF TypeInv, Present

\* Steps that write a text.
LEMMA BecomesPresent ==
    ASSUME TypeInv, UNCHANGED target, NEW id \in Ids, NEW a \in Articles,
           text' = [text EXCEPT ![id] = a], newest' = id,
           \A p \in Jobs : pc'[p] = "publishing" => pc[p] = "publishing"
    PROVE  Present'
<1>1. text \in [Ids -> Articles \union {Missing}]
  BY DEF TypeInv, WriterTypeOK
<1>2. \A i \in Ids : text[i] # Missing => text'[i] # Missing
  BY <1>1, Kinds
<1>3. \A p \in Jobs : target[p].id \in Ids
  BY DEF TypeInv, PublisherTypeOK
<1>4. QED
  BY <1>1, <1>2, <1>3, Kinds DEF TypeInv, Present

LEMMA PcMoves ==
    ASSUME TypeInv, NEW j \in Jobs, NEW where \in Places \ {"publishing"}, Goto(j, where)
    PROVE  /\ pc' \in [Jobs -> Places]
           /\ \A p \in Jobs : pc'[p] = "publishing" => pc[p] = "publishing"
BY DEF TypeInv, PublisherTypeOK, Goto

LEMMA EndsTyped ==
    ASSUME TypeInv, NEW j \in Jobs, NEW how \in {"done", "failed"}, WriterEnds(j, how)
    PROVE  /\ version' \in [Jobs -> Texts] /\ scored' \in [Jobs -> Texts]
           /\ round' \in [Jobs -> 1 .. MaxRounds]
           /\ pc' \in [Jobs -> Places]
           /\ \A p \in Jobs : pc'[p] = "publishing" => pc[p] = "publishing"
<1>1. how \in Places \ {"publishing"}
  BY DEF Places, Stages
<1>2. QED
  BY <1>1, Kinds, PcMoves DEF WriterEnds, TypeInv, WriterTypeOK

LEMMA WriterTypes ==
    ASSUME TypeInv, NEW j \in Jobs, WriterProgress(j) \/ WriterFate(j), UNCHANGED publisherVars
    PROVE  TypeInv'
<1> USE DEF TypeInv
<1>0. \A w \in Stages \union {"text", "meta", "describing", "done", "failed"} :
          w \in Places \ {"publishing"}
  BY DEF Places, Stages
<1>a. ASSUME pc' \in [Jobs -> Places]
      PROVE  PublisherTypeOK'
  BY <1>a DEF publisherVars, PublisherTypeOK
<1>b. ASSUME NEW w \in Stages \union {"text", "meta", "describing", "done", "failed"}, Goto(j, w)
      PROVE  /\ PublisherTypeOK'
             /\ \A p \in Jobs : pc'[p] = "publishing" => pc[p] = "publishing"
  BY <1>0, <1>a, <1>b, PcMoves
<1>c. UNCHANGED target
  BY DEF publisherVars
<1>1. CASE Fetch(j) \/ Proofread(j) \/ Format(j) \/ MakeTitles(j) \/ VideoReturns(j)
  <2>1. \E w \in Stages \union {"text"} : Goto(j, w)
    BY <1>1 DEF Fetch, Proofread, Format, MakeTitles, VideoReturns, Advance, Stages
  <2>2. WriterTypeOK' /\ UNCHANGED <<text, newest>>
    BY <1>1 DEF Fetch, Proofread, Format, MakeTitles, VideoReturns, Advance, WriterTypeOK,
       writerVars, reviewVars
  <2>3. QED
    BY <1>b, <1>c, <2>1, <2>2, StaysPresent
<1>2. CASE Draft(j)
  <2>1. Goto(j, "proofread") /\ "proofread" \in Stages
    BY <1>2 DEF Draft, Advance, Stages
  <2>2. WriterTypeOK' /\ UNCHANGED <<text, newest>>
    BY <1>2, Kinds DEF Draft, Advance, WriterTypeOK, reviewVars
  <2>3. QED
    BY <1>b, <1>c, <2>1, <2>2, StaysPresent
<1>3. CASE CritiqueRound(j)
  <2>1. CASE NextRound(j)
    <3>1. round[j] + 1 \in 1 .. MaxRounds /\ UNCHANGED pc
      BY <2>1, WriterAssumption DEF NextRound, WriterTypeOK
    <3>2. version' \in [Jobs -> Texts] /\ scored' \in [Jobs -> Texts] /\ round' \in [Jobs -> 1 .. MaxRounds]
      <4>1. version' = [version EXCEPT ![j] = Rewritten(version[j])]
            /\ round' = [round EXCEPT ![j] = round[j] + 1]
            /\ scored' = [scored EXCEPT ![j] = version[j]]
        BY <1>3, <2>1 DEF NextRound, CritiqueRound
      <4>2. version[j] \in Texts /\ Rewritten(version[j]) \in Texts
        BY Kinds DEF WriterTypeOK
      <4>3. QED
        BY <3>1, <4>1, <4>2 DEF WriterTypeOK
    <3>3. WriterTypeOK' /\ UNCHANGED <<text, newest>>
      BY <1>3, <3>2 DEF CritiqueRound, WriterTypeOK, reviewVars
    <3>4. PublisherTypeOK'
      BY <1>a, <3>1 DEF PublisherTypeOK
    <3>5. QED
      BY <1>c, <3>1, <3>3, <3>4, StaysPresent
  <2>2. CASE LeaveLoop(j) /\ UNCHANGED version
    <3>1. WriterTypeOK' /\ UNCHANGED <<text, newest>>
      BY <1>3, <2>2, Kinds DEF CritiqueRound, LeaveLoop, WriterTypeOK, reviewVars
    <3>2. Goto(j, "format") /\ "format" \in Stages
      BY <2>2 DEF LeaveLoop, Stages
    <3>3. QED
      BY <1>b, <1>c, <3>1, <3>2, StaysPresent
  <2>3. QED
    BY <1>3, <2>1, <2>2 DEF CritiqueRound
<1>4. CASE Illustrate(j)
  <2>1. Goto(j, AfterPictures) /\ AfterPictures \in Stages \union {"text"}
    BY <1>4 DEF Illustrate, AfterPictures, Stages
  <2>2. pictures' \in [Ids -> SUBSET Authors]
    <3>1. NothingToDraw \/ DrawInto(began[j], j)
      BY <1>4 DEF Illustrate
    <3>2. pictures' = pictures \/ pictures' = [pictures EXCEPT ![began[j]] = @ \union {j}]
      BY <3>1 DEF NothingToDraw, DrawInto
    <3>3. QED
      BY <3>2 DEF WriterTypeOK, Authors
  <2>3. WriterTypeOK' /\ UNCHANGED <<text, newest>>
    BY <1>4, <2>2 DEF Illustrate, WriterTypeOK, writerVars
  <2>4. QED
    BY <1>b, <1>c, <2>1, <2>3, StaysPresent
<1>5. CASE VideoRaises(j) \/ WriterRaises(j) \/ WriterKilled(j)
  <2>1. WriterEnds(j, "failed") /\ UNCHANGED <<began, second, videos, reviewVars>>
    BY <1>5 DEF VideoRaises, WriterRaises, WriterKilled
  <2>2. WriterTypeOK' /\ UNCHANGED <<text, newest>>
    BY <2>1, EndsTyped DEF WriterTypeOK, reviewVars
  <2>3. QED
    BY <1>a, <1>c, <2>1, <2>2, EndsTyped, StaysPresent
<1>6. CASE WriteText(j)
  <2>1. began[j] \in Ids /\ [owner |-> j, version |-> version[j]] \in Articles
    BY Kinds DEF WriterTypeOK, Articles, Authors
  <2>2. WriterTypeOK'
    BY <1>6, <2>1 DEF WriteText, WriterTypeOK, writerVars
  <2>3. Goto(j, "meta")
    BY <1>6 DEF WriteText
  <2>4. PublisherTypeOK' /\ \A p \in Jobs : pc'[p] = "publishing" => pc[p] = "publishing"
    BY <1>b, <2>3
  <2>5. Present'
    BY <1>6, <1>c, <2>1, <2>4, BecomesPresent DEF WriteText
  <2>6. QED
    BY <2>2, <2>4, <2>5
<1>7. CASE WriteMeta(j)
  <2>1. WriterTypeOK' /\ UNCHANGED <<text, newest>> /\ Goto(j, "describing")
    BY <1>7 DEF WriteMeta, WriterTypeOK, writerVars
  <2>2. QED
    BY <1>b, <1>c, <2>1, StaysPresent
<1>8. CASE CompleteMeta(j)
  <2>1. [owner |-> j, scored |-> scored[j], video |-> vpc = "video"] \in Descriptions
    BY DEF WriterTypeOK, Descriptions, Authors
  <2>2. WriterEnds(j, "done")
    BY <1>8 DEF CompleteMeta
  <2>3. WriterTypeOK' /\ UNCHANGED <<text, newest>>
    BY <1>8, <2>1, <2>2, EndsTyped DEF CompleteMeta, WriterTypeOK
  <2>4. QED
    BY <1>a, <1>c, <2>2, <2>3, EndsTyped, StaysPresent
<1>9. CASE StartWriter(j)
  <2>1. \E w \in {"fetch", "failed"} : Goto(j, w)
    BY <1>9 DEF StartWriter, FindTopic
  <2>2. WriterTypeOK' /\ UNCHANGED <<text, newest>>
    BY <1>9 DEF StartWriter, WriterTypeOK, writerVars, reviewVars
  <2>3. "fetch" \in Stages
    BY DEF Stages
  <2>4. QED
    BY <1>b, <1>c, <2>1, <2>2, <2>3, StaysPresent
<1>10. ASSUME NEW k \in 1 .. 7, StartRerun(j, k)
       PROVE  TypeInv'
  <2>1. StageOf(k) \in Stages
    <3>1. k = 1 \/ k = 2 \/ k = 3 \/ k = 4 \/ k = 5 \/ k = 6 \/ k = 7
      OBVIOUS
    <3>2. QED
      BY <3>1 DEF StageOf, Stages
  <2>2. \E w \in Stages \union {"failed"} : Goto(j, w)
    BY <1>10, <2>1 DEF StartRerun
  <2>3. version' \in [Jobs -> Texts] /\ scored' \in [Jobs -> Texts]
    <3>1. CASE meta[newest] \in {Missing, Partial}
      BY <1>10, <3>1 DEF StartRerun, WriterTypeOK
    <3>2. CASE meta[newest] \notin {Missing, Partial}
      <4>1. meta[newest] \in Descriptions /\ text[newest] \in Articles
        BY <3>2 DEF WriterTypeOK, Present
      <4>2. meta[newest].scored \in Texts /\ text[newest].version \in Texts
        BY <4>1 DEF Descriptions, Articles
      <4>3. QED
        BY <1>10, <3>2, <4>2 DEF StartRerun, WriterTypeOK
    <3>3. QED
      BY <3>1, <3>2
  <2>4. WriterTypeOK' /\ UNCHANGED <<text, newest>>
    BY <1>10, <2>3 DEF StartRerun, WriterTypeOK, reviewVars
  <2>5. QED
    BY <1>b, <1>c, <2>2, <2>4, StaysPresent
<1>11. QED
  BY <1>1, <1>2, <1>3, <1>4, <1>5, <1>6, <1>7, <1>8, <1>9, <1>10 DEF WriterProgress, WriterFate

-----------------------------------------------------------------------------
(* Types of the Publisher *)

Wheres == {"wait", "send", "title", "body", "click", "close", "ended"}

LEMMA StepTyped ==
    ASSUME TypeInv, NEW p \in Jobs, NEW x \in Platforms, NEW from, NEW to \in Wheres,
           Step(p, x, from, to), copy' \in [Jobs -> [Platforms -> Texts]],
           tabs' \in [BrowserPlatforms -> Seq(Pages)], mixed' \in BOOLEAN,
           crowded' \subseteq BrowserPlatforms
    PROVE  TypeInv'
<1>1. sending' \in [Jobs -> [Platforms -> Wheres]]
  BY DEF Step, TypeInv, PublisherTypeOK, Wheres
<1>2. WriterTypeOK'
  <2>1. UNCHANGED second /\ UNCHANGED writerVars /\ UNCHANGED videos /\ UNCHANGED reviewVars
        /\ UNCHANGED jobVars
    BY DEF Step, unchangedByPublisher
  <2>2. QED
    BY <2>1 DEF TypeInv, WriterTypeOK, writerVars, reviewVars, jobVars
<1>3. Present'
  BY DEF Step, TypeInv, Present, jobVars, unchangedByPublisher, reviewVars
<1>4. PublisherTypeOK'
  BY <1>1 DEF Step, TypeInv, PublisherTypeOK, jobVars, Wheres
<1>5. QED
  BY <1>2, <1>3, <1>4 DEF TypeInv

LEMMA PageFacts ==
    ASSUME NEW page \in Pages, NEW t \in Texts
    PROVE  /\ [page EXCEPT !.title = t] \in Pages
           /\ [page EXCEPT !.body = t] \in Pages
           /\ BlankPage \in Pages
BY DEF Pages, BlankPage

LEMMA TabFacts ==
    ASSUME NEW s \in Seq(Pages)
    PROVE  /\ \A page \in Pages : Append(s, page) \in Seq(Pages)
           /\ s # <<>> => /\ Len(s) \in Nat \ {0} /\ Len(s) \in DOMAIN s /\ Last(s) \in Pages
                          /\ Front(s) \in Seq(Pages) /\ Len(Front(s)) = Len(s) - 1
                          /\ \A page \in Pages : [s EXCEPT ![Len(s)] = page] \in Seq(Pages)
<1>1. \A page \in Pages : Append(s, page) \in Seq(Pages)
  OBVIOUS
<1>2. ASSUME s # <<>>
      PROVE  Len(s) \in Nat \ {0} /\ Len(s) \in DOMAIN s /\ s[Len(s)] \in Pages
  BY <1>2
<1>3. ASSUME s # <<>>
      PROVE  Front(s) \in Seq(Pages) /\ Len(Front(s)) = Len(s) - 1
  <2>1. 1 \in Int /\ Len(s) - 1 \in Int /\ \A i \in 1 .. Len(s) - 1 : s[i] \in Pages
    BY <1>2, <1>3
  <2>2. SubSeq(s, 1, Len(s) - 1) \in Seq(Pages)
        /\ Len(SubSeq(s, 1, Len(s) - 1)) = IF 1 <= Len(s) - 1 THEN Len(s) - 1 - 1 + 1 ELSE 0
    BY <2>1, SubSeqProperties
  <2>3. Front(s) = SubSeq(s, 1, Len(s) - 1)
    BY DEF Front
  <2>4. Front(s) \in Seq(Pages) /\ Len(Front(s)) = IF 1 <= Len(s) - 1 THEN Len(s) - 1 - 1 + 1 ELSE 0
    BY <2>2, <2>3, Zenon
  <2>5. Len(s) \in Nat \ {0}
    BY <1>2, <1>3
  <2>6. CASE Len(s) = 1
    <3>1. ~(1 <= Len(s) - 1) /\ Len(s) - 1 = 0
      BY <2>6
    <3>2. QED
      BY <2>4, <3>1
  <2>7. CASE Len(s) # 1
    <3>0. \A n \in Nat \ {0} : n # 1 => 1 <= n - 1 /\ n - 1 - 1 + 1 = n - 1
      OBVIOUS
    <3>1. 1 <= Len(s) - 1 /\ Len(s) - 1 - 1 + 1 = Len(s) - 1
      BY <2>5, <2>7, <3>0
    <3>2. Len(Front(s)) = Len(s) - 1 - 1 + 1
      BY <2>4, <3>1
    <3>3. QED
      BY <2>4, <3>1, <3>2
  <2>8. QED
    BY <2>6, <2>7
<1>4. ASSUME s # <<>>, NEW page \in Pages
      PROVE  [s EXCEPT ![Len(s)] = page] \in Seq(Pages)
  BY <1>2, <1>4
<1>5. QED
  BY <1>1, <1>2, <1>3, <1>4 DEF Last

LEMMA TabsTyped ==
    ASSUME TypeInv, NEW x \in BrowserPlatforms
    PROVE  /\ Shown(x) \in Pages
           /\ \A page \in Pages : FillIn(x, page) => tabs' \in [BrowserPlatforms -> Seq(Pages)]
           /\ \A p \in Jobs : OpenTab(p, x) =>
                 tabs' \in [BrowserPlatforms -> Seq(Pages)] /\ crowded' \subseteq BrowserPlatforms
           /\ [tabs EXCEPT ![x] = IF @ = <<>> THEN @ ELSE Front(@)] \in [BrowserPlatforms -> Seq(Pages)]
<1>1. tabs \in [BrowserPlatforms -> Seq(Pages)] /\ tabs[x] \in Seq(Pages) /\ BlankPage \in Pages
      /\ crowded \subseteq BrowserPlatforms
  BY DEF TypeInv, PublisherTypeOK, Pages, BlankPage
<1>2. Shown(x) \in Pages
  BY <1>1, TabFacts DEF Shown
<1>3. ASSUME NEW page \in Pages, FillIn(x, page)
      PROVE  tabs' \in [BrowserPlatforms -> Seq(Pages)]
  <2>1. (IF tabs[x] = <<>> THEN tabs[x] ELSE [tabs[x] EXCEPT ![Len(tabs[x])] = page]) \in Seq(Pages)
    BY <1>1, TabFacts
  <2>2. QED
    BY <1>1, <1>3, <2>1 DEF FillIn
<1>4. ASSUME NEW p \in Jobs, OpenTab(p, x)
      PROVE  tabs' \in [BrowserPlatforms -> Seq(Pages)] /\ crowded' \subseteq BrowserPlatforms
  <2>1. Append(tabs[x], BlankPage) \in Seq(Pages)
    BY <1>1, TabFacts
  <2>2. QED
    BY <1>1, <1>4, <2>1 DEF OpenTab
<1>5. (IF tabs[x] = <<>> THEN tabs[x] ELSE Front(tabs[x])) \in Seq(Pages)
  BY <1>1, TabFacts
<1>6. [tabs EXCEPT ![x] = IF @ = <<>> THEN @ ELSE Front(@)] \in [BrowserPlatforms -> Seq(Pages)]
  BY <1>1, <1>5
<1>7. QED
  BY <1>2, <1>3, <1>4, <1>6

LEMMA PublisherTypes ==
    ASSUME TypeInv, NEW p \in Jobs, PublisherStep(p)
    PROVE  TypeInv'
<1>0. /\ copy \in [Jobs -> [Platforms -> Texts]] /\ tabs \in [BrowserPlatforms -> Seq(Pages)]
      /\ mixed \in BOOLEAN /\ crowded \subseteq BrowserPlatforms
  BY DEF TypeInv, PublisherTypeOK
<1>c. \A x \in Platforms : [copy EXCEPT ![p][x] = NoText] \in [Jobs -> [Platforms -> Texts]]
  BY <1>0, Kinds
<1>1. CASE FinishPublishing(p)
  <2>1. "published" \in Places \ {"publishing"} /\ Goto(p, "published")
    BY <1>1 DEF FinishPublishing, Places, Stages
  <2>2. NoTarget \in [id : Ids, video : BOOLEAN]
    BY Kinds DEF NoTarget
  <2>3. PublisherTypeOK'
    BY <1>1, <2>1, <2>2, PcMoves DEF FinishPublishing, TypeInv, PublisherTypeOK
  <2>4. WriterTypeOK'
    BY <1>1 DEF FinishPublishing, TypeInv, WriterTypeOK, unchangedByPublisher, writerVars, reviewVars
  <2>5. Present'
    BY <1>1, Kinds DEF FinishPublishing, Goto, TypeInv, Present, PublisherTypeOK,
       unchangedByPublisher, reviewVars
  <2>6. QED
    BY <2>3, <2>4, <2>5 DEF TypeInv
<1>2. ASSUME NEW x \in Platforms, SendByCommand(p, x) \/ SendVideo(p, x)
      PROVE  TypeInv'
  BY <1>0, <1>2, StepTyped DEF SendByCommand, SendVideo, Wheres
<1>3. ASSUME NEW x \in Platforms, ReadText(p, x)
      PROVE  TypeInv'
  <2>1. text[target[p].id] \in Articles
    BY <1>3 DEF ReadText, Step, TypeInv, Present, WriterTypeOK, PublisherTypeOK
  <2>2. copy' \in [Jobs -> [Platforms -> Texts]]
    BY <1>0, <1>3, <2>1 DEF ReadText, Articles
  <2>3. QED
    BY <1>0, <1>3, <2>2, StepTyped DEF ReadText, Wheres
<1>4. ASSUME NEW x \in BrowserPlatforms, BrowserStep(p, x)
      PROVE  TypeInv'
  <2>0. x \in Platforms /\ copy[p][x] \in Texts /\ Shown(x) \in Pages /\ BlankPage \in Pages
        /\ [Shown(x) EXCEPT !.title = copy[p][x]] \in Pages
        /\ [Shown(x) EXCEPT !.body = copy[p][x]] \in Pages
    BY <1>0, PlatformAssumption, TabsTyped, PageFacts
  <2>1. CASE Navigate(p, x)
    BY <1>0, <2>0, <2>1, TabsTyped, StepTyped DEF Navigate, Wheres
  <2>2. CASE FillTitle(p, x)
    BY <1>0, <2>0, <2>2, TabsTyped, StepTyped DEF FillTitle, Wheres
  <2>3. CASE FillBody(p, x)
    BY <1>0, <2>0, <2>3, TabsTyped, StepTyped DEF FillBody, Wheres
  <2>4. CASE Click(p, x)
    <3>1. tabs' \in [BrowserPlatforms -> Seq(Pages)] /\ crowded' \subseteq BrowserPlatforms
      BY <1>0, <2>0, <2>4, TabsTyped DEF Click
    <3>2. mixed' \in BOOLEAN
      BY <1>0, <2>4 DEF Click, Mixed
    <3>3. copy' \in [Jobs -> [Platforms -> Texts]]
      BY <1>c, <2>0, <2>4 DEF Click
    <3>4. Step(p, x, "click", "close") /\ "close" \in Wheres
      BY <2>4 DEF Click, Wheres
    <3>5. QED
      BY <2>0, <3>1, <3>2, <3>3, <3>4, StepTyped
  <2>5. CASE BrowserFails(p, x)
    <3>1. tabs' \in [BrowserPlatforms -> Seq(Pages)] /\ crowded' \subseteq BrowserPlatforms
          /\ mixed' \in BOOLEAN
      BY <1>0, <2>5, TabsTyped DEF BrowserFails
    <3>2. copy' \in [Jobs -> [Platforms -> Texts]]
      BY <1>c, <2>0, <2>5 DEF BrowserFails
    <3>3. \E from \in {"send", "title", "click"} : Step(p, x, from, "close")
      BY <2>5 DEF BrowserFails
    <3>4. "close" \in Wheres
      BY DEF Wheres
    <3>5. QED
      BY <2>0, <3>1, <3>2, <3>3, <3>4, StepTyped
  <2>6. CASE CloseTab(p, x)
    BY <1>0, <2>0, <2>6, TabsTyped, StepTyped DEF CloseTab, Wheres
  <2>7. QED
    BY <1>4, <2>1, <2>2, <2>3, <2>4, <2>5, <2>6 DEF BrowserStep
<1>5. QED
  BY <1>1, <1>2, <1>3, <1>4 DEF PublisherStep

LEMMA StartPublisherTypes ==
    ASSUME TypeInv, NEW p \in Jobs, NEW id \in Ids, StartPublisher(p, id)
    PROVE  TypeInv'
<1> USE DEF TypeInv
<1>1. began' \in [Jobs -> Seconds] /\ UNCHANGED <<text, newest>>
  BY DEF StartPublisher, WriterTypeOK, unchangedByPublisher, reviewVars
<1>2. WriterTypeOK'
  BY <1>1 DEF StartPublisher, WriterTypeOK, unchangedByPublisher, writerVars, reviewVars
<1>3. CASE Found(id)
  <2>1. text[id] # Missing /\ meta[id] \in Descriptions
    BY <1>3 DEF Found, WriterTypeOK
  <2>2. [id |-> id, video |-> meta[id].video] \in [id : Ids, video : BOOLEAN]
    BY <2>1 DEF Descriptions
  <2>3. "publishing" \in Places
    BY DEF Places
  <2>4. PublisherTypeOK'
    <3>1. pc' \in [Jobs -> Places]
      BY <1>3, <2>3 DEF StartPublisher, PublisherTypeOK, Goto
    <3>2. target' \in [Jobs -> [id : Ids, video : BOOLEAN]]
      BY <1>3, <2>2 DEF StartPublisher, PublisherTypeOK
    <3>3. UNCHANGED <<sending, copy, tabs, mixed, crowded>>
      BY DEF StartPublisher
    <3>4. QED
      BY <3>1, <3>2, <3>3 DEF PublisherTypeOK
  <2>5. target'[p].id = id /\ \A q \in Jobs \ {p} : target'[q] = target[q] /\ pc'[q] = pc[q]
    BY <1>3, <2>2 DEF StartPublisher, PublisherTypeOK, Goto
  <2>6. Present'
    BY <1>1, <2>1, <2>5 DEF Present
  <2>7. QED
    BY <1>2, <2>4, <2>6
<1>4. CASE ~Found(id)
  <2>1. Goto(p, "unpublished") /\ UNCHANGED target /\ "unpublished" \in Places \ {"publishing"}
    BY <1>4 DEF StartPublisher, Places, Stages
  <2>2. PublisherTypeOK'
    BY <2>1, PcMoves DEF StartPublisher, PublisherTypeOK
  <2>3. QED
    BY <1>1, <1>2, <2>1, <2>2, PcMoves, StaysPresent
<1>5. QED
  BY <1>3, <1>4

LEMMA OthersTypes ==
    ASSUME TypeInv, Others
    PROVE  TypeInv'
<1> USE DEF TypeInv
<1>1. PublisherTypeOK'
  BY DEF Others, Tick, EditText, publisherVars, jobVars, PublisherTypeOK
<1>2. CASE Tick
  <2>1. second' \in Seconds
    BY <1>2, WriterAssumption DEF Tick, WriterTypeOK, Seconds
  <2>2. WriterTypeOK' /\ Present'
    BY <1>2, <2>1 DEF Others, Tick, WriterTypeOK, Present, jobVars, writerVars, reviewVars,
       publisherVars
  <2>3. QED
    BY <1>1, <2>2
<1>3. ASSUME NEW id \in Ids, EditText(id)
      PROVE  TypeInv'
  <2>1. [owner |-> "editor", version |-> [by |-> "editor", rewrites |-> edits]] \in Articles
    BY <1>3, Kinds DEF WriterTypeOK, Articles, Authors
  <2>2. edits' \in 0 .. MaxEdits
    BY <1>3, WriterAssumption DEF EditText, WriterTypeOK
  <2>3. WriterTypeOK'
    BY <1>3, <2>1, <2>2 DEF EditText, WriterTypeOK, writerVars, jobVars
  <2>4. Present'
    BY <1>3, <2>1, BecomesPresent DEF Others, EditText, publisherVars, jobVars
  <2>5. QED
    BY <1>1, <2>3, <2>4
<1>4. QED
  BY <1>2, <1>3 DEF Others

LEMMA TypesStay == TypeInv /\ [Next]_vars => TypeInv'
<1> SUFFICES ASSUME TypeInv, [Next]_vars
             PROVE  TypeInv'
  OBVIOUS
<1>1. CASE VideoGoesOn \/ UNCHANGED vars
  <2>1. /\ UNCHANGED second /\ UNCHANGED jobVars /\ UNCHANGED writerVars
        /\ UNCHANGED videos /\ UNCHANGED reviewVars /\ UNCHANGED publisherVars
    BY <1>1 DEF VideoGoesOn, vars
  <2>2. WriterTypeOK'
    BY <2>1 DEF TypeInv, WriterTypeOK, jobVars, writerVars, reviewVars
  <2>3. PublisherTypeOK' /\ Present'
    BY <2>1 DEF TypeInv, PublisherTypeOK, Present, jobVars, reviewVars, publisherVars
  <2>4. QED
    BY <2>2, <2>3 DEF TypeInv
<1>2. CASE Others
  BY <1>2, OthersTypes
<1>3. ASSUME NEW j \in Jobs, WriterGoesOn(j) \/ WriterTurns(j)
      PROVE  TypeInv'
  BY <1>3, WriterTypes DEF WriterGoesOn, WriterTurns
<1>4. ASSUME NEW j \in Jobs, PublisherStep(j)
      PROVE  TypeInv'
  BY <1>4, PublisherTypes
<1>5. ASSUME NEW j \in Jobs, NEW id \in Ids, StartPublisher(j, id)
      PROVE  TypeInv'
  BY <1>5, StartPublisherTypes
<1>6. QED
  BY <1>1, <1>2, <1>3, <1>4, <1>5 DEF Next

\* Writers, articles, Publishers and the browser are always well typed.
THEOREM ProductionTypeCorrect == Spec => []TypeOK
<1>1. VideoInv /\ TypeInv => TypeOK
  BY DEF VideoInv, TypeInv, TypeOK
<1>2. Spec => []TypeInv
  BY InitTypes, TypesStay, PTL DEF Spec
<1>3. QED
  BY <1>1, <1>2, VideoInvariant, PTL

-----------------------------------------------------------------------------
(* The sessions of the browser *)

Steering(p, x) == sending[p][x] \in {"title", "body", "click"}

\* A session that was never crowded has one tab at most and one thread that fills it in,
\* and what the tab shows is of the text that thread has read.
AloneIn(x) ==
    /\ \A p, q \in Jobs : Steering(p, x) /\ Steering(q, x) => p = q
    /\ Len(tabs[x]) <= 1
    /\ \A p \in Jobs : Steering(p, x) /\ tabs[x] # <<>> =>
           {Shown(x).title, Shown(x).body} \subseteq {Missing, copy[p][x]}

BrowserInv ==
    /\ \A x \in BrowserPlatforms : x \notin crowded => AloneIn(x)
    /\ MixedPostsWereCrowded

LEMMA SameSessions ==
    ASSUME BrowserInv, UNCHANGED <<sending, copy, tabs, mixed, crowded>>
    PROVE  BrowserInv'
BY DEF BrowserInv, AloneIn, Steering, Shown, MixedPostsWereCrowded

\* A thread of another platform.
LEMMA OtherSession ==
    ASSUME NEW y \in Platforms, AloneIn(y), tabs'[y] = tabs[y],
           \A q \in Jobs : sending'[q][y] = sending[q][y] /\ copy'[q][y] = copy[q][y]
    PROVE  AloneIn(y)'
BY DEF AloneIn, Steering, Shown

LEMMA StepMoves ==
    ASSUME TypeInv, NEW p \in Jobs, NEW x \in Platforms, NEW from, NEW to, Step(p, x, from, to)
    PROVE  /\ sending[p][x] = from /\ sending'[p][x] = to
           /\ \A q \in Jobs : \A y \in Platforms : q # p \/ y # x => sending'[q][y] = sending[q][y]
BY DEF Step, TypeInv, PublisherTypeOK

\* It is enough to look at the platform of the thread that moves.
LEMMA OneSession ==
    ASSUME TypeInv, BrowserInv, NEW p \in Jobs, NEW x \in Platforms, NEW from, NEW to,
           Step(p, x, from, to),
           crowded \subseteq crowded', crowded' \subseteq crowded \union {x},
           \A y \in BrowserPlatforms \ {x} : tabs'[y] = tabs[y],
           \A q \in Jobs : \A y \in Platforms \ {x} : copy'[q][y] = copy[q][y],
           x \in BrowserPlatforms /\ x \notin crowded' => AloneIn(x)',
           mixed' => mixed \/ crowded # {}
    PROVE  BrowserInv'
<1>1. ASSUME NEW y \in BrowserPlatforms, y \notin crowded'
      PROVE  AloneIn(y)'
  <2>1. CASE y = x
    BY <1>1, <2>1
  <2>2. CASE y # x
    <3>1. AloneIn(y)
      BY <1>1 DEF BrowserInv
    <3>2. y \in Platforms
      BY PlatformAssumption
    <3>3. \A q \in Jobs : sending'[q][y] = sending[q][y] /\ copy'[q][y] = copy[q][y]
      BY <2>2, <3>2, StepMoves
    <3>4. QED
      BY <2>2, <3>1, <3>2, <3>3, OtherSession
  <2>3. QED
    BY <2>1, <2>2
<1>2. MixedPostsWereCrowded'
  BY DEF BrowserInv, MixedPostsWereCrowded
<1>3. QED
  BY <1>1, <1>2 DEF BrowserInv

\* A tab is opened and either filled in next or closed.
LEMMA OpenAlone ==
    ASSUME TypeInv, NEW p \in Jobs, NEW x \in BrowserPlatforms, NEW to \in {"title", "close"},
           Step(p, x, "send", to), OpenTab(p, x), x \notin crowded'
    PROVE  AloneIn(x)'
<1>1. ~InUse(p, x)
  BY DEF OpenTab
<1>2. x \in Platforms
  BY PlatformAssumption
<1>3. tabs[x] = <<>> /\ tabs'[x] = <<BlankPage>>
  <2>1. tabs[x] = <<>> /\ tabs'[x] = Append(tabs[x], BlankPage)
    BY <1>1 DEF InUse, OpenTab, TypeInv, PublisherTypeOK
  <2>2. Append(<<>>, BlankPage) = <<BlankPage>>
    OBVIOUS
  <2>3. QED
    BY <2>1, <2>2
<1>4. \A q \in Jobs \ {p} : ~Steering(q, x)'
  BY <1>1, <1>2, StepMoves DEF InUse, Steering
<1>5. Shown(x)' = BlankPage /\ Len(tabs'[x]) = 1
  BY <1>3 DEF Shown, Last
<1>6. QED
  BY <1>4, <1>5 DEF AloneIn, BlankPage

\* The thread that fills in the tab goes on.
LEMMA FillAlone ==
    ASSUME TypeInv, NEW p \in Jobs, NEW x \in BrowserPlatforms, AloneIn(x),
           NEW from \in {"title", "body"}, NEW to \in {"body", "click"}, Step(p, x, from, to),
           NEW page \in Pages, FillIn(x, page), UNCHANGED copy,
           tabs[x] # <<>> => page.title \in {Shown(x).title, copy[p][x]}
                             /\ page.body \in {Shown(x).body, copy[p][x]}
    PROVE  AloneIn(x)'
<1>1. x \in Platforms
  BY PlatformAssumption
<1>2. Steering(p, x) /\ \A q \in Jobs \ {p} : ~Steering(q, x) /\ ~Steering(q, x)'
  BY <1>1, StepMoves DEF AloneIn, Steering
<1>3. CASE tabs[x] = <<>>
  <2>1. tabs'[x] = <<>>
    BY <1>3 DEF FillIn, TypeInv, PublisherTypeOK
  <2>2. QED
    BY <1>2, <2>1 DEF AloneIn
<1>4. CASE tabs[x] # <<>>
  <2>1. tabs[x] \in Seq(Pages) /\ Len(tabs[x]) = 1
    <3>1. tabs[x] \in Seq(Pages)
      BY DEF TypeInv, PublisherTypeOK
    <3>2. Len(tabs[x]) <= 1
      BY DEF AloneIn
    <3>3. Len(tabs[x]) \in Nat \ {0}
      BY <1>4, <3>1, TabFacts
    <3>4. \A n \in Nat \ {0} : n <= 1 => n = 1
      OBVIOUS
    <3>5. QED
      BY <3>1, <3>2, <3>3, <3>4
  <2>2. tabs'[x] \in {tabs[x], [tabs[x] EXCEPT ![Len(tabs[x])] = page]}
    BY <1>4 DEF FillIn, TypeInv, PublisherTypeOK
  <2>3. Len(tabs'[x]) = 1 /\ Last(tabs'[x]) \in {Last(tabs[x]), page} /\ tabs'[x] # <<>>
    BY <2>1, <2>2 DEF Last
  <2>4. Shown(x)' \in {Shown(x), page}
    BY <1>4, <2>3 DEF Shown
  <2>5. {Shown(x).title, Shown(x).body} \subseteq {Missing, copy[p][x]}
    BY <1>2, <1>4 DEF AloneIn
  <2>6. {Shown(x)'.title, Shown(x)'.body} \subseteq {Missing, copy[p][x]}
    BY <1>4, <2>4, <2>5
  <2>7. QED
    BY <1>2, <2>3, <2>6 DEF AloneIn
<1>5. QED
  BY <1>3, <1>4

\* A thread that goes on to close the tab fills in nothing any more.
LEMMA LeaveAlone ==
    ASSUME TypeInv, NEW p \in Jobs, NEW x \in BrowserPlatforms, AloneIn(x),
           NEW from, NEW to, to \notin {"title", "body", "click"}, Step(p, x, from, to),
           \A q \in Jobs \ {p} : copy'[q][x] = copy[q][x],
           tabs'[x] = tabs[x] \/ (tabs'[x] = <<>>)
               \/ (Steering(p, x) /\ Len(tabs'[x]) <= 1)
    PROVE  AloneIn(x)'
<1>1. x \in Platforms
  BY PlatformAssumption
<1>2. ~Steering(p, x)' /\ \A q \in Jobs \ {p} : Steering(q, x)' = Steering(q, x)
  BY <1>1, StepMoves DEF Steering
<1>3. CASE tabs'[x] = tabs[x]
  BY <1>2, <1>3 DEF AloneIn, Shown
<1>4. CASE tabs'[x] = <<>>
  BY <1>2, <1>4 DEF AloneIn
<1>5. CASE Steering(p, x) /\ Len(tabs'[x]) <= 1
  BY <1>2, <1>5 DEF AloneIn
<1>6. QED
  BY <1>3, <1>4, <1>5

LEMMA BrowserStepKeeps ==
    ASSUME TypeInv, BrowserInv, NEW p \in Jobs, NEW x \in BrowserPlatforms, BrowserStep(p, x)
    PROVE  BrowserInv'
<1>0. /\ x \in Platforms
      /\ copy \in [Jobs -> [Platforms -> Texts]] /\ tabs \in [BrowserPlatforms -> Seq(Pages)]
      /\ copy[p][x] \in Texts /\ Shown(x) \in Pages /\ BlankPage \in Pages
      /\ tabs[x] \in Seq(Pages)
  <2>1. x \in Platforms
    BY PlatformAssumption
  <2>2. /\ copy \in [Jobs -> [Platforms -> Texts]] /\ tabs \in [BrowserPlatforms -> Seq(Pages)]
    BY DEF TypeInv, PublisherTypeOK
  <2>3. copy[p][x] \in Texts
    BY <2>1, <2>2
  <2>4. BlankPage \in Pages
    BY DEF Pages, BlankPage
  <2>5. tabs[x] \in Seq(Pages)
    BY <2>2
  <2>6. Shown(x) \in Pages
    BY TabsTyped, <2>5
  <2>7. QED
    BY <2>1, <2>2, <2>3, <2>4, <2>5, <2>6
<1>a. x \notin crowded => AloneIn(x)
  BY DEF BrowserInv
<1>b. ASSUME [copy EXCEPT ![p][x] = NoText] = copy'
      PROVE  \A q \in Jobs : \A y \in Platforms : q # p \/ y # x => copy'[q][y] = copy[q][y]
  BY <1>0, <1>b
<1>1. CASE Navigate(p, x)
  <2>1. Step(p, x, "send", "title") /\ OpenTab(p, x) /\ UNCHANGED <<copy, mixed>>
    BY <1>1 DEF Navigate
  <2>2. x \notin crowded' => AloneIn(x)'
    BY <2>1, OpenAlone
  <2>3. crowded \subseteq crowded' /\ crowded' \subseteq crowded \union {x}
        /\ \A y \in BrowserPlatforms \ {x} : tabs'[y] = tabs[y]
    BY <1>0, <2>1 DEF OpenTab
  <2>4. QED
    BY <1>0, <2>1, <2>2, <2>3, OneSession
<1>2. CASE FillTitle(p, x)
  <2>1. Step(p, x, "title", "body") /\ UNCHANGED <<copy, mixed, crowded>>
        /\ FillIn(x, [Shown(x) EXCEPT !.title = copy[p][x]])
    BY <1>2 DEF FillTitle
  <2>2. PICK page \in Pages : FillIn(x, page) /\ page.title = copy[p][x] /\ page.body = Shown(x).body
    BY <1>0, <2>1, PageFacts DEF Pages
  <2>3. x \notin crowded' => AloneIn(x)'
    BY <1>a, <2>1, <2>2, FillAlone
  <2>4. \A y \in BrowserPlatforms \ {x} : tabs'[y] = tabs[y]
    BY <1>0, <2>1 DEF FillIn
  <2>5. QED
    BY <1>0, <2>1, <2>3, <2>4, OneSession
<1>3. CASE FillBody(p, x)
  <2>1. Step(p, x, "body", "click") /\ UNCHANGED <<copy, mixed, crowded>>
        /\ FillIn(x, [Shown(x) EXCEPT !.body = copy[p][x]])
    BY <1>3 DEF FillBody
  <2>2. PICK page \in Pages : FillIn(x, page) /\ page.title = Shown(x).title /\ page.body = copy[p][x]
    BY <1>0, <2>1, PageFacts DEF Pages
  <2>3. x \notin crowded' => AloneIn(x)'
    BY <1>a, <2>1, <2>2, FillAlone
  <2>4. \A y \in BrowserPlatforms \ {x} : tabs'[y] = tabs[y]
    BY <1>0, <2>1 DEF FillIn
  <2>5. QED
    BY <1>0, <2>1, <2>3, <2>4, OneSession
<1>4. CASE Click(p, x)
  <2>1. Step(p, x, "click", "close") /\ UNCHANGED crowded
        /\ copy' = [copy EXCEPT ![p][x] = NoText]
    BY <1>4 DEF Click
  <2>2. Steering(p, x)
    BY <1>0, <2>1, StepMoves DEF Steering
  <2>3. tabs' = tabs \/ FillIn(x, BlankPage)
    BY <1>4 DEF Click
  <2>4. Len(tabs'[x]) = Len(tabs[x]) /\ \A y \in BrowserPlatforms \ {x} : tabs'[y] = tabs[y]
    BY <1>0, <2>3 DEF FillIn
  <2>5. x \notin crowded => AloneIn(x)'
    <3> SUFFICES ASSUME x \notin crowded
                 PROVE  AloneIn(x)'
      OBVIOUS
    <3>1. Len(tabs[x]) <= 1
      BY <1>a DEF AloneIn
    <3>2. Len(tabs'[x]) <= 1
      BY <2>4, <3>1
    <3>3. QED
      BY <1>0, <1>a, <1>b, <2>1, <2>2, <3>2, LeaveAlone
  <2>6. mixed' => mixed \/ crowded # {}
    <3> SUFFICES ASSUME crowded = {}, Mixed(Shown(x))
                 PROVE  FALSE
      BY <1>4 DEF Click
    <3>1. tabs[x] # <<>>
      BY DEF Shown, Mixed, BlankPage
    <3>2. {Shown(x).title, Shown(x).body} \subseteq {Missing, copy[p][x]}
      BY <1>a, <2>2, <3>1 DEF AloneIn
    <3>3. QED
      BY <3>2 DEF Mixed
  <2>7. QED
    BY <1>0, <1>b, <2>1, <2>4, <2>5, <2>6, OneSession
<1>5. CASE BrowserFails(p, x)
  <2>0. copy' = [copy EXCEPT ![p][x] = NoText] /\ UNCHANGED mixed
    BY <1>5 DEF BrowserFails
  <2>1. CASE Step(p, x, "send", "close") /\ OpenTab(p, x)
    <3>1. x \notin crowded' => AloneIn(x)'
      BY <2>1, OpenAlone
    <3>2. crowded \subseteq crowded' /\ crowded' \subseteq crowded \union {x}
          /\ \A y \in BrowserPlatforms \ {x} : tabs'[y] = tabs[y]
      BY <1>0, <2>1 DEF OpenTab
    <3>3. QED
      BY <1>0, <1>b, <2>0, <2>1, <3>1, <3>2, OneSession
  <2>2. ASSUME NEW from \in {"send", "title", "click"}, Step(p, x, from, "close"),
               UNCHANGED <<tabs, crowded>>
        PROVE  BrowserInv'
    <3>1. x \notin crowded => AloneIn(x)'
      BY <1>0, <1>a, <1>b, <2>0, <2>2, LeaveAlone
    <3>2. QED
      BY <1>0, <1>b, <2>0, <2>2, <3>1, OneSession
  <2>3. QED
    BY <1>5, <2>1, <2>2 DEF BrowserFails
<1>6. CASE CloseTab(p, x)
  <2>1. Step(p, x, "close", "ended") /\ UNCHANGED <<copy, mixed, crowded>>
    BY <1>6 DEF CloseTab
  <2>2. tabs'[x] \in {tabs[x], <<>>, Front(tabs[x])} /\ (tabs[x] = <<>> => tabs'[x] = <<>>)
        /\ \A y \in BrowserPlatforms \ {x} : tabs'[y] = tabs[y]
    BY <1>0, <1>6 DEF CloseTab
  <2>3. ASSUME x \notin crowded
        PROVE  tabs'[x] \in {tabs[x], <<>>}
    <3>1. CASE tabs[x] = <<>>
      BY <2>2, <3>1
    <3>2. CASE tabs[x] # <<>>
      <4>1. Len(tabs[x]) \in Nat \ {0} /\ Len(tabs[x]) <= 1
            /\ Front(tabs[x]) \in Seq(Pages) /\ Len(Front(tabs[x])) = Len(tabs[x]) - 1
        BY <1>0, <1>a, <2>3, <3>2, TabFacts DEF AloneIn
      <4>2. \A n \in Nat \ {0} : n <= 1 => n - 1 = 0
        OBVIOUS
      <4>3. Len(Front(tabs[x])) = 0
        BY <4>1, <4>2
      <4>4. Front(tabs[x]) = <<>>
        BY <4>1, <4>3
      <4>5. QED
        BY <2>2, <4>4
    <3>3. QED
      BY <3>1, <3>2
  <2>4. x \notin crowded' => AloneIn(x)'
    BY <1>a, <2>1, <2>3, LeaveAlone
  <2>5. QED
    BY <1>0, <2>1, <2>2, <2>4, OneSession
<1>7. QED
  BY <1>1, <1>2, <1>3, <1>4, <1>5, <1>6 DEF BrowserStep

LEMMA PublisherKeepsSessions ==
    ASSUME TypeInv, BrowserInv, NEW p \in Jobs, PublisherStep(p)
    PROVE  BrowserInv'
<1>1. CASE FinishPublishing(p)
  <2>1. UNCHANGED <<copy, tabs, mixed, crowded>>
    BY <1>1 DEF FinishPublishing
  <2>2. \A q \in Jobs : \A x \in Platforms : Steering(q, x)' => Steering(q, x)
    BY <1>1 DEF FinishPublishing, Steering, TypeInv, PublisherTypeOK
  <2>3. \A x \in BrowserPlatforms : AloneIn(x) => AloneIn(x)'
    BY <2>1, <2>2, PlatformAssumption DEF AloneIn, Shown
  <2>4. QED
    BY <2>1, <2>3 DEF BrowserInv, MixedPostsWereCrowded
<1>2. ASSUME NEW x \in Platforms, SendByCommand(p, x) \/ SendVideo(p, x) \/ ReadText(p, x)
      PROVE  BrowserInv'
  <2>1. PICK to \in {"ended", "send"} : Step(p, x, "wait", to)
    BY <1>2 DEF SendByCommand, SendVideo, ReadText
  <2>2. UNCHANGED <<tabs, mixed, crowded>>
        /\ \A q \in Jobs : \A y \in Platforms : q # p \/ y # x => copy'[q][y] = copy[q][y]
    BY <1>2 DEF SendByCommand, SendVideo, ReadText, TypeInv, PublisherTypeOK
  <2>3. x \in BrowserPlatforms /\ x \notin crowded' => AloneIn(x)'
    BY <2>1, <2>2, LeaveAlone DEF BrowserInv
  <2>4. QED
    BY <2>1, <2>2, <2>3, OneSession
<1>3. ASSUME NEW x \in BrowserPlatforms, BrowserStep(p, x)
      PROVE  BrowserInv'
  BY <1>3, BrowserStepKeeps
<1>4. QED
  BY <1>1, <1>2, <1>3 DEF PublisherStep

\* A post is mixed only where two Publishers were in one session, or one had left a tab
\* in it; for any number of Publishers and platforms, whatever calls of the browser fail.
THEOREM MixedWereCrowded == Spec => []MixedPostsWereCrowded
<1>1. Init => BrowserInv
  BY PlatformAssumption DEF Init, BrowserInv, AloneIn, Steering, MixedPostsWereCrowded
<1>2. TypeInv /\ BrowserInv /\ [Next]_vars => BrowserInv'
  <2> SUFFICES ASSUME TypeInv, BrowserInv, [Next]_vars
               PROVE  BrowserInv'
    OBVIOUS
  <2>1. ASSUME UNCHANGED publisherVars
        PROVE  BrowserInv'
    BY <2>1, SameSessions DEF publisherVars
  <2>2. ASSUME NEW j \in Jobs, PublisherStep(j)
        PROVE  BrowserInv'
    BY <2>2, PublisherKeepsSessions
  <2>3. ASSUME NEW j \in Jobs, NEW id \in Ids, StartPublisher(j, id)
        PROVE  BrowserInv'
    BY <2>3, SameSessions DEF StartPublisher
  <2>4. QED
    BY <2>1, <2>2, <2>3 DEF Next, VideoGoesOn, Others, WriterGoesOn, WriterTurns, vars
<1>3. BrowserInv => MixedPostsWereCrowded
  BY DEF BrowserInv
<1>4. Spec => []TypeInv
  BY InitTypes, TypesStay, PTL DEF Spec
<1>5. QED
  BY <1>1, <1>2, <1>3, <1>4, PTL DEF Spec

-----------------------------------------------------------------------------
(* The articles: the inductive invariant *)

Writer(j) == pc[j] # "idle" /\ ~IsPublisher(j)

\* A writer whose text is in review/.
Put(j) == pc[j] \in {"meta", "describing", "done"}

\* A writer that has scored its text for the last time.
Late(j) == pc[j] \in {"format", "titles", "illustrate", "video", "text", "meta", "describing"}

Crowd == \E j \in Jobs : Writer(j) /\ Namesakes(j) # {}

Edited == [by : {"editor"}, rewrites : 0 .. MaxEdits]
Fits(v, s) == v \in {s} \union Edited

\* The text of a writer without a namesake is in review/ from its first write on, and its
\* description once it is done.
OwnText ==
    \A j \in Jobs : Put(j) /\ Namesakes(j) = {} =>
        text[began[j]] # Missing /\ text[began[j]].owner \in {j, "editor"}
OwnMeta ==
    \A j \in Jobs : pc[j] = "done" /\ Namesakes(j) = {} =>
        meta[began[j]] \notin {Missing, Partial} /\ meta[began[j]].owner = j

\* The pictures of a second are drawn by writers that began in it.
OwnPictures ==
    \A s \in Seconds : \A k \in pictures[s] : k \in Jobs /\ Writer(k) /\ began[k] = s

\* A description of a second is written by a writer that began in it.
DescribedBy ==
    \A s \in Seconds : meta[s] # Missing =>
        \E k \in Jobs : began[k] = s /\ pc[k] \in {"describing", "done", "failed"}

\* Without namesakes: what a late writer holds is what it has scored, what it has put into
\* review/ is that as well, and so is the text beside a description; but for edits.
Scores ==
    /\ \A j \in Jobs : Late(j) => Fits(version[j], scored[j])
    /\ \A j \in Jobs : Put(j) /\ Late(j) =>
           text[began[j]] # Missing /\ Fits(text[began[j]].version, scored[j])
    /\ \A id \in Ids : meta[id] \notin {Missing, Partial} =>
           text[id] # Missing /\ Fits(text[id].version, meta[id].scored)

ArticleInv == OwnText /\ OwnMeta /\ OwnPictures /\ DescribedBy /\ (~Crowd => Scores)

-----------------------------------------------------------------------------
(* The articles: lemmas *)

\* Writers stay writers, of their second.
Onward == \A q \in Jobs : Writer(q) => Writer(q)' /\ began'[q] = began[q]

LEMMA MoreNamesakes ==
    ASSUME Onward
    PROVE  /\ \A j \in Jobs : Writer(j) /\ Namesakes(j)' = {} => Namesakes(j) = {}
           /\ Crowd => Crowd'
<1>1. ASSUME NEW j \in Jobs, Writer(j)
      PROVE  Namesakes(j) \subseteq Namesakes(j)'
  BY <1>1 DEF Onward, Namesakes, Writer, IsPublisher
<1>2. QED
  BY <1>1 DEF Crowd, Onward

LEMMA PutWrites == \A j \in Jobs : (Put(j) => Writer(j)) /\ (Late(j) => Writer(j))
BY DEF Put, Late, Writer, IsPublisher

LEMMA AloneInItsSecond ==
    ASSUME NEW j \in Jobs, Writer(j), ~Crowd \/ Namesakes(j) = {}
    PROVE  \A k \in Jobs : Writer(k) /\ began[k] = began[j] => k = j
BY DEF Crowd, Namesakes, Writer

\* A step of job j that writes nothing but pictures of its own.
LEMMA QuietKeeps ==
    ASSUME ArticleInv, NEW j \in Jobs, UNCHANGED <<text, meta>>,
           \/ UNCHANGED pictures
           \/ /\ Writer(j)
              /\ \A s \in Seconds :
                     pictures'[s] \subseteq pictures[s] \union (IF s = began[j] THEN {j} ELSE {}),
           \A q \in Jobs \ {j} : /\ pc'[q] = pc[q] /\ began'[q] = began[q]
                                 /\ version'[q] = version[q] /\ scored'[q] = scored[q],
           Writer(j) => Writer(j)' /\ began'[j] = began[j],
           Put(j)' => pc'[j] = pc[j] /\ scored'[j] = scored[j],
           pc[j] \in {"describing", "done", "failed"} => pc'[j] \in {"describing", "done", "failed"},
           ~Crowd /\ Late(j)' =>
               \/ Late(j) /\ version'[j] = version[j] /\ scored'[j] = scored[j]
               \/ Fits(version'[j], scored'[j])
    PROVE  ArticleInv'
<1>1. Onward
  BY DEF Onward, Writer, IsPublisher
<1>2. \A q \in Jobs : Put(q)' => Put(q) /\ pc'[q] = pc[q] /\ began'[q] = began[q] /\ scored'[q] = scored[q]
  BY PutWrites DEF Put
<1>3. OwnText' /\ OwnMeta'
  <2>1. \A q \in Jobs : Put(q)' /\ Namesakes(q)' = {} => Namesakes(q) = {}
    BY <1>1, <1>2, MoreNamesakes, PutWrites
  <2>2. OwnText'
    BY <1>2, <2>1 DEF ArticleInv, OwnText
  <2>3. OwnMeta'
    BY <1>2, <2>1 DEF ArticleInv, OwnMeta, Put
  <2>4. QED
    BY <2>2, <2>3
<1>4. OwnPictures'
  BY <1>1 DEF ArticleInv, OwnPictures, Onward
<1>5. DescribedBy'
  <2>1. \A q \in Jobs : pc[q] \in {"describing", "done", "failed"} =>
            pc'[q] \in {"describing", "done", "failed"} /\ began'[q] = began[q]
    BY <1>1 DEF Onward, Writer, IsPublisher
  <2>2. QED
    BY <2>1 DEF ArticleInv, DescribedBy
<1>6. ~Crowd' => Scores'
  <2> SUFFICES ASSUME ~Crowd'
               PROVE  Scores'
    OBVIOUS
  <2>1. ~Crowd /\ Scores
    BY <1>1, MoreNamesakes DEF ArticleInv
  <2>2. \A q \in Jobs : Late(q)' => Fits(version'[q], scored'[q])
    BY <2>1 DEF Scores, Late
  <2>3. \A q \in Jobs : Put(q)' /\ Late(q)' =>
            text'[began'[q]] # Missing /\ Fits(text'[began'[q]].version, scored'[q])
    BY <1>2, <2>1 DEF Scores, Late
  <2>4. QED
    BY <2>1, <2>2, <2>3, Zenon DEF Scores, Fits, Edited
<1>7. QED
  BY <1>3, <1>4, <1>5, <1>6 DEF ArticleInv

\* A step that does not concern any writer.
LEMMA StillKeeps ==
    ASSUME ArticleInv, UNCHANGED <<text, meta, pictures, pc, began, version, scored>>
    PROVE  ArticleInv'
BY DEF ArticleInv, OwnText, OwnMeta, OwnPictures, DescribedBy, Crowd, Scores, Put, Late, Writer,
   Namesakes, IsPublisher, Fits

LEMMA EarlierIsApart == Earlier \notin Seconds
BY WriterAssumption DEF Earlier, Seconds

LEMMA GoneTo ==
    ASSUME TypeInv, NEW j \in Jobs, NEW w, Goto(j, w)
    PROVE  pc'[j] = w /\ \A q \in Jobs \ {j} : pc'[q] = pc[q]
BY DEF TypeInv, PublisherTypeOK, Goto

LEMMA OnlyIts ==
    ASSUME TypeInv, NEW j \in Jobs, NEW v
    PROVE  /\ version' = [version EXCEPT ![j] = v] =>
                  version'[j] = v /\ \A q \in Jobs \ {j} : version'[q] = version[q]
           /\ scored' = [scored EXCEPT ![j] = v] =>
                  scored'[j] = v /\ \A q \in Jobs \ {j} : scored'[q] = scored[q]
           /\ began' = [began EXCEPT ![j] = v] =>
                  began'[j] = v /\ \A q \in Jobs \ {j} : began'[q] = began[q]
BY DEF TypeInv, WriterTypeOK

-----------------------------------------------------------------------------
(* The articles: the steps of a writer *)

LEMMA EndKeeps ==
    ASSUME TypeInv, ArticleInv, NEW j \in Jobs, WriterEnds(j, "failed"), Writing(j),
           UNCHANGED <<began, reviewVars>>
    PROVE  ArticleInv'
<1>1. Goto(j, "failed") /\ version' = [version EXCEPT ![j] = NoText]
      /\ scored' = [scored EXCEPT ![j] = NoText] /\ UNCHANGED <<text, meta, pictures>>
  BY DEF WriterEnds, reviewVars
<1>2. pc'[j] = "failed"
  BY <1>1, GoneTo
<1>3. Writer(j)' /\ ~Put(j)' /\ ~Late(j)'
  BY <1>2 DEF Writer, Put, Late, IsPublisher
<1>4. QED
  BY <1>1, <1>2, <1>3, GoneTo, OnlyIts, QuietKeeps

LEMMA StageKeeps ==
    ASSUME TypeInv, ArticleInv, NEW j \in Jobs,
           \/ Fetch(j) \/ Draft(j) \/ Proofread(j) \/ Format(j) \/ MakeTitles(j) \/ VideoReturns(j)
    PROVE  ArticleInv'
<1>1. UNCHANGED <<began, text, meta, pictures, scored>>
  BY DEF Fetch, Draft, Proofread, Format, MakeTitles, VideoReturns, Advance, writerVars, reviewVars
<1>2. PICK from, to : Goto(j, to) /\ pc[j] = from /\
          \/ from \in {"fetch", "draft", "proofread"} /\ to \in {"draft", "proofread", "critique"}
          \/ from \in {"format", "titles", "video"} /\ to \in {"titles", "illustrate", "text"}
             /\ UNCHANGED version
  BY DEF Fetch, Draft, Proofread, Format, MakeTitles, VideoReturns, Advance, writerVars
<1>3. pc'[j] = to /\ \A q \in Jobs \ {j} : pc'[q] = pc[q]
  BY <1>2, GoneTo
<1>4. \A q \in Jobs \ {j} : version'[q] = version[q]
  BY OnlyIts DEF Fetch, Draft, Proofread, Format, MakeTitles, VideoReturns, writerVars
<1>5. Writer(j)' /\ ~Put(j)' /\ pc[j] \notin {"describing", "done", "failed"}
      /\ (Late(j)' => Late(j) /\ UNCHANGED version)
  BY <1>2, <1>3 DEF Writer, Put, Late, IsPublisher
<1>6. QED
  BY <1>1, <1>3, <1>4, <1>5, QuietKeeps

LEMMA CritiqueKeeps ==
    ASSUME TypeInv, ArticleInv, NEW j \in Jobs, CritiqueRound(j)
    PROVE  ArticleInv'
<1>1. pc[j] = "critique" /\ UNCHANGED <<began, text, meta, pictures>>
      /\ scored' = [scored EXCEPT ![j] = version[j]]
  BY DEF CritiqueRound, reviewVars
<1>2. scored'[j] = version[j] /\ \A q \in Jobs \ {j} : scored'[q] = scored[q]
  BY <1>1, OnlyIts
<1>3. \/ pc'[j] = "critique"
      \/ pc'[j] = "format" /\ UNCHANGED version
  BY <1>1, GoneTo DEF CritiqueRound, NextRound, LeaveLoop
<1>4. \A q \in Jobs \ {j} : pc'[q] = pc[q]
  BY GoneTo DEF CritiqueRound, NextRound, LeaveLoop
<1>5. \A q \in Jobs \ {j} : version'[q] = version[q]
  BY OnlyIts DEF CritiqueRound, NextRound, LeaveLoop
<1>6. Writer(j)' /\ ~Put(j)' /\ (Late(j)' => Fits(version'[j], scored'[j]))
  BY <1>2, <1>3 DEF Writer, Put, Late, IsPublisher, Fits
<1>7. QED
  BY <1>1, <1>2, <1>4, <1>5, <1>6, QuietKeeps

LEMMA StartKeeps ==
    ASSUME TypeInv, ArticleInv, NEW j \in Jobs, StartWriter(j) \/ \E k \in 1 .. 7 : StartRerun(j, k)
    PROVE  ArticleInv'
<1>1. pc[j] = "idle" /\ began' = [began EXCEPT ![j] = second] /\ UNCHANGED <<text, meta, pictures>>
  BY DEF StartWriter, StartRerun, MayStart, reviewVars
<1>2. CASE StartWriter(j)
  <2>1. PICK w \in {"fetch", "failed"} : Goto(j, w)
    BY <1>2 DEF StartWriter, FindTopic
  <2>2. pc'[j] = w /\ \A q \in Jobs \ {j} : pc'[q] = pc[q]
    BY <2>1, GoneTo
  <2>3. ~Put(j)' /\ ~Late(j)' /\ ~Writer(j)
    BY <1>1, <2>2 DEF Writer, Put, Late
  <2>4. UNCHANGED <<version, scored>>
    BY <1>2 DEF StartWriter, writerVars
  <2>5. QED
    BY <1>1, <2>2, <2>3, <2>4, OnlyIts, QuietKeeps
<1>3. ASSUME NEW k \in 1 .. 7, StartRerun(j, k)
      PROVE  ArticleInv'
  <2>1. CASE meta[newest] \in {Missing, Partial}
    <3>1. Goto(j, "failed") /\ UNCHANGED <<version, scored>>
      BY <1>3, <2>1 DEF StartRerun
    <3>2. pc'[j] = "failed" /\ \A q \in Jobs \ {j} : pc'[q] = pc[q]
      BY <3>1, GoneTo
    <3>3. ~Put(j)' /\ ~Late(j)' /\ ~Writer(j)
      BY <1>1, <3>2 DEF Writer, Put, Late
    <3>4. QED
      BY <1>1, <3>1, <3>2, <3>3, OnlyIts, QuietKeeps
  <2>2. CASE meta[newest] \notin {Missing, Partial}
    <3>1. /\ Goto(j, StageOf(k))
          /\ version' = [version EXCEPT ![j] = text[newest].version]
          /\ scored' = [scored EXCEPT ![j] = meta[newest].scored]
      BY <1>3, <2>2 DEF StartRerun
    <3>2. pc'[j] = StageOf(k) /\ \A q \in Jobs \ {j} : pc'[q] = pc[q]
      BY <3>1, GoneTo
    <3>3. StageOf(k) \in Stages
      <4>1. k = 1 \/ k = 2 \/ k = 3 \/ k = 4 \/ k = 5 \/ k = 6 \/ k = 7
        OBVIOUS
      <4>2. QED
        BY <4>1 DEF StageOf, Stages
    <3>4. ~Put(j)' /\ ~Writer(j)
      BY <1>1, <3>2, <3>3 DEF Writer, Put, Stages
    <3>5. newest \in Ids
      BY DEF TypeInv, WriterTypeOK
    <3>6. ~Crowd => Fits(version'[j], scored'[j])
      <4>1. version'[j] = text[newest].version /\ scored'[j] = meta[newest].scored
        BY <3>1 DEF TypeInv, WriterTypeOK
      <4>2. ~Crowd => Fits(text[newest].version, meta[newest].scored)
        BY <2>2, <3>5 DEF ArticleInv, Scores
      <4>3. QED
        BY <4>1, <4>2 DEF Fits
    <3>7. QED
      BY <1>1, <3>1, <3>2, <3>4, <3>6, OnlyIts, QuietKeeps
  <2>3. QED
    BY <2>1, <2>2
<1>4. QED
  BY <1>2, <1>3

LEMMA IllustrateKeeps ==
    ASSUME TypeInv, ArticleInv, NEW j \in Jobs, Illustrate(j)
    PROVE  ArticleInv'
<1>1. pc[j] = "illustrate" /\ UNCHANGED <<began, text, meta, version, scored>>
      /\ Goto(j, AfterPictures) /\ AfterPictures \in {"video", "text"}
  BY DEF Illustrate, AfterPictures, writerVars
<1>2. pc'[j] \in {"video", "text"} /\ \A q \in Jobs \ {j} : pc'[q] = pc[q]
  BY <1>1, GoneTo
<1>3. Writer(j) /\ Writer(j)' /\ ~Put(j)' /\ Late(j)
  BY <1>1, <1>2 DEF Writer, Put, Late, IsPublisher
<1>4. pictures' = pictures \/ pictures' = [pictures EXCEPT ![began[j]] = @ \union {j}]
  BY DEF Illustrate, NothingToDraw, DrawInto
<1>5. \A s \in Seconds :
          pictures'[s] \subseteq pictures[s] \union (IF s = began[j] THEN {j} ELSE {})
  BY <1>4, Kinds DEF TypeInv, WriterTypeOK
<1>6. QED
  BY <1>1, <1>2, <1>3, <1>5, QuietKeeps

\* What the steps of the output have in common.
LEMMA OutputStep ==
    ASSUME TypeInv, ArticleInv, NEW j \in Jobs, NEW to \in {"meta", "describing", "done"}, Goto(j, to),
           pc[j] \in {"text", "meta", "describing"}, UNCHANGED <<began, pictures>>
    PROVE  /\ Onward /\ Writer(j) /\ Writer(j)' /\ OwnPictures'
           /\ \A q \in Jobs \ {j} : Writer(q) =>
                  began[q] # began[j] \/ (Crowd' /\ Namesakes(q)' # {})
           /\ began[j] \in Seconds
           /\ \A q \in Jobs : Put(q) /\ Namesakes(q)' = {} => Namesakes(q) = {}
<1>1. pc'[j] = to /\ \A q \in Jobs \ {j} : pc'[q] = pc[q]
  BY GoneTo
<1>2. Writer(j) /\ Writer(j)'
  BY <1>1 DEF Writer, IsPublisher
<1>3. Onward
  BY <1>1, <1>2 DEF Onward, Writer, IsPublisher
<1>4. OwnPictures'
  BY <1>3 DEF ArticleInv, OwnPictures, Onward
<1>5. ASSUME NEW q \in Jobs \ {j}, Writer(q), began[q] = began[j]
      PROVE  Crowd' /\ Namesakes(q)' # {}
  <2>1. j \in Namesakes(q)'
    BY <1>2, <1>5 DEF Namesakes, Writer
  <2>2. Writer(q)'
    BY <1>3, <1>5 DEF Onward
  <2>3. QED
    BY <2>1, <2>2 DEF Crowd
<1>6. QED
  BY <1>2, <1>3, <1>4, <1>5, MoreNamesakes, PutWrites DEF TypeInv, WriterTypeOK

LEMMA WriteTextKeeps ==
    ASSUME TypeInv, ArticleInv, NEW j \in Jobs, WriteText(j)
    PROVE  ArticleInv'
<1>1. /\ pc[j] = "text" /\ Goto(j, "meta") /\ UNCHANGED <<began, pictures, meta, version, scored>>
      /\ text' = [text EXCEPT ![began[j]] = [owner |-> j, version |-> version[j]]]
  BY DEF WriteText, writerVars
<1>2. pc'[j] = "meta" /\ \A q \in Jobs \ {j} : pc'[q] = pc[q]
  BY <1>1, GoneTo
<1>3. /\ Onward /\ Writer(j) /\ Writer(j)' /\ OwnPictures' /\ began[j] \in Seconds
      /\ \A q \in Jobs \ {j} : Writer(q) => began[q] # began[j] \/ (Crowd' /\ Namesakes(q)' # {})
      /\ \A q \in Jobs : Put(q) /\ Namesakes(q)' = {} => Namesakes(q) = {}
  BY <1>1, OutputStep
<1>4. /\ text'[began[j]] = [owner |-> j, version |-> version[j]] /\ text'[began[j]] # Missing
      /\ \A id \in Ids : id # began[j] => text'[id] = text[id]
  <2>1. [owner |-> j, version |-> version[j]] \in Articles
    BY DEF TypeInv, WriterTypeOK, Articles, Authors
  <2>2. QED
    BY <1>1, <1>3, <2>1, Kinds DEF TypeInv, WriterTypeOK
<1>5. \A q \in Jobs \ {j} : Put(q)' => Put(q) /\ began[q] \in Ids
  BY <1>2, Kinds DEF Put, TypeInv, WriterTypeOK
<1>6. OwnText'
  <2> SUFFICES ASSUME NEW q \in Jobs, Put(q)', Namesakes(q)' = {}
               PROVE  text'[began[q]] # Missing /\ text'[began[q]].owner \in {q, "editor"}
    BY <1>1 DEF OwnText
  <2>1. CASE q = j
    BY <1>4, <2>1
  <2>2. CASE q # j
    BY <1>3, <1>4, <1>5, <2>2, PutWrites DEF ArticleInv, OwnText
  <2>3. QED
    BY <2>1, <2>2
<1>7. OwnMeta'
  BY <1>1, <1>2, <1>3 DEF ArticleInv, OwnMeta, Put
<1>8. DescribedBy'
  BY <1>1, <1>2 DEF ArticleInv, DescribedBy
<1>9. ASSUME ~Crowd'
      PROVE  Scores'
  <2>1. ~Crowd /\ Scores
    BY <1>3, <1>9, MoreNamesakes DEF ArticleInv
  <2>2. Late(j) /\ Fits(version[j], scored[j])
    BY <1>1, <2>1 DEF Late, Scores
  <2>3. \A q \in Jobs : Late(q)' => Fits(version'[q], scored'[q])
    BY <1>1, <1>2, <2>1, <2>2 DEF Scores, Late
  <2>4. ASSUME NEW q \in Jobs, Put(q)', Late(q)'
        PROVE  text'[began[q]] # Missing /\ Fits(text'[began[q]].version, scored[q])
    <3>1. CASE q = j
      BY <1>4, <2>2, <3>1
    <3>2. CASE q # j
      BY <1>2, <1>3, <1>4, <1>5, <1>9, <2>1, <2>4, <3>2, PutWrites DEF Scores, Late
    <3>3. QED
      BY <3>1, <3>2
  <2>5. meta[began[j]] = Missing
    <3>1. \A k \in Jobs : Writer(k) /\ began[k] = began[j] => k = j
      BY <1>3, <2>1, AloneInItsSecond
    <3>2. \A k \in Jobs : pc[k] \in {"describing", "done", "failed"} => Writer(k)
      BY DEF Writer, IsPublisher
    <3>3. QED
      BY <1>1, <1>3, <3>1, <3>2 DEF ArticleInv, DescribedBy
  <2>6. \A id \in Ids : meta[id] \notin {Missing, Partial} =>
            text'[id] # Missing /\ Fits(text'[id].version, meta[id].scored)
    BY <1>4, <2>1, <2>5 DEF Scores
  <2>7. QED
    BY <1>1, <2>3, <2>4, <2>6 DEF Scores, Fits, Edited
<1>10. QED
  BY <1>3, <1>6, <1>7, <1>8, <1>9 DEF ArticleInv

LEMMA WriteMetaKeeps ==
    ASSUME TypeInv, ArticleInv, NEW j \in Jobs, WriteMeta(j)
    PROVE  ArticleInv'
<1>1. /\ pc[j] = "meta" /\ Goto(j, "describing")
      /\ UNCHANGED <<began, pictures, text, version, scored>>
      /\ meta' = [meta EXCEPT ![began[j]] = Partial]
  BY DEF WriteMeta, writerVars
<1>2. pc'[j] = "describing" /\ \A q \in Jobs \ {j} : pc'[q] = pc[q]
  BY <1>1, GoneTo
<1>3. /\ Onward /\ Writer(j) /\ Writer(j)' /\ OwnPictures' /\ began[j] \in Seconds
      /\ \A q \in Jobs \ {j} : Writer(q) => began[q] # began[j] \/ (Crowd' /\ Namesakes(q)' # {})
      /\ \A q \in Jobs : Put(q) /\ Namesakes(q)' = {} => Namesakes(q) = {}
  BY <1>1, OutputStep
<1>4. meta'[began[j]] = Partial /\ \A id \in Ids : id # began[j] => meta'[id] = meta[id]
  BY <1>1, <1>3, Kinds DEF TypeInv, WriterTypeOK
<1>5. \A q \in Jobs : (Put(q)' <=> Put(q)) /\ (Late(q)' <=> Late(q)) /\ began[q] \in Ids
  BY <1>1, <1>2, Kinds DEF Put, Late, TypeInv, WriterTypeOK
<1>6. OwnText'
  BY <1>1, <1>3, <1>5 DEF ArticleInv, OwnText
<1>7. OwnMeta'
  <2> SUFFICES ASSUME NEW q \in Jobs, pc'[q] = "done", Namesakes(q)' = {}
               PROVE  meta'[began[q]] \notin {Missing, Partial} /\ meta'[began[q]].owner = q
    BY <1>1 DEF OwnMeta
  <2>1. q # j /\ pc[q] = "done" /\ Put(q)
    BY <1>2 DEF Put
  <2>2. QED
    BY <1>3, <1>4, <1>5, <2>1, PutWrites DEF ArticleInv, OwnMeta
<1>8. DescribedBy'
  <2> SUFFICES ASSUME NEW s \in Seconds, meta'[s] # Missing
               PROVE  \E k \in Jobs : began[k] = s /\ pc'[k] \in {"describing", "done", "failed"}
    BY <1>1 DEF DescribedBy
  <2>1. CASE s = began[j]
    BY <1>2, <2>1
  <2>2. CASE s # began[j]
    BY <1>2, <1>4, <2>2, Kinds DEF ArticleInv, DescribedBy
  <2>3. QED
    BY <2>1, <2>2
<1>9. ASSUME ~Crowd'
      PROVE  Scores'
  <2>1. Scores
    BY <1>3, <1>9, MoreNamesakes DEF ArticleInv
  <2>2. \A id \in Ids : meta'[id] \notin {Missing, Partial} => meta'[id] = meta[id]
    BY <1>4
  <2>3. QED
    BY <1>1, <1>5, <2>1, <2>2 DEF Scores, Fits, Edited
<1>10. QED
  BY <1>3, <1>6, <1>7, <1>8, <1>9 DEF ArticleInv

LEMMA CompleteMetaKeeps ==
    ASSUME TypeInv, ArticleInv, NEW j \in Jobs, CompleteMeta(j)
    PROVE  ArticleInv'
<1> DEFINE description == [owner |-> j, scored |-> scored[j], video |-> vpc = "video"]
<1>1. /\ pc[j] = "describing" /\ Goto(j, "done") /\ UNCHANGED <<began, pictures, text>>
      /\ meta' = [meta EXCEPT ![began[j]] = description]
      /\ version' = [version EXCEPT ![j] = NoText] /\ scored' = [scored EXCEPT ![j] = NoText]
  BY DEF CompleteMeta, WriterEnds
<1>2. pc'[j] = "done" /\ \A q \in Jobs \ {j} : /\ pc'[q] = pc[q]
                                               /\ version'[q] = version[q] /\ scored'[q] = scored[q]
  BY <1>1, GoneTo, OnlyIts
<1>3. /\ Onward /\ Writer(j) /\ Writer(j)' /\ OwnPictures' /\ began[j] \in Seconds
      /\ \A q \in Jobs \ {j} : Writer(q) => began[q] # began[j] \/ (Crowd' /\ Namesakes(q)' # {})
      /\ \A q \in Jobs : Put(q) /\ Namesakes(q)' = {} => Namesakes(q) = {}
  BY <1>1, OutputStep
<1>4. /\ meta'[began[j]] = description /\ description \notin {Missing, Partial}
      /\ \A id \in Ids : id # began[j] => meta'[id] = meta[id]
  <2>1. description \in Descriptions
    BY DEF TypeInv, WriterTypeOK, Descriptions, Authors
  <2>2. QED
    BY <1>1, <1>3, <2>1, Kinds DEF TypeInv, WriterTypeOK
<1>5. /\ \A q \in Jobs : Put(q)' <=> Put(q)
      /\ \A q \in Jobs : Late(q)' => Late(q) /\ q # j
      /\ \A q \in Jobs : began[q] \in Ids
  BY <1>1, <1>2, Kinds DEF Put, Late, TypeInv, WriterTypeOK
<1>6. OwnText'
  BY <1>1, <1>3, <1>5 DEF ArticleInv, OwnText
<1>7. OwnMeta'
  <2> SUFFICES ASSUME NEW q \in Jobs, pc'[q] = "done", Namesakes(q)' = {}
               PROVE  meta'[began[q]] \notin {Missing, Partial} /\ meta'[began[q]].owner = q
    BY <1>1 DEF OwnMeta
  <2>1. CASE q = j
    BY <1>4, <2>1
  <2>2. CASE q # j
    <3>1. pc[q] = "done" /\ Put(q)
      BY <1>2, <2>2 DEF Put
    <3>2. QED
      BY <1>3, <1>4, <1>5, <2>2, <3>1, PutWrites DEF ArticleInv, OwnMeta
  <2>3. QED
    BY <2>1, <2>2
<1>8. DescribedBy'
  <2> SUFFICES ASSUME NEW s \in Seconds, meta'[s] # Missing
               PROVE  \E k \in Jobs : began[k] = s /\ pc'[k] \in {"describing", "done", "failed"}
    BY <1>1 DEF DescribedBy
  <2>1. CASE s = began[j]
    BY <1>2, <2>1
  <2>2. CASE s # began[j]
    BY <1>2, <1>4, <2>2, Kinds DEF ArticleInv, DescribedBy
  <2>3. QED
    BY <2>1, <2>2
<1>9. ASSUME ~Crowd'
      PROVE  Scores'
  <2>1. Scores
    BY <1>3, <1>9, MoreNamesakes DEF ArticleInv
  <2>2. text[began[j]] # Missing /\ Fits(text[began[j]].version, scored[j])
    BY <1>1, <2>1 DEF Scores, Put, Late
  <2>3. ASSUME NEW id \in Ids, meta'[id] \notin {Missing, Partial}
        PROVE  text[id] # Missing /\ Fits(text[id].version, meta'[id].scored)
    <3>1. CASE id = began[j]
      BY <1>4, <2>2, <3>1
    <3>2. CASE id # began[j]
      BY <1>4, <2>1, <2>3, <3>2 DEF Scores
    <3>3. QED
      BY <3>1, <3>2
  <2>4. \A q \in Jobs : Late(q)' => Fits(version'[q], scored'[q])
    BY <1>2, <1>5, <2>1 DEF Scores
  <2>5. \A q \in Jobs : Put(q)' /\ Late(q)' =>
            text[began[q]] # Missing /\ Fits(text[began[q]].version, scored'[q])
    BY <1>2, <1>5, <2>1 DEF Scores
  <2>6. QED
    BY <1>1, <2>3, <2>4, <2>5 DEF Scores, Fits, Edited
<1>10. QED
  BY <1>3, <1>6, <1>7, <1>8, <1>9 DEF ArticleInv

-----------------------------------------------------------------------------
(* The articles: the steps of others *)

LEMMA EditKeeps ==
    ASSUME TypeInv, ArticleInv, NEW i \in Ids, EditText(i)
    PROVE  ArticleInv'
<1> DEFINE edited == [owner |-> "editor", version |-> [by |-> "editor", rewrites |-> edits]]
<1>1. /\ text' = [text EXCEPT ![i] = edited] /\ UNCHANGED <<pc, began, meta, pictures, version, scored>>
      /\ edits < MaxEdits
  BY DEF EditText, jobVars, writerVars
<1>2. edited \in Articles /\ edited.version \in Edited
  BY <1>1, Kinds, WriterAssumption DEF TypeInv, WriterTypeOK, Articles, Authors, Edited
<1>3. /\ text'[i] = edited /\ edited # Missing
      /\ \A id \in Ids : id # i => text'[id] = text[id]
  BY <1>1, <1>2, Kinds DEF TypeInv, WriterTypeOK
<1>4. \A id \in Ids : text[id] # Missing => text'[id] # Missing
  BY <1>3
<1>5. \A id \in Ids : text'[id] = text[id] \/ text'[id].owner = "editor"
  BY <1>3
<1>6. \A id \in Ids : \A s \in Texts : Fits(text[id].version, s) => Fits(text'[id].version, s)
  BY <1>2, <1>3 DEF Fits
<1>7. /\ \A q \in Jobs : Namesakes(q)' = Namesakes(q) /\ (Put(q)' <=> Put(q)) /\ (Late(q)' <=> Late(q))
      /\ Crowd' <=> Crowd
      /\ \A q \in Jobs : began[q] \in Ids /\ scored[q] \in Texts
  BY <1>1, Kinds DEF Namesakes, Put, Late, Crowd, Writer, IsPublisher, TypeInv, WriterTypeOK
<1>8. OwnText'
  <2> SUFFICES ASSUME NEW q \in Jobs, Put(q), Namesakes(q) = {}
               PROVE  text'[began[q]] # Missing /\ text'[began[q]].owner \in {q, "editor"}
    BY <1>1, <1>7 DEF OwnText
  <2>1. text[began[q]] # Missing /\ text[began[q]].owner \in {q, "editor"}
    BY DEF ArticleInv, OwnText
  <2>2. QED
    BY <1>4, <1>5, <1>7, <2>1
<1>9. OwnMeta' /\ OwnPictures' /\ DescribedBy'
  BY <1>1, <1>7 DEF ArticleInv, OwnMeta, OwnPictures, DescribedBy, Writer, IsPublisher
<1>10. ASSUME ~Crowd'
       PROVE  Scores'
  <2>1. Scores
    BY <1>7, <1>10 DEF ArticleInv
  <2>2. \A q \in Jobs : Late(q)' => Fits(version'[q], scored'[q])
    BY <1>1, <1>7, <2>1 DEF Scores
  <2>3. \A q \in Jobs : Put(q)' /\ Late(q)' =>
            text'[began[q]] # Missing /\ Fits(text'[began[q]].version, scored[q])
    BY <1>4, <1>6, <1>7, <2>1 DEF Scores
  <2>4. ASSUME NEW id \in Ids, meta[id] \notin {Missing, Partial}
        PROVE  text'[id] # Missing /\ Fits(text'[id].version, meta[id].scored)
    <3>1. meta[id].scored \in Texts
      BY <2>4 DEF TypeInv, WriterTypeOK, Descriptions
    <3>2. QED
      BY <1>4, <1>6, <2>1, <2>4, <3>1 DEF Scores
  <2>5. QED
    BY <1>1, <2>2, <2>3, <2>4 DEF Scores, Fits, Edited
<1>11. QED
  BY <1>8, <1>9, <1>10 DEF ArticleInv

LEMMA PublisherKeeps ==
    ASSUME TypeInv, ArticleInv, NEW p \in Jobs, PublisherStep(p) \/ \E id \in Ids : StartPublisher(p, id)
    PROVE  ArticleInv'
<1>1. CASE \E id \in Ids : StartPublisher(p, id)
  <2>1. PICK w \in {"publishing", "unpublished"} : Goto(p, w)
    BY <1>1 DEF StartPublisher
  <2>2. pc'[p] = w /\ \A q \in Jobs \ {p} : pc'[q] = pc[q]
    BY <2>1, GoneTo
  <2>3. /\ pc[p] = "idle" /\ began' = [began EXCEPT ![p] = second]
        /\ UNCHANGED <<text, meta, pictures, version, scored>>
    BY <1>1 DEF StartPublisher, MayStart, unchangedByPublisher, reviewVars, writerVars
  <2>4. ~Writer(p) /\ ~Put(p)' /\ ~Late(p)'
    BY <2>2, <2>3 DEF Writer, Put, Late
  <2>5. QED
    BY <2>2, <2>3, <2>4, OnlyIts, QuietKeeps
<1>2. CASE FinishPublishing(p)
  <2>1. /\ pc[p] = "publishing" /\ Goto(p, "published")
        /\ UNCHANGED <<began, text, meta, pictures, version, scored>>
    BY <1>2 DEF FinishPublishing, unchangedByPublisher, reviewVars, writerVars
  <2>2. pc'[p] = "published" /\ \A q \in Jobs \ {p} : pc'[q] = pc[q]
    BY <2>1, GoneTo
  <2>3. ~Writer(p) /\ ~Put(p)' /\ ~Late(p)'
    BY <2>1, <2>2 DEF Writer, Put, Late, IsPublisher
  <2>4. QED
    BY <2>1, <2>2, <2>3, QuietKeeps
<1>3. ASSUME NEW x, NEW from, NEW to, Step(p, x, from, to)
      PROVE  ArticleInv'
  BY <1>3, StillKeeps DEF Step, jobVars, unchangedByPublisher, reviewVars, writerVars
<1>4. QED
  BY <1>1, <1>2, <1>3 DEF PublisherStep, SendByCommand, SendVideo, ReadText, BrowserStep,
     Navigate, FillTitle, FillBody, Click, BrowserFails, CloseTab

LEMMA InitArticles == Init => ArticleInv
<1> SUFFICES ASSUME Init
             PROVE  ArticleInv
  OBVIOUS
<1> DEFINE first == [owner |-> "earlier", version |-> NoText]
<1>1. /\ \A j \in Jobs : pc[j] = "idle"
      /\ text = [id \in Ids |-> IF id = Earlier THEN first ELSE Missing]
      /\ pictures = [id \in Ids |-> IF id = Earlier THEN {"earlier"} ELSE {}]
      /\ meta = [id \in Ids |->
                   IF id = Earlier THEN [owner |-> "earlier", scored |-> NoText, video |-> videos]
                                   ELSE Missing]
  BY DEF Init, WriterInit
<1>2. \A j \in Jobs : ~Put(j) /\ ~Late(j) /\ pc[j] # "done"
  BY <1>1 DEF Put, Late
<1>3. OwnText /\ OwnMeta /\ OwnPictures /\ DescribedBy
  BY <1>1, <1>2, EarlierIsApart, Kinds DEF OwnText, OwnMeta, OwnPictures, DescribedBy
<1>4. first \in Articles
  BY Kinds DEF Articles, Authors
<1>5. Scores
  BY <1>1, <1>2, <1>4, Kinds DEF Scores, Fits
<1>6. QED
  BY <1>3, <1>5 DEF ArticleInv

LEMMA ArticlesStay == TypeInv /\ ArticleInv /\ [Next]_vars => ArticleInv'
<1> SUFFICES ASSUME TypeInv, ArticleInv, [Next]_vars
             PROVE  ArticleInv'
  OBVIOUS
<1>1. CASE VideoGoesOn \/ UNCHANGED vars
  BY <1>1, StillKeeps DEF VideoGoesOn, vars, jobVars, writerVars, reviewVars
<1>2. CASE Others
  BY <1>2, StillKeeps, EditKeeps DEF Others, Tick, jobVars, writerVars, reviewVars
<1>3. ASSUME NEW j \in Jobs, WriterProgress(j)
      PROVE  ArticleInv'
  <2>1. CASE VideoRaises(j)
    <3>1. WriterEnds(j, "failed") /\ Writing(j) /\ UNCHANGED <<began, reviewVars>>
      BY <2>1 DEF VideoRaises, Writing, Stages
    <3>2. QED
      BY <3>1, EndKeeps
  <2>2. QED
    BY <1>3, <2>1, StageKeeps, CritiqueKeeps, IllustrateKeeps, WriteTextKeeps, WriteMetaKeeps,
       CompleteMetaKeeps DEF WriterProgress
<1>4. ASSUME NEW j \in Jobs, WriterFate(j)
      PROVE  ArticleInv'
  BY <1>4, StartKeeps, EndKeeps DEF WriterFate, WriterRaises, WriterKilled
<1>5. QED
  BY <1>1, <1>2, <1>3, <1>4, PublisherKeeps DEF Next, WriterGoesOn, WriterTurns

LEMMA ArticleInvariant == Spec => []ArticleInv
<1>1. Spec => []TypeInv
  BY InitTypes, TypesStay, PTL DEF Spec
<1>2. QED
  BY <1>1, InitArticles, ArticlesStay, PTL DEF Spec

-----------------------------------------------------------------------------
(* The articles: the theorems *)

\* A finished article is whole unless its writer shares its second with another, for any
\* number of writers that start, fail and are killed at any time.
THEOREM FinishedArticlesAreWhole == Spec => []FinishedArticleIsWhole
<1>1. TypeInv /\ ArticleInv => FinishedArticleIsWhole
  <2> SUFFICES ASSUME TypeInv, ArticleInv, NEW j \in Jobs, pc[j] = "done", Namesakes(j) = {}
               PROVE  /\ text[began[j]] # Missing /\ text[began[j]].owner \in {j, "editor"}
                      /\ meta[began[j]] \notin {Missing, Partial} /\ meta[began[j]].owner = j
                      /\ pictures[began[j]] \subseteq {j}
    BY DEF FinishedArticleIsWhole
  <2>1. Put(j) /\ Writer(j) /\ began[j] \in Seconds
    BY DEF Put, Writer, IsPublisher, TypeInv, WriterTypeOK
  <2>2. pictures[began[j]] \subseteq {j}
    BY <2>1, AloneInItsSecond DEF ArticleInv, OwnPictures
  <2>3. QED
    BY <2>1, <2>2 DEF ArticleInv, OwnText, OwnMeta
<1>2. Spec => []TypeInv
  BY InitTypes, TypesStay, PTL DEF Spec
<1>3. QED
  BY <1>1, <1>2, ArticleInvariant, PTL

\* The critique's score beside a text that no editor has changed is its own, for any number of
\* rounds and reruns, unless two writers shared a second (stage_critique, run_critique_loop,
\* _run_from_stage).
THEOREM CritiqueScoresAreOfTheTexts == Spec => []CritiqueScoreIsOfTheText
<1>1. ArticleInv => CritiqueScoreIsOfTheText
  BY DEF ArticleInv, CritiqueScoreIsOfTheText, Scores, Fits, Edited, Crowd, Writer
<1>2. QED
  BY <1>1, ArticleInvariant, PTL

=============================================================================
