--------------------------- MODULE ReviewDesk_proofs ---------------------------
(* Theorems about ReviewDesk, for every value of its constants. *)
EXTENDS ReviewDesk, TLAPS

-----------------------------------------------------------------------------
(* The inductive invariant *)

\* The text in review/, if there is one, is the newest; else the one in skipped/ is;
\* and the texts were numbered in the order in which they were written.
TextInv ==
    \A a \in Articles :
        /\ inReview[a] # NoText => inReview[a] = newest[a]
        /\ inReview[a] = NoText => inSkipped[a] = newest[a]
        /\ newest[a] # NoText => newest[a] <= edits
        /\ inSkipped[a] # NoText => newest[a] # NoText /\ inSkipped[a] <= edits

\* An article that has a description has had a text ...
Described(a) == meta[a] # "none" /\ newest[a] # NoText

\* ... and so has every article that the threads or the queue speak of.
DescribedInv ==
    /\ \A a \in Articles : meta[a] # "none" => newest[a] # NoText
    /\ \A a \in todo \union skipQueue : Described(a)
    /\ ppc = "write" => picked \in Articles /\ Described(picked)
    /\ spc # "idle" => target \in Articles /\ Described(target)

\* When the scanner is done with an article, its text is in skipped/.
MovedInv == spc = "end" => inSkipped[target] # NoText

IInv ==
    /\ TypeOK
    /\ TextInv
    /\ SkippedCopyIsOlder
    /\ DescribedInv
    /\ MovedInv
    /\ MarkedIsOnItsWay

-----------------------------------------------------------------------------

LEMMA VersionFacts ==
    /\ NoText \notin Versions
    /\ Versions \subseteq Nat
    /\ 0 \in Versions
    /\ \A n \in Versions : n < MaxEdits => n + 1 \in Versions
BY NoTextAssumption, BoundsAssumption DEF Versions

LEMMA InitInv == Init => IInv
<1> SUFFICES ASSUME Init
             PROVE  IInv
  OBVIOUS
<1>1. faults \in 0 .. MaxFaults /\ edits \in Versions
  BY BoundsAssumption, VersionFacts DEF Init
<1>2. TypeOK
  BY <1>1 DEF Init, TypeOK, MaybeText, MaybeArticle
<1>3. TextInv /\ SkippedCopyIsOlder
  BY DEF Init, TextInv, SkippedCopyIsOlder
<1>4. DescribedInv /\ MovedInv /\ MarkedIsOnItsWay
  BY DEF Init, DescribedInv, MovedInv, MarkedIsOnItsWay
<1>5. QED
  BY <1>2, <1>3, <1>4 DEF IInv

\* A step that leaves the texts alone.
LEMMA TextsKept ==
    ASSUME IInv, UNCHANGED <<inReview, inSkipped, newest, edits>>
    PROVE  TextInv' /\ SkippedCopyIsOlder'
BY DEF IInv, TextInv, SkippedCopyIsOlder

-----------------------------------------------------------------------------
(* The Writer and the editors *)

LEMMA WriteTextKeeps ==
    ASSUME IInv, NEW a \in Articles, WriteText(a)
    PROVE  IInv'
<1> USE DEF IInv, WriteText
<1>1. inReview[a] = NoText /\ inSkipped[a] = NoText /\ meta[a] = "none"
  BY DEF TextInv, DescribedInv
<1>2. 0 \in MaybeText /\ 0 # NoText /\ 0 <= edits
  BY VersionFacts, BoundsAssumption DEF MaybeText, TypeOK, Versions
<1>3. /\ inReview'[a] = 0 /\ newest'[a] = 0
      /\ \A b \in Articles \ {a} : inReview'[b] = inReview[b] /\ newest'[b] = newest[b]
  BY DEF TypeOK
<1>4. TypeOK'
  BY <1>2 DEF TypeOK, queueVars, pollerVars, skipVars, historyVars
<1>5. TextInv'
  BY <1>1, <1>2, <1>3 DEF TextInv
<1>6. SkippedCopyIsOlder'
  BY <1>1, <1>3 DEF SkippedCopyIsOlder
<1>7. DescribedInv'
  BY <1>2, <1>3 DEF DescribedInv, Described, queueVars, pollerVars, skipVars
<1>8. MovedInv' /\ MarkedIsOnItsWay'
  BY DEF MovedInv, MarkedIsOnItsWay, queueVars, pollerVars, skipVars, historyVars
<1>9. QED
  BY <1>4, <1>5, <1>6, <1>7, <1>8

LEMMA WriteMetaKeeps ==
    ASSUME IInv, NEW a \in Articles, WriteMeta(a)
    PROVE  IInv'
<1> USE DEF IInv, WriteMeta
<1>1. meta'[a] = "review" /\ \A b \in Articles \ {a} : meta'[b] = meta[b]
  BY DEF TypeOK
<1>2. TypeOK'
  BY DEF TypeOK, queueVars, pollerVars, skipVars, editVars, historyVars
<1>3. TextInv' /\ SkippedCopyIsOlder'
  BY TextsKept DEF editVars
<1>4. DescribedInv'
  BY <1>1 DEF DescribedInv, Described, queueVars, pollerVars, skipVars, editVars
<1>5. MovedInv' /\ MarkedIsOnItsWay'
  BY <1>1 DEF MovedInv, MarkedIsOnItsWay, queueVars, pollerVars, skipVars, historyVars
<1>6. QED
  BY <1>2, <1>3, <1>4, <1>5

\* A step that changes what is aged, which article an editor has open, or what
\* skips have failed, and nothing else.
LEMMA ElsewhereKeeps ==
    ASSUME IInv, TypeOK',
           UNCHANGED <<diskVars, skipQueue, ppc, todo, picked, skipVars, edits, newest,
                       interrupted>>
    PROVE  IInv'
<1> USE DEF IInv, diskVars, skipVars
<1>1. TextInv' /\ SkippedCopyIsOlder'
  BY TextsKept
<1>2. DescribedInv'
  BY DEF DescribedInv, Described
<1>3. MovedInv' /\ MarkedIsOnItsWay'
  BY DEF MovedInv, MarkedIsOnItsWay
<1>4. QED
  BY <1>1, <1>2, <1>3

LEMMA EditWriteKeeps ==
    ASSUME IInv, NEW e \in Editors, EditWrite(e)
    PROVE  IInv'
<1> DEFINE a == editing[e]
<1> USE DEF IInv
<1>1. /\ a \in Articles /\ edits < MaxEdits /\ edits' = edits + 1
      /\ inReview' = [inReview EXCEPT ![a] = edits + 1]
      /\ newest' = [newest EXCEPT ![a] = edits + 1]
      /\ UNCHANGED <<meta, inSkipped, aged, queueVars, pollerVars, skipVars, historyVars>>
  BY DEF EditWrite, TypeOK, MaybeArticle
<1>2. editing' \in [Editors -> MaybeArticle]
  BY DEF EditWrite, TypeOK, MaybeArticle
<1> HIDE DEF a
<1>3. edits \in Nat /\ edits + 1 \in Versions /\ edits + 1 \in MaybeText /\ edits + 1 # NoText
  BY <1>1, VersionFacts DEF TypeOK, MaybeText
<1>4. /\ inReview'[a] = edits + 1 /\ newest'[a] = edits + 1
      /\ \A b \in Articles \ {a} : inReview'[b] = inReview[b] /\ newest'[b] = newest[b]
  BY <1>1 DEF TypeOK
<1>5. TypeOK'
  BY <1>1, <1>2, <1>3 DEF TypeOK, queueVars, pollerVars, skipVars, historyVars
<1>6. \A b \in Articles : /\ inSkipped[b] # NoText => inSkipped[b] \in Nat
                          /\ newest[b] # NoText => newest[b] \in Nat
  BY VersionFacts DEF TypeOK, MaybeText
<1>7. TextInv'
  BY <1>1, <1>3, <1>4, <1>6 DEF TextInv
<1>8. SkippedCopyIsOlder'
  BY <1>1, <1>3, <1>4, <1>6 DEF SkippedCopyIsOlder, TextInv
<1>9. DescribedInv'
  BY <1>1, <1>3, <1>4 DEF DescribedInv, Described, queueVars, pollerVars, skipVars
<1>10. MovedInv' /\ MarkedIsOnItsWay'
  BY <1>1 DEF MovedInv, MarkedIsOnItsWay, queueVars, pollerVars, skipVars, historyVars
<1>11. QED
  BY <1>5, <1>7, <1>8, <1>9, <1>10

-----------------------------------------------------------------------------
(* The poller *)

LEMMA PollListKeeps ==
    ASSUME IInv, PollList
    PROVE  IInv'
<1> USE DEF IInv, PollList
<1>1. TypeOK'
  BY DEF TypeOK, diskVars, queueVars, skipVars, editVars, historyVars
<1>2. TextInv' /\ SkippedCopyIsOlder'
  BY TextsKept DEF diskVars, editVars
<1>3. DescribedInv'
  BY DEF DescribedInv, Described, TypeOK, diskVars, queueVars, skipVars, editVars
<1>4. MovedInv' /\ MarkedIsOnItsWay'
  BY DEF MovedInv, MarkedIsOnItsWay, diskVars, queueVars, skipVars, historyVars
<1>5. QED
  BY <1>1, <1>2, <1>3, <1>4

LEMMA PollMarkKeeps ==
    ASSUME IInv, NEW a \in Articles, PollMark(a)
    PROVE  IInv'
<1> USE DEF IInv, PollMark
<1>1. TypeOK'
  BY DEF TypeOK, MaybeArticle, queueVars, skipVars, editVars, historyVars
<1>2. TextInv' /\ SkippedCopyIsOlder'
  BY TextsKept DEF editVars
<1>3. /\ \A b \in Articles \ {a} : meta'[b] = meta[b]
      /\ meta[a] = "none" <=> meta'[a] = "none"
  BY DEF TypeOK
<1>4. Described(a)
  BY DEF DescribedInv
<1>5. DescribedInv'
  BY <1>3, <1>4 DEF DescribedInv, Described, TypeOK, queueVars, skipVars, editVars
<1>6. MovedInv' /\ MarkedIsOnItsWay'
  BY <1>3 DEF MovedInv, MarkedIsOnItsWay, TypeOK, queueVars, skipVars, historyVars
<1>7. QED
  BY <1>1, <1>2, <1>5, <1>6

LEMMA PollWriteKeeps ==
    ASSUME IInv, PollWrite
    PROVE  IInv'
<1> USE DEF IInv, PollWrite
<1>1. picked \in Articles /\ Described(picked)
  BY DEF DescribedInv
<1>2. TypeOK'
  BY <1>1 DEF TypeOK, MaybeArticle, diskVars, skipVars, editVars, historyVars
<1>3. TextInv' /\ SkippedCopyIsOlder'
  BY TextsKept DEF diskVars, editVars
<1>4. DescribedInv'
  BY <1>1 DEF DescribedInv, Described, diskVars, skipVars, editVars
<1>5. MovedInv' /\ MarkedIsOnItsWay'
  BY DEF MovedInv, MarkedIsOnItsWay, diskVars, skipVars, historyVars
<1>6. QED
  BY <1>2, <1>3, <1>4, <1>5

LEMMA PollEndKeeps ==
    ASSUME IInv, PollEnd
    PROVE  IInv'
<1> USE DEF IInv, PollEnd
<1>1. TypeOK'
  BY DEF TypeOK, diskVars, queueVars, skipVars, editVars, historyVars
<1>2. TextInv' /\ SkippedCopyIsOlder'
  BY TextsKept DEF diskVars, editVars
<1>3. DescribedInv'
  BY DEF DescribedInv, Described, diskVars, queueVars, skipVars, editVars
<1>4. MovedInv' /\ MarkedIsOnItsWay'
  BY DEF MovedInv, MarkedIsOnItsWay, diskVars, queueVars, skipVars, historyVars
<1>5. QED
  BY <1>1, <1>2, <1>3, <1>4

-----------------------------------------------------------------------------
(* The scanner *)

LEMMA TakeSkipKeeps ==
    ASSUME IInv, NEW a \in Articles, TakeSkip(a)
    PROVE  IInv'
<1> USE DEF IInv, TakeSkip
<1>1. TypeOK'
  BY DEF TypeOK, MaybeArticle, diskVars, queueVars, pollerVars, editVars, historyVars
<1>2. TextInv' /\ SkippedCopyIsOlder'
  BY TextsKept DEF diskVars, editVars
<1>3. DescribedInv'
  BY DEF DescribedInv, Described, diskVars, queueVars, pollerVars, editVars
<1>4. MovedInv' /\ MarkedIsOnItsWay'
  BY DEF MovedInv, MarkedIsOnItsWay, diskVars, queueVars, pollerVars, historyVars
<1>5. QED
  BY <1>1, <1>2, <1>3, <1>4

LEMMA MoveMetaKeeps ==
    ASSUME IInv, MoveMeta
    PROVE  IInv'
<1> USE DEF IInv, MoveMeta
<1>1. target \in Articles
  BY DEF DescribedInv
<1>2. /\ \A b \in Articles \ {target} : meta'[b] = meta[b]
      /\ meta[target] = "none" <=> meta'[target] = "none"
      /\ meta'[target] = "marked" => meta[target] = "marked"
  BY <1>1 DEF TypeOK
<1>3. TypeOK'
  BY <1>1 DEF TypeOK, queueVars, pollerVars, editVars, historyVars
<1>4. TextInv' /\ SkippedCopyIsOlder'
  BY TextsKept DEF editVars
<1>5. DescribedInv'
  BY <1>1, <1>2 DEF DescribedInv, Described, TypeOK, queueVars, pollerVars, editVars
<1>6. MovedInv' /\ MarkedIsOnItsWay'
  BY <1>1, <1>2 DEF MovedInv, MarkedIsOnItsWay, queueVars, pollerVars, historyVars
<1>7. QED
  BY <1>3, <1>4, <1>5, <1>6

LEMMA MoveTextKeeps ==
    ASSUME IInv, MoveText
    PROVE  IInv'
<1> USE DEF IInv
<1>1. /\ spc = "text" /\ spc' = "end" /\ target \in Articles /\ newest[target] # NoText
      /\ UNCHANGED <<meta, aged, queueVars, pollerVars, target, editVars, historyVars>>
  BY DEF MoveText, DescribedInv, Described
<1>2. /\ inReview'[target] = NoText /\ inSkipped'[target] = newest[target]
      /\ \A b \in Articles \ {target} :
            inReview'[b] = inReview[b] /\ inSkipped'[b] = inSkipped[b]
  BY <1>1 DEF MoveText, TextInv, TypeOK
<1>3. TypeOK'
  BY <1>1 DEF MoveText, TypeOK, MaybeText, queueVars, pollerVars, editVars, historyVars
<1>4. TextInv'
  BY <1>1, <1>2 DEF TextInv, editVars
<1>5. SkippedCopyIsOlder'
  BY <1>2 DEF SkippedCopyIsOlder
<1>6. DescribedInv'
  BY <1>1 DEF DescribedInv, Described, queueVars, pollerVars, editVars
<1>7. MovedInv' /\ MarkedIsOnItsWay'
  BY <1>1, <1>2 DEF MovedInv, MarkedIsOnItsWay, queueVars, pollerVars, historyVars
<1>8. QED
  BY <1>3, <1>4, <1>5, <1>6, <1>7

LEMMA EndSkipKeeps ==
    ASSUME IInv, EndSkip
    PROVE  IInv'
<1> USE DEF IInv, EndSkip
<1>1. target \in Articles /\ inSkipped[target] # NoText
  BY DEF DescribedInv, MovedInv
<1>2. TypeOK'
  BY <1>1 DEF TypeOK, MaybeArticle, diskVars, pollerVars, editVars, historyVars
<1>3. TextInv' /\ SkippedCopyIsOlder'
  BY TextsKept DEF diskVars, editVars
<1>4. DescribedInv'
  BY DEF DescribedInv, Described, diskVars, pollerVars, editVars
<1>5. MovedInv' /\ MarkedIsOnItsWay'
  BY <1>1 DEF MovedInv, MarkedIsOnItsWay, diskVars, pollerVars, historyVars
<1>6. QED
  BY <1>2, <1>3, <1>4, <1>5

-----------------------------------------------------------------------------
(* Exceptions and restarts: the article the poller was about to write a skip for is
   counted as interrupted.  *)

LEMMA FaultKeeps ==
    ASSUME IInv, TypeOK',
           UNCHANGED <<diskVars, skipQueue, edits, newest>>,
           \/ UNCHANGED <<spc, target>>
           \/ spc' = "idle",
           \/ UNCHANGED <<ppc, todo, picked, interrupted>>
           \/ /\ ppc' = "idle" /\ todo' = {}
              /\ interrupted' = IF ppc = "write" THEN interrupted \union {picked}
                                                 ELSE interrupted
    PROVE  IInv'
<1> USE DEF IInv, diskVars
<1>1. TextInv' /\ SkippedCopyIsOlder'
  BY TextsKept
<1>2. DescribedInv'
  BY DEF DescribedInv, Described
<1>3. MovedInv' /\ MarkedIsOnItsWay'
  BY DEF MovedInv, MarkedIsOnItsWay
<1>4. QED
  BY <1>1, <1>2, <1>3

LEMMA NextInv == IInv /\ [Next]_vars => IInv'
<1> SUFFICES ASSUME IInv, [Next]_vars
             PROVE  IInv'
  OBVIOUS
<1>1. TypeOK /\ (ppc = "write" => picked \in Articles) /\ MaxFaults \in Nat
  BY BoundsAssumption DEF IInv, DescribedInv
<1>2. ASSUME NEW a \in Articles, Age(a)
      PROVE  IInv'
  BY <1>1, <1>2, ElsewhereKeeps DEF Age, TypeOK, diskVars, queueVars, pollerVars, skipVars,
     editVars, historyVars
<1>3. ASSUME NEW e \in Editors, NEW a \in Articles, EditCheck(e, a)
      PROVE  IInv'
  BY <1>1, <1>3, ElsewhereKeeps DEF EditCheck, TypeOK, MaybeArticle, diskVars, queueVars,
     pollerVars, skipVars, historyVars
<1>4. CASE PollRaises
  <2>1. TypeOK'
    BY <1>1, <1>4 DEF PollRaises, TypeOK, MaybeArticle, diskVars, queueVars, skipVars, editVars
  <2>2. QED
    BY <1>4, <2>1, FaultKeeps DEF PollRaises, queueVars, skipVars, editVars
<1>5. CASE ScanRaises
  <2>1. TypeOK'
    BY <1>1, <1>5 DEF ScanRaises, TypeOK, MaybeArticle, diskVars, queueVars, pollerVars, editVars
  <2>2. QED
    BY <1>5, <2>1, FaultKeeps DEF ScanRaises, queueVars, pollerVars, editVars
<1>6. CASE Crash
  <2>1. TypeOK'
    BY <1>1, <1>6 DEF Crash, TypeOK, MaybeArticle, diskVars, queueVars
  <2>2. QED
    BY <1>6, <2>1, FaultKeeps DEF Crash, queueVars
<1>7. CASE UNCHANGED vars
  BY <1>1, <1>7, ElsewhereKeeps DEF vars, TypeOK, diskVars, queueVars, pollerVars, skipVars,
     editVars, historyVars
<1>8. QED
  BY <1>2, <1>3, <1>4, <1>5, <1>6, <1>7, WriteTextKeeps, WriteMetaKeeps, EditWriteKeeps,
     PollListKeeps, PollMarkKeeps, PollWriteKeeps, PollEndKeeps, TakeSkipKeeps, MoveMetaKeeps,
     MoveTextKeeps, EndSkipKeeps DEF Next, Environment, ApprovalTimeout, HandleSkip

-----------------------------------------------------------------------------

LEMMA Inductive == Spec => []IInv
BY InitInv, NextInv, PTL DEF Spec

\* Every variable keeps its type, for any number of articles, editors and edits.
THEOREM ReviewTypeCorrect == Spec => []TypeOK
<1>1. IInv => TypeOK
  BY DEF IInv
<1>2. QED
  BY <1>1, Inductive, PTL

\* The newest text of an article is in review/ or in skipped/, however edits, skips
\* and restarts interleave.
THEOREM NewestTextIsKept == Spec => []NewestTextKept
<1>1. IInv => NewestTextKept
  BY DEF IInv, TextInv, NewestTextKept
<1>2. QED
  BY <1>1, Inductive, PTL

\* Where review/ and skipped/ both have a text of an article, the one in review/ was
\* written later.
THEOREM SkippedTextIsOlder == Spec => []SkippedCopyIsOlder
<1>1. IInv => SkippedCopyIsOlder
  BY DEF IInv
<1>2. QED
  BY <1>1, Inductive, PTL

\* An article marked by approval_timeout_target is moved or will be, unless a fault
\* came between its marker and its skip action.
THEOREM MarkedIsHandled == Spec => []MarkedIsOnItsWay
<1>1. IInv => MarkedIsOnItsWay
  BY DEF IInv
<1>2. QED
  BY <1>1, Inductive, PTL

-----------------------------------------------------------------------------
(* Skips that fail *)

\* The skip of an article is still to be written or in the queue.
Wanted(a) == (ppc = "write" /\ picked = a) \/ a \in skipQueue

\* Without a fault an article is skipped once: what is wanted is marked, by one action, and
\* its text has not been moved but by the handler that is about to end.
FaultlessInv ==
    /\ \A a \in Articles : meta[a] # "skipped"
    /\ \A a \in Articles : Wanted(a) => meta[a] = "marked"
    /\ \A a \in Articles : inSkipped[a] # NoText => meta[a] = "marked"
    /\ ppc = "write" => picked \notin skipQueue
    /\ spc # "idle" => target \in skipQueue
    /\ \A a \in Articles : inSkipped[a] # NoText /\ Wanted(a) => spc = "end" /\ target = a
    /\ spc = "end" => moved

\* Above: a skip fails only after a fault, for an article that has been moved.
FailedInv == (faults = 0 => FaultlessInv) /\ FailedSkipWasDone

\* A step that leaves the handler and the poller alone.
LEMMA ElsewhereFaultless ==
    ASSUME FaultlessInv,
           UNCHANGED <<inSkipped, skipQueue, skipVars, ppc, picked>>,
           \A a \in Articles : meta'[a] = meta[a] \/ (meta[a] = "none" /\ meta'[a] = "review")
    PROVE  FaultlessInv'
BY DEF FaultlessInv, Wanted, skipVars

LEMMA PollFaultless ==
    ASSUME IInv, FaultlessInv, NEW a \in Articles, PollMark(a)
    PROVE  FaultlessInv'
<1>1. CASE meta[a] = "marked"
  BY <1>1, ElsewhereFaultless DEF PollMark, skipVars, queueVars
<1>2. CASE meta[a] # "marked"
  <2>1. meta[a] = "review"
    BY <1>2 DEF PollMark, IInv, TypeOK, DescribedInv, Described, FaultlessInv
  <2>2. /\ meta'[a] = "marked" /\ \A b \in Articles \ {a} : meta'[b] = meta[b]
        /\ picked' = a /\ ppc' = "write" /\ ppc = "each"
        /\ UNCHANGED <<inSkipped, skipQueue, skipVars>>
    BY <1>2, <2>1 DEF PollMark, IInv, TypeOK, queueVars
  <2>3. a \notin skipQueue /\ inSkipped[a] = NoText
    BY <2>1 DEF FaultlessInv, Wanted
  <2>4. QED
    BY <2>2, <2>3 DEF FaultlessInv, Wanted, skipVars
<1>3. QED
  BY <1>1, <1>2

LEMMA HandlerFaultless ==
    ASSUME IInv, FaultlessInv, HandleSkip
    PROVE  FaultlessInv'
<1>0. spc # "idle" => target \in Articles /\ target \in skipQueue /\ meta[target] = "marked"
  BY DEF IInv, DescribedInv, FaultlessInv, Wanted
<1>1. ASSUME NEW a \in Articles, TakeSkip(a)
      PROVE  FaultlessInv'
  BY <1>1 DEF TakeSkip, FaultlessInv, Wanted, diskVars, queueVars, pollerVars
<1>2. CASE MoveMeta
  <2>1. UNCHANGED <<inSkipped, skipQueue, target, ppc, picked>> /\ spc = "meta" /\ spc' = "text"
    BY <1>2 DEF MoveMeta, queueVars, pollerVars
  <2>2. \A a \in Articles : meta'[a] = meta[a]
    BY <1>0, <1>2, <2>1 DEF MoveMeta, IInv, TypeOK
  <2>3. QED
    BY <2>1, <2>2 DEF FaultlessInv, Wanted
<1>3. CASE MoveText
  <2>1. UNCHANGED <<meta, skipQueue, target, ppc, picked>> /\ spc = "text" /\ spc' = "end"
    BY <1>3 DEF MoveText, queueVars, pollerVars
  <2>2. inSkipped[target] = NoText
    BY <1>0, <2>1 DEF FaultlessInv, Wanted
  <2>3. inReview[target] # NoText
    BY <1>0, <2>1, <2>2 DEF IInv, TextInv, DescribedInv, Described
  <2>4. moved' /\ \A b \in Articles \ {target} : inSkipped'[b] = inSkipped[b]
    BY <1>0, <1>3, <2>3 DEF MoveText, IInv, TypeOK
  <2>5. QED
    BY <1>0, <2>1, <2>4 DEF FaultlessInv, Wanted
<1>4. CASE EndSkip
  <2>1. /\ spc = "end" /\ spc' = "idle" /\ skipQueue' = skipQueue \ {target}
        /\ UNCHANGED <<meta, inSkipped, ppc, picked>>
    BY <1>4 DEF EndSkip, diskVars, pollerVars
  <2>2. QED
    BY <1>0, <2>1 DEF FaultlessInv, Wanted
<1>5. QED
  BY <1>1, <1>2, <1>3, <1>4 DEF HandleSkip

LEMMA FaultlessNext ==
    ASSUME IInv, FaultlessInv, [Next]_vars, faults' = 0, faults = 0
    PROVE  FaultlessInv'
<1>1. ASSUME NEW a \in Articles, WriteMeta(a)
      PROVE  FaultlessInv'
  BY <1>1, ElsewhereFaultless DEF WriteMeta, IInv, TypeOK, queueVars, pollerVars
<1>2. CASE PollWrite
  BY <1>2 DEF PollWrite, FaultlessInv, Wanted, diskVars, skipVars, IInv, TypeOK, DescribedInv
<1>3. CASE PollList
  BY <1>3 DEF PollList, FaultlessInv, Wanted, diskVars, queueVars, skipVars
<1>4. CASE PollEnd
  BY <1>4 DEF PollEnd, FaultlessInv, Wanted, diskVars, queueVars, skipVars
<1>5. CASE ~(PollRaises \/ ScanRaises \/ Crash)
  BY <1>1, <1>2, <1>3, <1>4, <1>5, PollFaultless, HandlerFaultless, ElsewhereFaultless
     DEF Next, Environment, ApprovalTimeout, WriteText, Age, EditWrite, EditCheck, vars, diskVars,
         queueVars, pollerVars
<1>6. QED
  BY <1>5 DEF PollRaises, ScanRaises, Crash

LEMMA FailedNext ==
    ASSUME IInv, FailedInv, [Next]_vars
    PROVE  FailedInv'
<1>1. faults' \in Nat /\ faults \in Nat /\ faults <= faults'
  BY BoundsAssumption DEF IInv, TypeOK, Next, Environment, ApprovalTimeout, HandleSkip, WriteText,
     WriteMeta, Age, EditWrite, EditCheck, PollList, PollMark, PollWrite, PollEnd, TakeSkip,
     MoveMeta, MoveText, EndSkip, PollRaises, ScanRaises, Crash, historyVars, vars
<1>2. faults' = 0 => FaultlessInv'
  BY <1>1, FaultlessNext DEF FailedInv
<1>3. \A a \in Articles : inSkipped[a] # NoText => inSkipped'[a] # NoText
  BY DEF IInv, TypeOK, Next, Environment, ApprovalTimeout, HandleSkip, WriteText, diskVars,
     WriteMeta, Age, EditWrite, EditCheck, PollList, PollMark, PollWrite, PollEnd, TakeSkip,
     MoveMeta, MoveText, EndSkip, PollRaises, ScanRaises, Crash, vars
<1>4. CASE EndSkip
  <2>1. inSkipped[target] # NoText /\ target \in Articles
    BY <1>4 DEF EndSkip, IInv, MovedInv, DescribedInv
  <2>2. faults = 0 => moved
    BY <1>4 DEF EndSkip, FailedInv, FaultlessInv
  <2>3. FailedSkipWasDone'
    BY <1>1, <1>4, <2>1, <2>2 DEF EndSkip, FailedInv, FailedSkipWasDone, diskVars, historyVars
  <2>4. QED
    BY <1>2, <2>3 DEF FailedInv
<1>5. CASE ~EndSkip
  <2>1. UNCHANGED failedSkips
    BY <1>5 DEF Next, Environment, ApprovalTimeout, HandleSkip, WriteText, queueVars,
       WriteMeta, Age, EditWrite, EditCheck, PollList, PollMark, PollWrite, PollEnd, TakeSkip,
       MoveMeta, MoveText, PollRaises, ScanRaises, Crash, vars
  <2>2. failedSkips \subseteq Articles
    BY DEF IInv, TypeOK
  <2>3. FailedSkipWasDone'
    BY <1>1, <1>3, <2>1, <2>2 DEF FailedInv, FailedSkipWasDone
  <2>4. QED
    BY <1>2, <2>3 DEF FailedInv
<1>6. QED
  BY <1>4, <1>5

\* A skip action goes to failed/ only after a fault, for an article whose text has been
\* moved: nothing is left to do for it, for any number of articles and edits.
THEOREM FailedSkipsWereDone == Spec => []FailedSkipWasDone
<1>1. Init => FailedInv
  BY DEF Init, FailedInv, FaultlessInv, Wanted, FailedSkipWasDone
<1>2. IInv /\ FailedInv /\ [Next]_vars => FailedInv'
  BY FailedNext
<1>3. FailedInv => FailedSkipWasDone
  BY DEF FailedInv
<1>4. QED
  BY <1>1, <1>2, <1>3, Inductive, PTL DEF Spec

=============================================================================
