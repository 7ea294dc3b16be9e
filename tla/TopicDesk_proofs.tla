--------------------------- MODULE TopicDesk_proofs ---------------------------
(* Theorems about TopicDesk, for every value of its constants. *)
EXTENDS TopicDesk, TLAPS

-----------------------------------------------------------------------------
(* The inductive invariant *)

\* Every ".timeout" in a name was paid for by a round of the poller: the name the
\* poller is about to give is one it has a round for.
RoundsInv ==
    \A f \in pending : f.depth + (IF pc \in {"confirm", "rename"} THEN 1 ELSE 0) <= rounds

\* The poller holds a file in every step of its round.
HoldsInv == pc # "idle" => picked \in Files

\* A topic without a file was never confirmed by the poller: files are renamed and
\* never removed.
FreshInv ==
    \A t \in Topics :
        (\A f \in pending : f.topic # t) => autoConfirms[t] = 0 /\ interrupted[t] = 0

IInv ==
    /\ TypeOK
    /\ FreshInv
    /\ HoldsInv
    /\ RoundsInv
    /\ OneNamePerTopic
    /\ PickedStaysPut
    /\ AutoConfirmsAccounted

-----------------------------------------------------------------------------

LEMMA FileFacts ==
    ASSUME NEW f \in Files
    PROVE  /\ f.topic \in Topics
           /\ f.depth \in Nat
           /\ f.depth <= MaxRounds
           /\ f = [topic |-> f.topic, depth |-> f.depth]
BY BoundsAssumption DEF Files, Depths

\* The name a rename gives, and that it is another one of the same topic.
LEMMA LaterFacts ==
    ASSUME NEW f \in Files, f.depth + 1 <= MaxRounds
    PROVE  /\ Later(f) \in Files
           /\ Later(f).topic = f.topic
           /\ Later(f).depth = f.depth + 1
           /\ Later(f) # f
<1>1. Later(f) = [topic |-> f.topic, depth |-> f.depth + 1]
  BY FileFacts DEF Later, Files
<1>2. f.depth + 1 \in Depths /\ f.depth + 1 # f.depth
  BY FileFacts, BoundsAssumption DEF Depths
<1>3. QED
  BY <1>1, <1>2, FileFacts DEF Files

LEMMA InitInv == Init => IInv
<1> SUFFICES ASSUME Init
             PROVE  IInv
  OBVIOUS
<1>1. rounds \in 0 .. MaxRounds /\ faults \in 0 .. MaxFaults
  BY BoundsAssumption DEF Init
<1>2. TypeOK
  BY <1>1 DEF Init, TypeOK
<1>3. HoldsInv /\ FreshInv /\ RoundsInv /\ OneNamePerTopic /\ PickedStaysPut
      /\ AutoConfirmsAccounted
  BY DEF Init, HoldsInv, FreshInv, RoundsInv, OneNamePerTopic, PickedStaysPut, AutoConfirmsAccounted
<1>4. QED
  BY <1>2, <1>3 DEF IInv

\* A step that leaves the files, the poller and its counters alone.
LEMMA ElsewhereKeeps ==
    ASSUME IInv, TypeOK', UNCHANGED <<pending, pollerVars, autoConfirms, countVars>>
    PROVE  IInv'
<1> USE DEF IInv, pollerVars, countVars
<1>1. HoldsInv' /\ FreshInv' /\ RoundsInv'
  BY DEF HoldsInv, FreshInv, RoundsInv
<1>2. OneNamePerTopic' /\ PickedStaysPut' /\ AutoConfirmsAccounted'
  BY DEF OneNamePerTopic, PickedStaysPut, AutoConfirmsAccounted
<1>3. QED
  BY <1>1, <1>2

-----------------------------------------------------------------------------

LEMMA NextInv == IInv /\ [Next]_vars => IInv'
<1> SUFFICES ASSUME IInv, [Next]_vars
             PROVE  IInv'
  OBVIOUS
<1> USE DEF IInv
<1>0. rounds \in Nat /\ MaxRounds \in Nat /\ rounds <= MaxRounds /\ pending \subseteq Files
  BY BoundsAssumption DEF TypeOK
<1>1. ASSUME NEW t \in Topics, WriteTopic(t)
      PROVE  IInv'
  <2> DEFINE new == [topic |-> t, depth |-> 0]
  <2>1. /\ FilesOf(t) = {} /\ pending' = pending \union {new}
        /\ UNCHANGED <<pollerVars, autoConfirms, countVars>>
    BY <1>1 DEF WriteTopic
  <2>2. new \in Files /\ new.topic = t /\ new.depth = 0
    BY BoundsAssumption DEF Files, Depths
  <2>3. TypeOK'
    BY <1>1, <2>2 DEF WriteTopic, TypeOK, queueVars, pollerVars, countVars
  <2> HIDE DEF new
  <2>4. \A f \in pending : f.topic # t
    BY <2>1 DEF FilesOf
  <2>5. OneNamePerTopic' /\ PickedStaysPut' /\ HoldsInv'
    BY <2>1, <2>2, <2>4 DEF OneNamePerTopic, PickedStaysPut, HoldsInv, pollerVars
  <2>6. RoundsInv'
    <3>1. pc = "confirm" \/ pc = "rename" => rounds >= 1
      BY <1>0, FileFacts DEF PickedStaysPut, RoundsInv
    <3>2. QED
      BY <2>1, <2>2, <1>0, <3>1 DEF RoundsInv, pollerVars, countVars
  <2>7. FreshInv'
    BY <2>1, <2>2, <2>4 DEF FreshInv, countVars
  <2>8. AutoConfirmsAccounted'
    <3>1. autoConfirms[t] = 0 /\ interrupted[t] = 0
      BY <2>4 DEF FreshInv
    <3>2. pc = "rename" => picked.topic # t
      BY <2>4 DEF PickedStaysPut
    <3>3. QED
      BY <2>1, <2>2, <2>4, <3>1, <3>2 DEF AutoConfirmsAccounted, pollerVars, countVars
  <2>9. QED
    BY <2>3, <2>5, <2>6, <2>7, <2>8
<1>2. ASSUME NEW t \in Topics, Expire(t)
      PROVE  IInv'
  BY <1>2, ElsewhereKeeps DEF Expire, TypeOK, queueVars, pollerVars, countVars
<1>3. ASSUME NEW u \in Users, ConfirmWrite(u)
      PROVE  IInv'
  <2>1. asking[u] \in Files
    BY <1>3 DEF ConfirmWrite, TypeOK
  <2>2. TypeOK'
    BY <1>3, <2>1, FileFacts DEF ConfirmWrite, TypeOK, queueVars, pollerVars, countVars
  <2>3. QED
    BY <1>3, <2>2, ElsewhereKeeps DEF ConfirmWrite
<1>4. ASSUME NEW u \in Users, NEW f \in Files, ConfirmCheck(u, f)
      PROVE  IInv'
  BY <1>4, ElsewhereKeeps DEF ConfirmCheck, TypeOK, queueVars, pollerVars, countVars
<1>5. CASE PollPick
  <2>1. /\ picked' \in pending /\ pc = "idle" /\ pc' = "confirm" /\ rounds' = rounds + 1
        /\ rounds < MaxRounds
        /\ UNCHANGED <<pending, autoConfirms, interrupted, faults>>
    BY <1>5 DEF PollPick, Best
  <2>2. rounds' \in 0 .. MaxRounds
    BY <2>1, <1>0
  <2>3. TypeOK'
    BY <1>5, <2>1, <2>2, <1>0 DEF PollPick, TypeOK, queueVars
  <2>4. HoldsInv' /\ OneNamePerTopic' /\ PickedStaysPut' /\ FreshInv'
    BY <2>1, <1>0 DEF HoldsInv, OneNamePerTopic, PickedStaysPut, FreshInv
  <2>5. RoundsInv'
    BY <2>1, <1>0, FileFacts DEF RoundsInv
  <2>6. AutoConfirmsAccounted'
    BY <2>1 DEF AutoConfirmsAccounted
  <2>7. QED
    BY <2>3, <2>4, <2>5, <2>6
<1>6. CASE PollConfirm
  <2>1. /\ pc = "confirm" /\ pc' = "rename" /\ picked \in pending /\ picked \in Files
        /\ picked.topic \in Topics
        /\ autoConfirms' = [autoConfirms EXCEPT ![picked.topic] = @ + 1]
        /\ UNCHANGED <<pending, picked, countVars>>
    BY <1>6, <1>0, FileFacts DEF PollConfirm, PickedStaysPut
  <2>2. TypeOK'
    BY <1>6, <2>1 DEF PollConfirm, TypeOK, countVars
  <2>3. HoldsInv' /\ OneNamePerTopic' /\ PickedStaysPut' /\ RoundsInv'
    BY <2>1 DEF HoldsInv, OneNamePerTopic, PickedStaysPut, RoundsInv, countVars
  <2>4. /\ autoConfirms'[picked.topic] = autoConfirms[picked.topic] + 1
        /\ \A t \in Topics \ {picked.topic} : autoConfirms'[t] = autoConfirms[t]
    BY <2>1 DEF TypeOK
  <2>5. FreshInv'
    BY <2>1, <2>4 DEF FreshInv, countVars
  <2>6. AutoConfirmsAccounted'
    <3> SUFFICES ASSUME NEW f \in pending
                 PROVE  autoConfirms'[f.topic] = f.depth + interrupted[f.topic]
                          + (IF picked.topic = f.topic THEN 1 ELSE 0)
      BY <2>1 DEF AutoConfirmsAccounted, countVars
    <3>1. f.topic \in Topics /\ f.depth \in Nat /\ interrupted[f.topic] \in Nat
      BY <1>0, FileFacts DEF TypeOK
    <3>2. autoConfirms[f.topic] = f.depth + interrupted[f.topic]
      BY <2>1, <3>1 DEF AutoConfirmsAccounted
    <3>3. QED
      BY <2>4, <3>1, <3>2
  <2>7. QED
    BY <2>2, <2>3, <2>5, <2>6
<1>7. CASE PollRename
  <2>1. /\ pc = "rename" /\ pc' = "audit" /\ picked \in pending /\ picked \in Files
        /\ pending' = (pending \ {picked}) \union {Later(picked)}
        /\ UNCHANGED <<picked, autoConfirms, countVars>>
    BY <1>7, <1>0 DEF PollRename, PickedStaysPut
  <2>2. picked.depth + 1 <= rounds /\ picked.depth + 1 <= MaxRounds
    BY <2>1, <1>0, FileFacts DEF RoundsInv
  <2>3. /\ Later(picked) \in Files /\ Later(picked).topic = picked.topic
        /\ Later(picked).depth = picked.depth + 1 /\ Later(picked) # picked
    BY <2>1, <2>2, LaterFacts
  <2>4. TypeOK'
    BY <1>7, <2>1, <2>3, <1>0 DEF PollRename, TypeOK, queueVars, countVars
  <2>5. \A f \in pending \ {picked} : f.topic # picked.topic
    BY <2>1 DEF OneNamePerTopic
  <2>6. HoldsInv' /\ PickedStaysPut'
    BY <2>1 DEF HoldsInv, PickedStaysPut
  <2>7. OneNamePerTopic'
    BY <2>1, <2>3, <2>5 DEF OneNamePerTopic
  <2>8. FreshInv'
    BY <2>1, <2>3 DEF FreshInv, countVars
  <2>9. RoundsInv'
    BY <2>1, <2>2, <2>3, <1>0, FileFacts DEF RoundsInv, countVars
  <2>10. AutoConfirmsAccounted'
    <3>1. autoConfirms[picked.topic] = picked.depth + interrupted[picked.topic] + 1
      BY <2>1 DEF AutoConfirmsAccounted
    <3>2. interrupted[picked.topic] \in Nat /\ picked.depth \in Nat
      BY <2>1, FileFacts DEF TypeOK
    <3>3. \A f \in pending \ {picked} : autoConfirms[f.topic] = f.depth + interrupted[f.topic]
      <4> SUFFICES ASSUME NEW f \in pending \ {picked}
                   PROVE  autoConfirms[f.topic] = f.depth + interrupted[f.topic]
        OBVIOUS
      <4>1. f.depth \in Nat /\ interrupted[f.topic] \in Nat
        BY <1>0, FileFacts DEF TypeOK
      <4>2. QED
        BY <2>5, <4>1 DEF AutoConfirmsAccounted
    <3>4. \A f \in pending \ {picked} : f.depth \in Nat /\ interrupted[f.topic] \in Nat
      BY <1>0, FileFacts DEF TypeOK
    <3>5. QED
      BY <2>1, <2>3, <3>1, <3>2, <3>3, <3>4 DEF AutoConfirmsAccounted, countVars
  <2>11. QED
    BY <2>4, <2>6, <2>7, <2>8, <2>9, <2>10
<1>8. CASE PollAudit
  <2>1. pc = "audit" /\ pc' = "idle" /\ UNCHANGED <<pending, autoConfirms, countVars>>
    BY <1>8 DEF PollAudit
  <2>2. TypeOK'
    BY <1>8 DEF PollAudit, TypeOK, queueVars, countVars
  <2>3. HoldsInv' /\ OneNamePerTopic' /\ PickedStaysPut' /\ FreshInv' /\ RoundsInv'
    BY <2>1 DEF HoldsInv, OneNamePerTopic, PickedStaysPut, FreshInv, RoundsInv, countVars
  <2>4. AutoConfirmsAccounted'
    BY <2>1 DEF AutoConfirmsAccounted, countVars
  <2>5. QED
    BY <2>2, <2>3, <2>4
<1>9. ASSUME NEW a \in Files, ScanConfirm(a)
      PROVE  IInv'
  BY <1>9, ElsewhereKeeps DEF ScanConfirm, TypeOK, pollerVars, countVars
<1>10. ASSUME NEW a \in Files, RouterRuns(a)
       PROVE  IInv'
  <2>1. written' \subseteq Topics
    BY <1>10, <1>0, FileFacts DEF RouterRuns, TypeOK
  <2>2. TypeOK'
    BY <1>10, <2>1 DEF RouterRuns, TypeOK, pollerVars, countVars
  <2>3. QED
    BY <1>10, <2>2, ElsewhereKeeps DEF RouterRuns
<1>11. ASSUME Interrupt, asking' \in [Users -> Files \union {NoFile}]
       PROVE  IInv'
  <2>1. /\ pc' = "idle" /\ UNCHANGED <<pending, autoConfirms, rounds>>
        /\ pc # "rename" => interrupted' = interrupted
        /\ pc = "rename" => interrupted' = [interrupted EXCEPT ![picked.topic] = @ + 1]
    BY <1>11 DEF Interrupt
  <2>2. pc = "rename" => picked \in pending /\ picked.topic \in Topics
    BY <1>0, FileFacts DEF PickedStaysPut
  <2>3. interrupted' \in [Topics -> Nat]
    BY <2>1, <2>2 DEF TypeOK
  <2>4. faults' \in 0 .. MaxFaults
    BY <1>11, BoundsAssumption DEF Interrupt, TypeOK
  <2>5. TypeOK'
    BY <1>11, <2>3, <2>4 DEF Interrupt, TypeOK, queueVars
  <2>6. HoldsInv' /\ OneNamePerTopic' /\ PickedStaysPut'
    BY <2>1 DEF HoldsInv, OneNamePerTopic, PickedStaysPut
  <2>7. RoundsInv'
    BY <2>1, <1>0, FileFacts DEF RoundsInv
  <2>8. FreshInv'
    BY <2>1, <2>2 DEF FreshInv, TypeOK
  <2>9. AutoConfirmsAccounted'
    <3> SUFFICES ASSUME NEW f \in pending
                 PROVE  autoConfirms[f.topic] = f.depth + interrupted'[f.topic] + 0
      BY <2>1 DEF AutoConfirmsAccounted
    <3>1. f.topic \in Topics /\ f.depth \in Nat /\ interrupted[f.topic] \in Nat
      BY <1>0, FileFacts DEF TypeOK
    <3>2. autoConfirms[f.topic] = f.depth + interrupted[f.topic]
                                  + (IF pc = "rename" /\ picked.topic = f.topic THEN 1 ELSE 0)
      BY DEF AutoConfirmsAccounted
    <3>3. interrupted'[f.topic] = interrupted[f.topic]
                                  + (IF pc = "rename" /\ picked.topic = f.topic THEN 1 ELSE 0)
      BY <2>1, <2>2, <3>1 DEF TypeOK
    <3>4. QED
      BY <3>1, <3>2, <3>3
  <2>10. QED
    BY <2>5, <2>6, <2>7, <2>8, <2>9
<1>12. CASE PollRaises
  BY <1>11, <1>12 DEF PollRaises, TypeOK
<1>13. CASE Crash
  BY <1>11, <1>13 DEF Crash
<1>14. CASE UNCHANGED vars
  BY <1>14, ElsewhereKeeps DEF vars, TypeOK, queueVars, pollerVars, countVars
<1>15. QED
  BY <1>1, <1>2, <1>3, <1>4, <1>5, <1>6, <1>7, <1>8, <1>9, <1>10, <1>12, <1>13, <1>14
     DEF Next, Environment, Poll

-----------------------------------------------------------------------------

LEMMA Inductive == Spec => []IInv
BY InitInv, NextInv, PTL DEF Spec

\* Every variable keeps its type; above all, no file is renamed more often than the
\* poller had rounds.
THEOREM TopicTypeCorrect == Spec => []TypeOK
<1>1. IInv => TypeOK
  BY DEF IInv
<1>2. QED
  BY <1>1, Inductive, PTL

\* The name of a topic's file tells how often the poller confirmed it, up to the
\* confirmations that a fault separated from their rename.
THEOREM AutoConfirmsAreCounted == Spec => []AutoConfirmsAccounted
<1>1. IInv => AutoConfirmsAccounted
  BY DEF IInv
<1>2. QED
  BY <1>1, Inductive, PTL

\* The file the poller picked is still there when it confirms and renames it.
THEOREM PickedIsThere == Spec => []PickedStaysPut
<1>1. IInv => PickedStaysPut
  BY DEF IInv
<1>2. QED
  BY <1>1, Inductive, PTL

-----------------------------------------------------------------------------
(* Confirmations and names *)

\* The file has this name or had it once.
Named(a) == \E f \in pending : f.topic = a.topic /\ a.depth <= f.depth

NamedInv ==
    /\ \A a \in confirms \union routers : Named(a)
    /\ \A u \in Users : asking[u] # NoFile => Named(asking[u])

LEMMA NamesStay ==
    ASSUME IInv, [Next]_vars, NEW a \in Files, Named(a)
    PROVE  Named(a)'
<1>1. PICK f \in pending : f.topic = a.topic /\ a.depth <= f.depth
  BY DEF Named
<1>2. CASE pending \subseteq pending'
  BY <1>1, <1>2 DEF Named
<1>3. CASE PollRename
  <2>1. /\ picked \in pending /\ picked \in Files /\ f \in Files
        /\ pending' = (pending \ {picked}) \union {Later(picked)}
        /\ picked.depth + 1 <= rounds /\ rounds \in Nat /\ rounds <= MaxRounds
    BY <1>3, BoundsAssumption DEF PollRename, IInv, TypeOK, PickedStaysPut, RoundsInv
  <2>2. picked.depth + 1 <= MaxRounds
    BY <2>1, FileFacts, BoundsAssumption
  <2>3. Later(picked).topic = picked.topic /\ Later(picked).depth = picked.depth + 1
    BY <2>1, <2>2, LaterFacts
  <2>4. a.depth \in Nat /\ picked.depth \in Nat
    BY <2>1, FileFacts
  <2>5. CASE f = picked
    BY <1>1, <2>1, <2>3, <2>4, <2>5 DEF Named
  <2>6. CASE f # picked
    BY <1>1, <2>1, <2>6 DEF Named
  <2>7. QED
    BY <2>5, <2>6
<1>4. CASE ~PollRename
  <2>1. pending \subseteq pending'
    BY <1>4 DEF Next, Environment, Poll, WriteTopic, Expire, ConfirmWrite, ConfirmCheck, PollPick,
       PollConfirm, PollAudit, ScanConfirm, RouterRuns, PollRaises, Crash, Interrupt, vars
  <2>2. QED
    BY <1>2, <2>1
<1>5. QED
  BY <1>3, <1>4

LEMMA NamesFollow ==
    ASSUME IInv, NamedInv, [Next]_vars
    PROVE  NamedInv'
<1>1. /\ confirms \subseteq Files /\ routers \subseteq Files /\ pending \subseteq Files
      /\ \A u \in Users : asking[u] \in Files \union {NoFile}
  BY DEF IInv, TypeOK
<1>2. \A f \in pending : Named(f)
  BY <1>1, FileFacts DEF Named
<1>3. \A a \in (confirms \union routers)' :
          a \in confirms \union routers \/ a \in pending \/ \E u \in Users : a = asking[u] /\ a # NoFile
  BY DEF Next, Environment, Poll, WriteTopic, Expire, ConfirmWrite, ConfirmCheck, PollPick,
     PollConfirm, PollRename, PollAudit, ScanConfirm, RouterRuns, PollRaises, Crash, Interrupt, vars,
     queueVars, IInv, PickedStaysPut
<1>4. \A u \in Users : asking'[u] \in {asking[u], NoFile} \union pending
  BY DEF Next, Environment, Poll, WriteTopic, Expire, ConfirmWrite, ConfirmCheck, PollPick,
     PollConfirm, PollRename, PollAudit, ScanConfirm, RouterRuns, PollRaises, Crash, Interrupt, vars,
     IInv, TypeOK
<1>5. \A a \in (confirms \union routers)' : Named(a) /\ a \in Files
  BY <1>1, <1>2, <1>3 DEF NamedInv
<1>6. \A u \in Users : asking'[u] # NoFile => Named(asking'[u]) /\ asking'[u] \in Files
  BY <1>1, <1>2, <1>4 DEF NamedInv
<1>7. \A a \in Files : Named(a) => Named(a)'
  BY NamesStay
<1>8. \A a \in (confirms \union routers)' : Named(a)'
  BY <1>5, <1>7
<1>9. \A u \in Users : asking'[u] # NoFile => \E f \in pending' :
          f.topic = asking'[u].topic /\ asking'[u].depth <= f.depth
  BY <1>6, <1>7 DEF Named
<1>10. QED
  BY <1>8, <1>9 DEF NamedInv, Named

\* No step of the poller, the users, the scanner or the routers, and no interruption,
\* loses or doubles the file of a topic, or gives it an earlier name again.
THEOREM TopicFilesAreKept == Spec => TopicsAreKept
<1>1. ASSUME IInv, [Next]_vars
      PROVE  /\ OneNamePerTopic'
             /\ \A f \in pending : \E g \in pending' : g.topic = f.topic /\ f.depth <= g.depth
  <2>1. OneNamePerTopic'
    BY <1>1, NextInv DEF IInv
  <2>2. \A f \in pending : f \in Files /\ Named(f)
    BY <1>1, FileFacts DEF IInv, TypeOK, Named
  <2>3. \A f \in pending : Named(f)'
    BY <1>1, <2>2, NamesStay
  <2>4. \A f \in pending : \E g \in pending' : g.topic = f.topic /\ f.depth <= g.depth
    BY <2>3 DEF Named
  <2>5. QED
    BY <2>1, <2>4
<1>2. QED
  BY <1>1, Inductive, PTL DEF Spec, TopicsAreKept

\* No confirmation names a file by a name it has not had yet, for any number of users,
\* rounds and faults.
THEOREM ConfirmsFollow == Spec => []ConfirmsAreNotAhead
<1>1. Init => NamedInv
  BY DEF Init, NamedInv
<1>2. IInv /\ NamedInv /\ [Next]_vars => NamedInv'
  BY NamesFollow
<1>3. NamedInv => ConfirmsAreNotAhead
  BY DEF NamedInv, Named, ConfirmsAreNotAhead
<1>4. QED
  BY <1>1, <1>2, <1>3, Inductive, PTL DEF Spec

=============================================================================
