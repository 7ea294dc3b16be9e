------------------------- MODULE ActionQueue_proofs -------------------------
(* Theorems about ActionQueue, for every value of its constants. *)
EXTENDS ActionQueue, TLAPS

\* The constants a proof needs to know about, in one place.
LEMMA ConstantFacts ==
    /\ NoFile \notin Files
    /\ MaxClock \in Nat
    /\ MaxRequests \in Nat
    /\ MaxFaults \in Nat
BY NoFileAssumption, BoundsAssumption

\* Writing at the current second gives a well-formed file name.
LEMMA FileNameTyped ==
    ASSUME NEW k \in Kinds, NEW t \in Targets, NEW s \in Seconds
    PROVE  [action |-> k, target |-> t, stamp |-> s] \in Files
BY DEF Files

LEMMA RestampTyped ==
    ASSUME NEW f \in Files, NEW s \in Seconds
    PROVE  [f EXCEPT !.stamp = s] \in Files
BY DEF Files

-----------------------------------------------------------------------------
(* Type correctness *)

\* The types of the variables, together with SourceStaysPut: the file being
\* handled is a real file, which the types of the history functions rest on.
Typed == TypeOK /\ SourceStaysPut

LEMMA InitTyped == Init => Typed
BY ConstantFacts DEF Init, Typed, TypeOK, SourceStaysPut, Seconds

LEMMA NextTyped == Typed /\ [Next]_vars => Typed'
<1> SUFFICES ASSUME Typed, [Next]_vars
             PROVE  Typed'
  OBVIOUS
<1> USE ConstantFacts
<1>1. CASE Tick
  BY <1>1 DEF Tick, Typed, TypeOK, SourceStaysPut, Seconds, clientVars, dirVars,
    scannerVars, historyVars, requestVars
<1>2. ASSUME NEW c \in Clients, NEW k \in Kinds, NEW t \in Targets, BeginWrite(c, k, t)
      PROVE  Typed'
  <2>1. [action |-> k, target |-> t, stamp |-> clock] \in Files
    BY <1>2, FileNameTyped DEF Typed, TypeOK
  <2>2. requests' \in 0 .. MaxRequests
    BY <1>2 DEF BeginWrite, Typed, TypeOK
  <2>3. QED
    BY <1>2, <2>1, <2>2 DEF BeginWrite, Typed, TypeOK, SourceStaysPut, dirVars,
      scannerVars, historyVars, requestVars
<1>3. ASSUME NEW c \in Clients, FinishWrite(c)
      PROVE  Typed'
  <2>1. writing[c] \in Files
    BY <1>3 DEF FinishWrite, Typed, TypeOK
  <2>2. QED
    BY <1>3, <2>1 DEF FinishWrite, Publish, Request, Typed, TypeOK, SourceStaysPut,
      scannerVars
<1>4. ASSUME NEW c \in Clients, AbandonWrite(c)
      PROVE  Typed'
  BY <1>4 DEF AbandonWrite, Typed, TypeOK, SourceStaysPut, dirVars, scannerVars,
    historyVars, requestVars
<1>5. ASSUME NEW f \in Files, DropMalformed(f)
      PROVE  Typed'
  <2>1. requests' \in 0 .. MaxRequests
    BY <1>5 DEF DropMalformed, Typed, TypeOK
  <2>2. QED
    BY <1>5, <2>1 DEF DropMalformed, Request, Typed, TypeOK, SourceStaysPut, scannerVars
<1>6. CASE ScanActions
  BY <1>6 DEF ScanActions, Typed, TypeOK, SourceStaysPut, clientVars, historyVars,
    requestVars
<1>7. CASE EndScan
  BY <1>7 DEF EndScan, Typed, TypeOK, SourceStaysPut, clientVars, dirVars, historyVars,
    requestVars
<1>8. ASSUME NEW f \in Files, TakeNext(f)
      PROVE  Typed'
  <2>1. [f EXCEPT !.stamp = clock] \in Files
    BY RestampTyped DEF Typed, TypeOK
  <2>2. CASE f.action = "confirm"
    BY <1>8, <2>1, <2>2 DEF TakeNext, Publish, Request, Typed, TypeOK, SourceStaysPut,
      clientVars
  <2>3. CASE f.action # "confirm"
    BY <1>8, <2>3 DEF TakeNext, requestVars, Typed, TypeOK, SourceStaysPut, clientVars
  <2>4. QED
    BY <2>2, <2>3
<1>9. CASE DispatchOk
  BY <1>9 DEF DispatchOk, Answer, Typed, TypeOK, SourceStaysPut, clientVars, dirVars
<1>10. CASE DispatchFails
  BY <1>10 DEF DispatchFails, Typed, TypeOK, SourceStaysPut, clientVars, dirVars,
    historyVars, requestVars
<1>11. CASE MarkProcessed
  BY <1>11 DEF MarkProcessed, LeaveQueue, Typed, TypeOK, SourceStaysPut, clientVars,
    historyVars, requestVars
<1>12. CASE MoveToFailed
  BY <1>12 DEF MoveToFailed, LeaveQueue, Answer, Typed, TypeOK, SourceStaysPut,
    clientVars,
    historyVars, requestVars
<1>13. CASE AbortScan
  <2>1. faults' \in 0 .. MaxFaults
    BY <1>13 DEF AbortScan, Typed, TypeOK
  <2>2. QED
    BY <1>13, <2>1 DEF AbortScan, requestVars, Typed, TypeOK, SourceStaysPut,
      clientVars, dirVars
<1>14. CASE UNCHANGED vars
  BY <1>14 DEF vars, Typed, TypeOK, SourceStaysPut, clientVars, dirVars, scannerVars,
    historyVars, requestVars
<1>15. QED
  BY <1>1, <1>2, <1>3, <1>4, <1>5, <1>6, <1>7, <1>8, <1>9, <1>10, <1>11, <1>12,
    <1>13, <1>14 DEF Next, Write, Scan

LEMMA AlwaysTyped == Spec => []Typed
BY InitTyped, NextTyped, PTL DEF Spec

\* Every reachable state has the declared types.
THEOREM TypeCorrect == Spec => []TypeOK
<1>1. Typed => TypeOK
  BY DEF Typed
<1>2. QED
  BY <1>1, AlwaysTyped, PTL

\* The file being handled is in queue/actions/ until the scanner renames it:
\* no client and no other file of the scan takes it away.
THEOREM SourcePresent == Spec => []SourceStaysPut
<1>1. Typed => SourceStaysPut
  BY DEF Typed
<1>2. QED
  BY <1>1, AlwaysTyped, PTL

-----------------------------------------------------------------------------
(* No request is lost *)

\* NoRequestLost is not inductive.  MarkProcessed takes a file out of the directory
\* because a handler was started for it earlier, and what was asked for in between
\* is on record: the step that lies between is remembered by the scanner's position.
RetiredWasLaunched ==
    pc = "retire" => launches[cur] > 0 /\ (cur \in unanswered => cur \in overtaken)

DeliveryInv == Typed /\ NoRequestLost /\ RetiredWasLaunched

LEMMA InitDelivery == Init => DeliveryInv
BY InitTyped DEF Init, DeliveryInv, NoRequestLost, RetiredWasLaunched

LEMMA NextDelivery == DeliveryInv /\ [Next]_vars => DeliveryInv'
<1> SUFFICES ASSUME DeliveryInv, [Next]_vars
             PROVE  DeliveryInv'
  OBVIOUS
<1> USE DEF DeliveryInv
<1>0. Typed'
  BY NextTyped
<1>1. CASE Tick
  BY <1>0, <1>1 DEF Tick, NoRequestLost, RetiredWasLaunched, dirVars, scannerVars,
    historyVars, requestVars
<1>2. ASSUME NEW c \in Clients, NEW k \in Kinds, NEW t \in Targets, BeginWrite(c, k, t)
      PROVE  DeliveryInv'
  BY <1>0, <1>2 DEF BeginWrite, NoRequestLost, RetiredWasLaunched, dirVars, scannerVars,
    historyVars, requestVars
<1>3. ASSUME NEW c \in Clients, FinishWrite(c)
      PROVE  DeliveryInv'
  BY <1>0, <1>3 DEF FinishWrite, Publish, Request, NoRequestLost, RetiredWasLaunched,
    scannerVars,
    Typed, TypeOK
<1>4. ASSUME NEW c \in Clients, AbandonWrite(c)
      PROVE  DeliveryInv'
  BY <1>0, <1>4 DEF AbandonWrite, NoRequestLost, RetiredWasLaunched, dirVars,
    scannerVars, historyVars, requestVars
<1>5. ASSUME NEW f \in Files, DropMalformed(f)
      PROVE  DeliveryInv'
  BY <1>0, <1>5 DEF DropMalformed, Request, NoRequestLost, RetiredWasLaunched,
    scannerVars, Typed, TypeOK
<1>6. CASE ScanActions
  BY <1>0, <1>6 DEF ScanActions, NoRequestLost, RetiredWasLaunched, historyVars,
    requestVars
<1>7. CASE EndScan
  BY <1>0, <1>7 DEF EndScan, NoRequestLost, RetiredWasLaunched, dirVars, historyVars,
    requestVars
<1>8. ASSUME NEW f \in Files, TakeNext(f)
      PROVE  DeliveryInv'
  <2>1. [f EXCEPT !.stamp = clock] \in Files
    BY RestampTyped DEF Typed, TypeOK
  <2>2. CASE f.action = "confirm"
    <3>1. f \in actions /\ pc = "next" /\ pc' = "dispatch"
      BY <1>8 DEF TakeNext, Typed, SourceStaysPut
    <3>2. Publish([f EXCEPT !.stamp = clock])
      BY <1>8, <2>2, <3>1 DEF TakeNext
    <3>3. ASSUME NEW g, Publish(g)
          PROVE  unanswered' \subseteq actions' \union overtaken'
      BY <3>1, <3>3 DEF Publish, Request, NoRequestLost
    <3>4. QED
      BY <1>0, <3>1, <3>2, <3>3 DEF NoRequestLost, RetiredWasLaunched
  <2>3. CASE f.action # "confirm"
    BY <1>0, <1>8, <2>3 DEF TakeNext, requestVars, NoRequestLost, RetiredWasLaunched
  <2>4. QED
    BY <2>2, <2>3
<1>9. CASE DispatchOk
  BY <1>0, <1>9 DEF DispatchOk, Answer, NoRequestLost, RetiredWasLaunched, dirVars,
    Typed,
    TypeOK, SourceStaysPut
<1>10. CASE DispatchFails
  BY <1>0, <1>10 DEF DispatchFails, NoRequestLost, RetiredWasLaunched, dirVars,
    historyVars, requestVars
<1>11. CASE MarkProcessed
  BY <1>0, <1>11 DEF MarkProcessed, LeaveQueue, NoRequestLost, RetiredWasLaunched,
    historyVars, requestVars
<1>12. CASE MoveToFailed
  BY <1>0, <1>12 DEF MoveToFailed, LeaveQueue, Answer, NoRequestLost,
    RetiredWasLaunched,
    historyVars, requestVars
<1>13. CASE AbortScan
  BY <1>0, <1>13 DEF AbortScan, requestVars, NoRequestLost, RetiredWasLaunched, dirVars
<1>14. CASE UNCHANGED vars
  BY <1>0, <1>14 DEF vars, NoRequestLost, RetiredWasLaunched, dirVars, scannerVars,
    historyVars, requestVars
<1>15. QED
  BY <1>1, <1>2, <1>3, <1>4, <1>5, <1>6, <1>7, <1>8, <1>9, <1>10, <1>11, <1>12,
    <1>13, <1>14 DEF Next, Write, Scan

LEMMA AlwaysDelivery == Spec => []DeliveryInv
BY InitDelivery, NextDelivery, PTL DEF Spec

\* Every request is queued until a handler was started, or its file set aside, after
\* it was written, whatever scans, exceptions and restarts come between; excepted
\* is a request that replaces its namesake between the start of the namesake's
\* handler and the rename of its file.
THEOREM RequestsAreKept == Spec => []NoRequestLost
<1>1. DeliveryInv => NoRequestLost
  BY DEF DeliveryInv
<1>2. QED
  BY <1>1, AlwaysDelivery, PTL

-----------------------------------------------------------------------------
(* Handlers are not started twice without a reason *)

\* A queued file still has one launch coming to it, unless it was launched
\* already and waits to be renamed.
Owed(f) == IF f \in actions /\ ~(pc = "retire" /\ cur = f) THEN 1 ELSE 0

\* What LaunchesBounded is strengthened to: launches made and launches owed.
LaunchBudget == \A f \in Files : launches[f] + Owed(f) <= writes[f] + faults

LaunchInv == Typed /\ LaunchBudget

LEMMA InitLaunch == Init => LaunchInv
BY InitTyped DEF Init, LaunchInv, LaunchBudget, Owed

LEMMA NextLaunch == LaunchInv /\ [Next]_vars => LaunchInv'
<1> SUFFICES ASSUME LaunchInv, [Next]_vars
             PROVE  LaunchInv'
  OBVIOUS
<1>0. Typed /\ Typed' /\ LaunchBudget
  BY NextTyped DEF LaunchInv
<1> SUFFICES ASSUME NEW f \in Files
             PROVE  launches'[f] + Owed(f)' <= writes'[f] + faults'
  BY <1>0 DEF LaunchInv, LaunchBudget
<1>a. /\ launches[f] \in Nat /\ writes[f] \in Nat /\ faults \in Nat
      /\ Owed(f) \in {0, 1} /\ Owed(f)' \in {0, 1}
      /\ launches[f] + Owed(f) <= writes[f] + faults
  BY <1>0, ConstantFacts DEF Typed, TypeOK, Owed, LaunchBudget
<1>b. ASSUME launches'[f] = launches[f], writes'[f] = writes[f], faults' = faults,
             Owed(f)' <= Owed(f)
      PROVE  launches'[f] + Owed(f)' <= writes'[f] + faults'
  BY <1>a, <1>b
<1>1. CASE Tick
  <2>1. Owed(f)' = Owed(f)
    BY <1>1 DEF Tick, Owed, dirVars, scannerVars
  <2>2. QED
    BY <1>1, <1>a, <1>b, <2>1 DEF Tick, historyVars
<1>2. ASSUME NEW c \in Clients, NEW k \in Kinds, NEW t \in Targets, BeginWrite(c, k, t)
      PROVE  launches'[f] + Owed(f)' <= writes'[f] + faults'
  <2>1. Owed(f)' = Owed(f)
    BY <1>2 DEF BeginWrite, Owed, dirVars, scannerVars
  <2>2. QED
    BY <1>2, <1>a, <1>b, <2>1 DEF BeginWrite, historyVars
<1>3. ASSUME NEW c \in Clients, FinishWrite(c)
      PROVE  launches'[f] + Owed(f)' <= writes'[f] + faults'
  <2>1. writing[c] \in Files
    BY <1>0, <1>3 DEF FinishWrite, Typed, TypeOK
  <2>2. launches' = launches /\ faults' = faults
    BY <1>3 DEF FinishWrite
  <2>3. CASE f = writing[c]
    <3>1. writes'[f] = writes[f] + 1
      BY <1>0, <1>3, <2>1, <2>3 DEF FinishWrite, Publish, Request, Typed, TypeOK
    <3>2. QED
      BY <1>a, <2>2, <3>1
  <2>4. CASE f # writing[c]
    <3>1. writes'[f] = writes[f]
      BY <1>0, <1>3, <2>1, <2>4 DEF FinishWrite, Publish, Request, Typed, TypeOK
    <3>2. Owed(f)' = Owed(f)
      BY <1>3, <2>4 DEF FinishWrite, Publish, Request, Owed, scannerVars
    <3>3. QED
      BY <1>a, <2>2, <3>1, <3>2
  <2>5. QED
    BY <2>3, <2>4
<1>4. ASSUME NEW c \in Clients, AbandonWrite(c)
      PROVE  launches'[f] + Owed(f)' <= writes'[f] + faults'
  <2>1. Owed(f)' = Owed(f)
    BY <1>4 DEF AbandonWrite, Owed, dirVars, scannerVars
  <2>2. QED
    BY <1>4, <1>a, <1>b, <2>1 DEF AbandonWrite, historyVars
<1>5. ASSUME NEW g \in Files, DropMalformed(g)
      PROVE  launches'[f] + Owed(f)' <= writes'[f] + faults'
  <2>1. launches' = launches /\ faults' = faults
    BY <1>5 DEF DropMalformed
  <2>2. CASE f = g
    <3>1. writes'[f] = writes[f] + 1
      BY <1>0, <1>5, <2>2 DEF DropMalformed, Request, Typed, TypeOK
    <3>2. QED
      BY <1>a, <2>1, <3>1
  <2>3. CASE f # g
    <3>1. writes'[f] = writes[f]
      BY <1>0, <1>5, <2>3 DEF DropMalformed, Request, Typed, TypeOK
    <3>2. Owed(f)' = Owed(f)
      BY <1>5, <2>3 DEF DropMalformed, Owed, scannerVars
    <3>3. QED
      BY <1>a, <2>1, <3>1, <3>2
  <2>4. QED
    BY <2>2, <2>3
<1>6. CASE ScanActions
  <2>1. Owed(f)' <= Owed(f)
    BY <1>6 DEF ScanActions, Owed
  <2>2. QED
    BY <1>6, <1>a, <1>b, <2>1 DEF ScanActions, historyVars
<1>7. CASE EndScan
  <2>1. Owed(f)' = Owed(f)
    BY <1>7 DEF EndScan, Owed, dirVars
  <2>2. QED
    BY <1>7, <1>a, <1>b, <2>1 DEF EndScan, historyVars
<1>8. ASSUME NEW g \in Files, TakeNext(g)
      PROVE  launches'[f] + Owed(f)' <= writes'[f] + faults'
  <2>1. [g EXCEPT !.stamp = clock] \in Files
    BY <1>0, RestampTyped DEF Typed, TypeOK
  <2>2. launches' = launches /\ faults' = faults
    BY <1>8 DEF TakeNext
  <2>3. CASE g.action = "confirm" /\ f = [g EXCEPT !.stamp = clock]
    <3>1. writes'[f] = writes[f] + 1
      BY <1>0, <1>8, <2>1, <2>3 DEF TakeNext, Publish, Request, Typed, TypeOK,
        SourceStaysPut
    <3>2. QED
      BY <1>a, <2>2, <3>1
  <2>4. CASE ~(g.action = "confirm" /\ f = [g EXCEPT !.stamp = clock])
    <3>1. writes'[f] = writes[f]
      BY <1>0, <1>8, <2>1, <2>4 DEF TakeNext, Publish, Request, Typed, TypeOK
    <3>2. Owed(f)' = Owed(f)
      BY <1>8, <2>1, <2>4 DEF TakeNext, Publish, Request, Owed
    <3>3. QED
      BY <1>a, <2>2, <3>1, <3>2
  <2>5. QED
    BY <2>3, <2>4
<1>9. CASE DispatchOk
  <2>1. /\ cur \in Files
        /\ cur \in actions
    BY <1>0, <1>9 DEF DispatchOk, Typed, TypeOK, SourceStaysPut
  <2>2. writes' = writes /\ faults' = faults
    BY <1>9 DEF DispatchOk
  <2>3. CASE f = cur
    <3>1. launches'[f] = launches[f] + 1
      BY <1>0, <1>9, <2>1, <2>3 DEF DispatchOk, Typed, TypeOK
    <3>2. Owed(f) = 1 /\ Owed(f)' = 0
      BY <1>9, <2>1, <2>3 DEF DispatchOk, Owed, dirVars
    <3>3. QED
      BY <1>a, <2>2, <3>1, <3>2
  <2>4. CASE f # cur
    <3>1. launches'[f] = launches[f]
      BY <1>0, <1>9, <2>1, <2>4 DEF DispatchOk, Typed, TypeOK
    <3>2. Owed(f)' = Owed(f)
      BY <1>9, <2>4 DEF DispatchOk, Owed, dirVars
    <3>3. QED
      BY <1>a, <2>2, <3>1, <3>2
  <2>5. QED
    BY <2>3, <2>4
<1>10. CASE DispatchFails
  <2>1. Owed(f)' = Owed(f)
    BY <1>10 DEF DispatchFails, Owed, dirVars
  <2>2. QED
    BY <1>10, <1>a, <1>b, <2>1 DEF DispatchFails, historyVars
<1>11. CASE MarkProcessed
  <2>1. Owed(f)' <= Owed(f)
    BY <1>11 DEF MarkProcessed, LeaveQueue, Owed
  <2>2. QED
    BY <1>11, <1>a, <1>b, <2>1 DEF MarkProcessed, historyVars
<1>12. CASE MoveToFailed
  <2>1. Owed(f)' <= Owed(f)
    BY <1>12 DEF MoveToFailed, LeaveQueue, Owed
  <2>2. QED
    BY <1>12, <1>a, <1>b, <2>1 DEF MoveToFailed, historyVars
<1>13. CASE AbortScan
  <2>1. launches' = launches /\ writes' = writes /\ faults' = faults + 1
    BY <1>13 DEF AbortScan
  <2>2. QED
    BY <1>a, <2>1
<1>14. CASE UNCHANGED vars
  <2>1. Owed(f)' = Owed(f)
    BY <1>14 DEF vars, Owed, dirVars, scannerVars
  <2>2. QED
    BY <1>14, <1>a, <1>b, <2>1 DEF vars, historyVars
<1>15. QED
  BY <1>1, <1>2, <1>3, <1>4, <1>5, <1>6, <1>7, <1>8, <1>9, <1>10, <1>11, <1>12,
    <1>13, <1>14 DEF Next, Write, Scan

LEMMA AlwaysLaunch == Spec => []LaunchInv
BY InitLaunch, NextLaunch, PTL DEF Spec

\* A file is launched once for each time it was written, plus at most once for
\* each scan that was cut short: only a crash or an exception makes a duplicate.
THEOREM LaunchesAreBounded == Spec => []LaunchesBounded
<1>1. LaunchInv => LaunchesBounded
  <2> SUFFICES ASSUME LaunchInv, NEW f \in Files
               PROVE  launches[f] <= writes[f] + faults
    BY DEF LaunchesBounded
  <2>1. /\ launches[f] \in Nat /\ writes[f] \in Nat /\ faults \in Nat
        /\ Owed(f) \in {0, 1}
        /\ launches[f] + Owed(f) <= writes[f] + faults
    BY ConstantFacts DEF LaunchInv, LaunchBudget, Typed, TypeOK, Owed
  <2>2. QED
    BY <2>1
<1>2. QED
  BY <1>1, AlwaysLaunch, PTL

-----------------------------------------------------------------------------
(* The queue keeps the promise of DeliveryQueue *)

\* The files a handler was started for, as DeliveryQueue calls them.
Delivered == {f \in Files : launches[f] > 0}

LEMMA InitRefines == Init => Promise!Init
BY DEF Init, Promise!Init

\* Each step is a step of DeliveryQueue or leaves its four variables alone.
LEMMA NextRefines == DeliveryInv /\ [Next]_vars => [Promise!Next]_(Promise!vars)
<1> SUFFICES ASSUME DeliveryInv, [Next]_vars
             PROVE  Promise!Next \/ UNCHANGED Promise!vars
  OBVIOUS
<1> USE DEF Promise!vars
<1>0. TypeOK /\ SourceStaysPut /\ RetiredWasLaunched
  BY DEF DeliveryInv, Typed
<1>a. ASSUME NEW f \in Files, Publish(f), UNCHANGED <<processed, failed, launches>>
      PROVE  Promise!Next
  BY <1>a DEF Publish, Request, Promise!Next, Promise!Enqueue
<1>1. CASE Tick
  BY <1>1 DEF Tick, dirVars, historyVars
<1>2. ASSUME NEW c \in Clients, NEW k \in Kinds, NEW t \in Targets, BeginWrite(c, k, t)
      PROVE  UNCHANGED Promise!vars
  BY <1>2 DEF BeginWrite, dirVars, historyVars
<1>3. ASSUME NEW c \in Clients, FinishWrite(c)
      PROVE  Promise!Next
  <2>1. writing[c] \in Files
    BY <1>0, <1>3 DEF FinishWrite, TypeOK
  <2>2. QED
    BY <1>3, <1>a, <2>1 DEF FinishWrite
<1>4. ASSUME NEW c \in Clients, AbandonWrite(c)
      PROVE  UNCHANGED Promise!vars
  BY <1>4 DEF AbandonWrite, dirVars, historyVars
<1>5. ASSUME NEW f \in Files, DropMalformed(f)
      PROVE  Promise!Next
  BY <1>5 DEF DropMalformed, Promise!Next, Promise!Enqueue
<1>6. CASE ScanActions
  <2>1. malformed \in SUBSET Files /\ malformed \subseteq actions
    BY <1>0 DEF TypeOK
  <2>2. Promise!Reject(malformed)
    BY <1>6, <2>1 DEF ScanActions, historyVars, Promise!Reject
  <2>3. QED
    BY <2>1, <2>2 DEF Promise!Next
<1>7. CASE EndScan
  BY <1>7 DEF EndScan, dirVars, historyVars
<1>8. ASSUME NEW f \in Files, TakeNext(f)
      PROVE  Promise!Next \/ UNCHANGED Promise!vars
  <2>1. [f EXCEPT !.stamp = clock] \in Files
    BY <1>0, RestampTyped DEF TypeOK
  <2>2. CASE f.action = "confirm"
    BY <1>8, <1>a, <2>1, <2>2 DEF TakeNext
  <2>3. CASE f.action # "confirm"
    BY <1>8, <2>3 DEF TakeNext
  <2>4. QED
    BY <2>2, <2>3
<1>9. CASE DispatchOk
  <2>1. cur \in Files /\ cur \in actions
    BY <1>0, <1>9 DEF DispatchOk, TypeOK, SourceStaysPut
  <2>2. Delivered' = Delivered \union {cur}
    BY <1>0, <1>9, <2>1 DEF DispatchOk, TypeOK, Delivered
  <2>3. Promise!Deliver(cur)
    BY <1>9, <2>1, <2>2 DEF DispatchOk, dirVars, Promise!Deliver, Delivered
  <2>4. QED
    BY <2>1, <2>3 DEF Promise!Next, Promise!Deliver
<1>10. CASE DispatchFails
  BY <1>10 DEF DispatchFails, dirVars, historyVars
<1>11. CASE MarkProcessed
  <2>1. cur \in Files /\ cur \in actions /\ launches[cur] > 0
    BY <1>0, <1>11 DEF MarkProcessed, TypeOK, SourceStaysPut, RetiredWasLaunched
  <2>2. Promise!Retire(cur)
    BY <1>11, <2>1 DEF MarkProcessed, LeaveQueue, historyVars, Promise!Retire
  <2>3. QED
    BY <2>1, <2>2 DEF Promise!Next
<1>12. CASE MoveToFailed
  <2>1. cur \in Files /\ cur \in actions
    BY <1>0, <1>12 DEF MoveToFailed, TypeOK, SourceStaysPut
  <2>2. Promise!Reject({cur})
    BY <1>12, <2>1 DEF MoveToFailed, LeaveQueue, historyVars, Promise!Reject
  <2>3. {cur} \in SUBSET Files
    BY <2>1
  <2>4. QED
    BY <2>2, <2>3 DEF Promise!Next
<1>13. CASE AbortScan
  BY <1>13 DEF AbortScan, dirVars
<1>14. CASE UNCHANGED vars
  BY <1>14 DEF vars, dirVars, historyVars
<1>15. QED
  BY <1>1, <1>2, <1>3, <1>4, <1>5, <1>6, <1>7, <1>8, <1>9, <1>10, <1>11, <1>12,
    <1>13, <1>14 DEF Next, Write, Scan

\* Every behaviour of the scanner and its clients, crashes included, is one of
\* an at-least-once queue.
THEOREM QueueRefines == Spec => ImplementsDeliveryQueue
BY InitRefines, NextRefines, AlwaysDelivery, PTL
   DEF Spec, ImplementsDeliveryQueue, Promise!Spec

=============================================================================
