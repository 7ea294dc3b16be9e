------------------------- MODULE UsageLedger_proofs -------------------------
(* Theorems about LlmClient and UsageLedger, for every value of their constants. *)
EXTENDS UsageLedger, Recency_proofs, FiniteSetTheorems, TLAPS

-----------------------------------------------------------------------------
(* Calls and the table of answers *)

InFlight == {t \in Threads : pc[t] \in {"attempt", "record"}}

CacheTyped ==
    /\ lru \in Seq(Keys) /\ IsInjective(lru) /\ expired \subseteq ToSet(lru)
    /\ count \in [Processes -> {Unknown} \union 1 .. MaxEntries]

CallTyped ==
    /\ pc \in [Threads -> {"idle", "attempt", "record", "put"}]
    /\ key \in [Threads -> Keys]
    /\ cacheable \in [Threads -> BOOLEAN]
    /\ attempt \in [Threads -> Nat] /\ \A t \in Threads : attempt[t] \in DOMAIN ChainOf[key[t]]

ClientTyped ==
    /\ CacheTyped /\ CallTyped
    /\ host \in [Threads -> Processes]
    /\ calls \in 0 .. MaxCalls
    /\ second \in Seconds
    /\ usage \subseteq Names
    /\ recorded \in [Names -> Nat]

\* A call writes its usage once, so that what was written and what may still be is paid for
\* by the calls.
CallsPay == \A n \in Names : recorded[n] + Cardinality(InFlight) <= calls

\* The rows a process may still insert before it begins to evict, as far as it counts.
Slots == {s \in Processes \X (1 .. MaxEntries) : count[s[1]] # Unknown /\ count[s[1]] < s[2]}

\* The rows that are there and those that may be inserted without an eviction.  An insertion
\* takes a slot; a process that begins to count makes at most as many slots as there are rows
\* missing for it to evict, and one that ends takes its slots away.
RowsAndSlots ==
    Len(lru) + Cardinality(Slots) <= Cardinality(Processes) * (MaxEntries - 1) + 1

ClientInv == ClientTyped /\ CallsPay /\ RowsAndSlots

LEMMA ClientConstants ==
    /\ NoKey \in Keys /\ 1 \in DOMAIN ChainOf[NoKey]
    /\ \A k \in Keys : 1 \in DOMAIN ChainOf[k]
    /\ MaxEntries \in Nat \ {0} /\ MaxCalls \in Nat /\ MaxSecond \in Nat
    /\ Cardinality(Processes) \in Nat
    /\ 0 \in Seconds
BY LimitsAssumption, ChainAssumption, FS_CardinalityType DEF NoKey, Seconds

LEMMA SlotsAreFinite ==
    /\ IsFiniteSet(Slots) /\ Cardinality(Slots) \in Nat
    /\ \A S \in SUBSET Slots : IsFiniteSet(S) /\ Cardinality(S) <= Cardinality(Slots)
                               /\ Cardinality(S) \in Nat
<1>1. IsFiniteSet(1 .. MaxEntries)
  BY LimitsAssumption, FS_Interval
<1>2. IsFiniteSet(Processes \X (1 .. MaxEntries))
  BY <1>1, LimitsAssumption, FS_Product
<1>3. IsFiniteSet(Slots)
  BY <1>2, FS_Subset DEF Slots
<1>4. QED
  BY <1>3, FS_Subset, FS_CardinalityType

LEMMA InFlightIsFinite ==
    /\ IsFiniteSet(InFlight) /\ Cardinality(InFlight) \in Nat
    /\ \A S \in SUBSET InFlight : Cardinality(S) <= Cardinality(InFlight) /\ Cardinality(S) \in Nat
<1>1. IsFiniteSet(InFlight)
  BY LimitsAssumption, FS_Subset DEF InFlight
<1>2. QED
  BY <1>1, FS_Subset, FS_CardinalityType

LEMMA OneMoreInFlight ==
    ASSUME NEW t
    PROVE  /\ Cardinality(InFlight \union {t}) <= Cardinality(InFlight) + 1
           /\ Cardinality(InFlight \union {t}) \in Nat
<1> DEFINE begun == InFlight \union {t}
<1>1. /\ IsFiniteSet(begun)
      /\ Cardinality(begun) = Cardinality(InFlight) \/ Cardinality(begun) = Cardinality(InFlight) + 1
  BY InFlightIsFinite, FS_AddElement
<1>2. QED
  BY <1>1, InFlightIsFinite

\* The slots of all processes but one: each has counted a row.
LEMMA OthersSlots ==
    ASSUME ClientTyped, NEW p \in Processes
    PROVE  LET others == {s \in Slots : s[1] # p}
           IN Cardinality(others) <= (Cardinality(Processes) - 1) * (MaxEntries - 1)
<1> DEFINE others == {s \in Slots : s[1] # p}
           room == (Processes \ {p}) \X (2 .. MaxEntries)
<1>1. others \subseteq room
  <2>1. ASSUME NEW s \in others
        PROVE  s \in room
    <3>1. s \in Processes \X (1 .. MaxEntries) /\ s[1] # p /\ count[s[1]] # Unknown /\ count[s[1]] < s[2]
      BY DEF Slots
    <3>2. s[1] \in Processes \ {p} /\ s[2] \in 1 .. MaxEntries /\ s = <<s[1], s[2]>>
      BY <3>1
    <3>3. count[s[1]] \in 1 .. MaxEntries
      BY <3>1, <3>2 DEF ClientTyped, CacheTyped
    <3>4. s[2] \in 2 .. MaxEntries
      BY <3>1, <3>2, <3>3, ClientConstants
    <3>5. QED
      BY <3>2, <3>4
  <2>2. QED
    BY <2>1
<1>2. IsFiniteSet(Processes \ {p}) /\ Cardinality(Processes \ {p}) = Cardinality(Processes) - 1
  BY LimitsAssumption, FS_RemoveElement
<1>3. IsFiniteSet(2 .. MaxEntries) /\ Cardinality(2 .. MaxEntries) = MaxEntries - 1
  BY LimitsAssumption, FS_Interval
<1>4. IsFiniteSet(room) /\ Cardinality(room) = (Cardinality(Processes) - 1) * (MaxEntries - 1)
  BY <1>2, <1>3, FS_Product
<1> HIDE DEF others, room
<1>5. Cardinality(others) <= Cardinality(room)
  BY <1>1, <1>4, FS_Subset
<1>6. QED
  BY <1>4, <1>5 DEF others


\* _cache_put keeps the bound, whether the process has counted before or not.
LEMMA CachePutKeeps ==
    ASSUME ClientTyped, RowsAndSlots, NEW p \in Processes, NEW k \in Keys, CachePut(p, k)
    PROVE  CacheTyped' /\ RowsAndSlots'
<1> USE ClientConstants
<1> DEFINE rows == Touched(lru, k)
           n == CountAfter(count[p], rows)
           kept == Evict(rows, n)
           c == IF n > MaxEntries THEN MaxEntries ELSE n
<1>0. lru' = kept /\ expired' = (expired \ {k}) \intersect ToSet(kept) /\ count' = [count EXCEPT ![p] = c]
  BY DEF CachePut
<1>1. lru \in Seq(Keys) /\ IsInjective(lru) /\ count[p] \in {Unknown} \union 1 .. MaxEntries
      /\ count \in [Processes -> {Unknown} \union 1 .. MaxEntries]
  BY DEF ClientTyped, CacheTyped
<1>2. rows \in Seq(Keys) /\ IsInjective(rows) /\ Len(rows) \in {Len(lru), Len(lru) + 1} /\ k \in ToSet(rows)
  BY <1>1, TouchedFacts
<1> HIDE DEF rows
<1>3. Len(rows) \in Nat \ {0} /\ Len(lru) \in Nat
  BY <1>1, <1>2 DEF ToSet
<1>4. /\ n \in Nat \ {0}
      /\ count[p] = Unknown => n = Len(rows)
      /\ count[p] # Unknown => n = count[p] + 1
  BY <1>1, <1>3 DEF CountAfter, Unknown
<1> HIDE DEF n
<1>5. /\ kept \in Seq(Keys) /\ IsInjective(kept)
      /\ n <= MaxEntries => kept = rows
      /\ n > MaxEntries =>
             Len(kept) = IF n - MaxEntries <= Len(rows) THEN Len(rows) - (n - MaxEntries) ELSE 0
  <2>1. CASE n <= MaxEntries
    BY <1>2, <1>4, <2>1 DEF Evict
  <2>2. CASE n > MaxEntries
    <3>1. n - MaxEntries \in Nat /\ kept = Dropped(rows, n - MaxEntries)
      BY <1>4, <2>2 DEF Evict
    <3> HIDE DEF kept
    <3>2. QED
      <4>1. /\ Dropped(rows, n - MaxEntries) \in Seq(Keys) /\ IsInjective(Dropped(rows, n - MaxEntries))
            /\ Len(Dropped(rows, n - MaxEntries)) =
                   IF n - MaxEntries <= Len(rows) THEN Len(rows) - (n - MaxEntries) ELSE 0
        BY <1>2, <3>1, DroppedFacts
      <4>2. QED
        BY <1>4, <2>2, <3>1, <4>1
  <2>3. QED
    BY <1>4, <2>1, <2>2
<1> HIDE DEF kept
<1>6. c \in 1 .. MaxEntries /\ count'[p] = c /\ (\A q \in Processes \ {p} : count'[q] = count[q])
      /\ count' \in [Processes -> {Unknown} \union 1 .. MaxEntries]
  BY <1>0, <1>1, <1>4
<1> HIDE DEF c
<1>7. RowsAndSlots'
  <2>1. CASE count[p] = Unknown
    <3> DEFINE others == {s \in Slots : s[1] # p}
               mine == {p} \X (c + 1 .. MaxEntries)
    <3>1. Len(kept) = c
      BY <1>3, <1>4, <1>5, <2>1 DEF c
    <3>2. Slots' \subseteq others \union mine
      <4> SUFFICES ASSUME NEW s \in Slots', s \notin others
                   PROVE  s \in mine
        OBVIOUS
      <4>1. s \in Processes \X (1 .. MaxEntries) /\ count'[s[1]] # Unknown /\ count'[s[1]] < s[2]
        BY DEF Slots
      <4>2. s[1] \in Processes /\ s[2] \in 1 .. MaxEntries /\ s = <<s[1], s[2]>>
        BY <4>1
      <4>3. s[1] = p
        BY <1>6, <4>1, <4>2 DEF Slots
      <4>4. s[2] \in c + 1 .. MaxEntries
        BY <1>6, <4>1, <4>2, <4>3
      <4>5. QED
        BY <4>2, <4>3, <4>4
    <3>3. IsFiniteSet(others) /\ Cardinality(others) \in Nat
      BY SlotsAreFinite
    <3>4. IsFiniteSet(mine) /\ Cardinality(mine) = MaxEntries - c
      <4>1. IsFiniteSet(c + 1 .. MaxEntries) /\ Cardinality(c + 1 .. MaxEntries) = MaxEntries - c
        <5>1. c + 1 \in Int /\ MaxEntries \in Int
          BY <1>6
        <5>2. /\ IsFiniteSet(c + 1 .. MaxEntries)
              /\ Cardinality(c + 1 .. MaxEntries) = IF c + 1 > MaxEntries THEN 0 ELSE MaxEntries - (c + 1) + 1
          BY <5>1, FS_Interval
        <5>3. QED
          BY <1>6, <5>2
      <4>2. IsFiniteSet({p}) /\ Cardinality({p}) = 1
        BY FS_Singleton
      <4>3. Cardinality(mine) = 1 * (MaxEntries - c) /\ IsFiniteSet(mine)
        <5> DEFINE slots == c + 1 .. MaxEntries
        <5> HIDE DEF slots
        <5>1. IsFiniteSet({p} \X slots) /\ Cardinality({p} \X slots) = Cardinality({p}) * Cardinality(slots)
          BY <4>1, <4>2, FS_Product DEF slots
        <5>2. QED
          BY <4>1, <4>2, <5>1 DEF slots
      <4>4. QED
        BY <1>6, <4>3
    <3>5. Cardinality(others) <= (Cardinality(Processes) - 1) * (MaxEntries - 1)
      BY OthersSlots
    <3> HIDE DEF others, mine
    <3>6. /\ IsFiniteSet(others \union mine)
          /\ Cardinality(others \union mine) <= Cardinality(others) + Cardinality(mine)
      <4>1. IsFiniteSet(others \cap mine)
        BY <3>3, FS_Subset
      <4>2. Cardinality(others \cap mine) \in Nat
        BY <4>1, FS_CardinalityType
      <4>3. IsFiniteSet(others \union mine) /\ Cardinality(others \union mine) =
                Cardinality(others) + Cardinality(mine) - Cardinality(others \cap mine)
        BY <3>3, <3>4, FS_Union
      <4>4. QED
        BY <1>6, <3>3, <3>4, <4>2, <4>3
    <3>7. Cardinality(Slots') <= Cardinality(others \union mine) /\ Cardinality(Slots') \in Nat
      <4>1. IsFiniteSet(Slots') /\ Cardinality(Slots') <= Cardinality(others \union mine)
        BY <3>2, <3>6, FS_Subset
      <4>2. QED
        BY <4>1, FS_CardinalityType
    <3>8. Cardinality(others \union mine) \in Nat
      BY <3>6, FS_CardinalityType
    <3>9. Len(kept) + Cardinality(Slots') <= (Cardinality(Processes) - 1) * (MaxEntries - 1) + MaxEntries
      BY <1>6, <3>1, <3>3, <3>4, <3>5, <3>6, <3>7, <3>8
    <3>10. (Cardinality(Processes) - 1) * (MaxEntries - 1) + MaxEntries
           = Cardinality(Processes) * (MaxEntries - 1) + 1
      OBVIOUS
    <3>11. QED
      BY <1>0, <3>9, <3>10 DEF RowsAndSlots
  <2>2. CASE count[p] # Unknown /\ count[p] < MaxEntries
    <3>1. n = count[p] + 1 /\ c = n /\ kept = rows /\ n \in 1 .. MaxEntries
      BY <1>1, <1>4, <1>5, <2>2 DEF c
    <3>2. <<p, n>> \in Slots
      BY <1>1, <2>2, <3>1 DEF Slots
    <3>3. Slots' = Slots \ {<<p, n>>}
      <4>1. ASSUME NEW s \in Processes \X (1 .. MaxEntries)
            PROVE  s \in Slots' <=> s \in Slots \ {<<p, n>>}
        <5>1. s[1] \in Processes /\ s[2] \in 1 .. MaxEntries /\ s = <<s[1], s[2]>>
          OBVIOUS
        <5>2. CASE s[1] # p
          BY <1>6, <5>1, <5>2 DEF Slots
        <5>3. CASE s[1] = p
          <6>1. s \in Slots' <=> n < s[2]
            BY <1>6, <3>1, <5>1, <5>3 DEF Slots, Unknown
          <6>2. s \in Slots <=> count[p] < s[2]
            BY <2>2, <5>1, <5>3 DEF Slots
          <6>3. s = <<p, n>> <=> s[2] = n
            BY <5>1, <5>3
          <6>4. QED
            BY <1>1, <2>2, <3>1, <5>1, <6>1, <6>2, <6>3
        <5>4. QED
          BY <5>2, <5>3
      <4>2. QED
        BY <4>1 DEF Slots
    <3>4. Cardinality(Slots') = Cardinality(Slots) - 1
      BY <3>2, <3>3, SlotsAreFinite, FS_RemoveElement
    <3>5. QED
      BY <1>0, <1>2, <1>3, <3>1, <3>4, SlotsAreFinite DEF RowsAndSlots
  <2>3. CASE count[p] = MaxEntries
    <3>1. n = MaxEntries + 1 /\ c = MaxEntries /\ Len(kept) = Len(rows) - 1
      BY <1>1, <1>3, <1>4, <1>5, <2>3 DEF c, Unknown
    <3>2. count' = count
      BY <1>0, <1>1, <2>3, <3>1
    <3>3. Slots' = Slots
      BY <3>2 DEF Slots
    <3>4. QED
      BY <1>0, <1>2, <1>3, <3>1, <3>3, SlotsAreFinite DEF RowsAndSlots
  <2>4. QED
    BY <1>1, <2>1, <2>2, <2>3
<1>8. QED
  BY <1>0, <1>5, <1>6, <1>7 DEF CacheTyped


\* What the steps of chat do to the calls: none is made but by a beginning.
LEMMA CallTyping ==
    ASSUME CallTyped, NEW t \in Threads
    PROVE  /\ Return(t) => CallTyped' /\ InFlight' = InFlight \ {t}
           /\ AfterRecord(t) => CallTyped' /\ InFlight' = InFlight \ {t}
<1>1. ASSUME Return(t)
      PROVE  CallTyped' /\ InFlight' = InFlight \ {t}
  <2>1. /\ pc' = [pc EXCEPT ![t] = "idle"] /\ key' = [key EXCEPT ![t] = NoKey]
        /\ cacheable' = [cacheable EXCEPT ![t] = FALSE] /\ attempt' = [attempt EXCEPT ![t] = 1]
    BY <1>1 DEF Return, Goto
  <2>2. CallTyped'
    BY <2>1, ClientConstants DEF CallTyped
  <2>3. InFlight' = InFlight \ {t}
    BY <2>1 DEF CallTyped, InFlight
  <2>4. QED
    BY <2>2, <2>3
<1>2. ASSUME AfterRecord(t), cacheable[t]
      PROVE  CallTyped' /\ InFlight' = InFlight \ {t}
  <2>1. pc' = [pc EXCEPT ![t] = "put"] /\ UNCHANGED <<key, cacheable, attempt>>
    BY <1>2 DEF AfterRecord, Goto
  <2>2. CallTyped'
    BY <2>1 DEF CallTyped
  <2>3. InFlight' = InFlight \ {t}
    BY <2>1 DEF CallTyped, InFlight
  <2>4. QED
    BY <2>2, <2>3
<1>3. QED
  BY <1>1, <1>2 DEF AfterRecord

\* A step that begins no call and writes no usage.
LEMMA CallsPayStill ==
    ASSUME ClientTyped, CallsPay, InFlight' \subseteq InFlight, calls' \in Nat, calls <= calls',
           recorded' = recorded
    PROVE  CallsPay'
<1>1. Cardinality(InFlight') <= Cardinality(InFlight) /\ Cardinality(InFlight') \in Nat
      /\ Cardinality(InFlight) \in Nat
  BY InFlightIsFinite
<1>2. QED
  BY <1>1 DEF CallsPay, ClientTyped

LEMMA CacheStays ==
    ASSUME ClientInv, UNCHANGED cacheVars
    PROVE  CacheTyped' /\ RowsAndSlots'
BY DEF cacheVars, ClientInv, ClientTyped, CacheTyped, RowsAndSlots, Slots

LEMMA FilesStay ==
    ASSUME ClientTyped, UNCHANGED fileVars
    PROVE  usage' \subseteq Names /\ recorded' \in [Names -> Nat] /\ recorded' = recorded
BY DEF fileVars, ClientTyped

\* A cached answer, or none: a call begins.
LEMMA BeginningKeeps ==
    ASSUME ClientInv, NEW t \in Threads, NEW k \in Keys,
           ChatHits(t, k) \/ \E cold \in BOOLEAN : ChatMisses(t, k, cold)
    PROVE  ClientInv'
<1> USE DEF ClientInv
<1>0. /\ calls' = calls + 1 /\ calls' \in 0 .. MaxCalls /\ calls \in Nat /\ UNCHANGED <<host, second, fileVars>>
      /\ pc[t] = "idle"
  BY ClientConstants DEF ChatHits, ChatMisses, ClientTyped
<1>1. CASE ChatHits(t, k)
  <2>1. k \in ToSet(lru) /\ lru' = Touched(lru, k) /\ UNCHANGED <<expired, count, callVars>>
    BY <1>1 DEF ChatHits, Hit
  <2>2. lru' \in Seq(Keys) /\ IsInjective(lru') /\ ToSet(lru') = ToSet(lru) /\ Len(lru') = Len(lru)
    <3>1. lru \in Seq(Keys) /\ IsInjective(lru)
      BY DEF ClientTyped, CacheTyped
    <3>2. ToSet(lru) \union {k} = ToSet(lru)
      BY <2>1
    <3>3. QED
      BY <2>1, <3>1, <3>2, TouchedFacts
  <2>3. CacheTyped' /\ RowsAndSlots'
    BY <2>1, <2>2 DEF ClientTyped, CacheTyped, RowsAndSlots, Slots
  <2>4. CallTyped' /\ InFlight' = InFlight
    BY <2>1 DEF ClientTyped, CallTyped, InFlight, callVars
  <2>5. CallsPay'
    BY <1>0, <2>4, CallsPayStill, FilesStay
  <2>6. QED
    BY <1>0, <2>3, <2>4, <2>5, FilesStay DEF ClientTyped
<1>2. CASE \E cold \in BOOLEAN : ChatMisses(t, k, cold)
  <2>1. PICK cold \in BOOLEAN : ChatMisses(t, k, cold)
    BY <1>2
  <2>2. /\ pc' = [pc EXCEPT ![t] = "attempt"] /\ key' = [key EXCEPT ![t] = k]
        /\ cacheable' = [cacheable EXCEPT ![t] = cold] /\ attempt' = [attempt EXCEPT ![t] = 1]
        /\ UNCHANGED cacheVars
    BY <2>1 DEF ChatMisses, Goto
  <2>3. CallTyped'
    BY <2>2, ClientConstants DEF ClientTyped, CallTyped
  <2>4. InFlight' = InFlight \union {t}
    BY <2>2 DEF ClientTyped, CallTyped, InFlight
  <2>5. Cardinality(InFlight') <= Cardinality(InFlight) + 1 /\ Cardinality(InFlight') \in Nat
        /\ Cardinality(InFlight) \in Nat
    BY <2>4, OneMoreInFlight, InFlightIsFinite
  <2>6. CallsPay'
    BY <1>0, <2>5, FilesStay DEF CallsPay, ClientTyped
  <2>7. QED
    BY <1>0, <2>2, <2>3, <2>6, CacheStays, FilesStay DEF ClientTyped
<1>3. QED
  BY <1>1, <1>2

\* The next model is tried while there is one.
LEMMA FallBackKeeps ==
    ASSUME CallTyped, NEW t \in Threads, ModelFails(t)
    PROVE  CallTyped' /\ InFlight' \subseteq InFlight
<1> DEFINE chain == ChainOf[key[t]]
<1>1. CASE chain[attempt[t]] = Last(chain)
  <2>1. Return(t)
    BY <1>1 DEF ModelFails
  <2>2. QED
    BY <2>1, CallTyping
<1>2. CASE chain[attempt[t]] # Last(chain)
  <2>1. attempt' = [attempt EXCEPT ![t] = @ + 1] /\ UNCHANGED <<pc, key, cacheable>>
    BY <1>2 DEF ModelFails
  <2>2. attempt[t] \in 1 .. Len(chain) /\ attempt[t] # Len(chain) /\ Len(chain) \in Nat
        /\ DOMAIN chain = 1 .. Len(chain)
    BY <1>2, ChainAssumption DEF CallTyped, Last
  <2>3. attempt[t] + 1 \in DOMAIN chain
    BY <2>2
  <2>4. CallTyped'
    BY <2>1, <2>3 DEF CallTyped
  <2>5. QED
    BY <2>1, <2>4 DEF InFlight
<1>3. QED
  BY <1>1, <1>2

LEMMA ChatKeeps ==
    ASSUME ClientInv, NEW t \in Threads, Chat(t)
    PROVE  ClientInv'
<1> USE DEF ClientInv
<1>1. ASSUME NEW k \in Keys, ChatHits(t, k) \/ \E cold \in BOOLEAN : ChatMisses(t, k, cold)
      PROVE  ClientInv'
  BY <1>1, BeginningKeeps
<1>2. CASE ModelAnswers(t) \/ ModelFails(t) \/ AnswerIsMalformed(t) \/ RecordNothing(t) \/ StoreFails(t)
  <2>1. UNCHANGED <<host, cacheVars, fileVars, calls, second>>
    BY <1>2 DEF ModelAnswers, ModelFails, AnswerIsMalformed, RecordNothing, StoreFails
  <2>2. CallTyped' /\ InFlight' \subseteq InFlight
    <3>1. CASE ModelAnswers(t)
      BY <3>1 DEF ModelAnswers, Goto, ClientTyped, CallTyped, InFlight
    <3>2. CASE ModelFails(t)
      BY <3>2, FallBackKeeps DEF ClientTyped
    <3>3. CASE AnswerIsMalformed(t) \/ RecordNothing(t) \/ StoreFails(t)
      BY <3>3, CallTyping DEF AnswerIsMalformed, RecordNothing, StoreFails, ClientTyped
    <3>4. QED
      BY <1>2, <3>1, <3>2, <3>3
  <2>3. CallsPay'
    BY <2>1, <2>2, CallsPayStill, FilesStay DEF ClientTyped
  <2>4. QED
    BY <2>1, <2>2, <2>3, CacheStays, FilesStay DEF ClientTyped
<1>3. CASE RecordUsage(t)
  <2> DEFINE name == <<host[t], second>>
  <2>1. /\ pc[t] = "record" /\ AfterRecord(t) /\ name \in Names
        /\ usage' = usage \union {name} /\ recorded' = [recorded EXCEPT ![name] = @ + 1]
        /\ UNCHANGED <<host, cacheVars, calls, second>>
    BY <1>3 DEF RecordUsage, Names, ClientTyped
  <2>2. CallTyped' /\ InFlight' = InFlight \ {t} /\ t \in InFlight
    BY <2>1, CallTyping DEF ClientTyped, InFlight
  <2>3. Cardinality(InFlight') = Cardinality(InFlight) - 1 /\ Cardinality(InFlight) \in Nat
    BY <2>2, InFlightIsFinite, FS_RemoveElement
  <2> HIDE DEF name
  <2>4. usage' \subseteq Names /\ recorded' \in [Names -> Nat]
        /\ \A n \in Names : recorded'[n] <= recorded[n] + 1
    BY <2>1 DEF ClientTyped
  <2>5. CallsPay'
    BY <2>1, <2>3, <2>4 DEF CallsPay, ClientTyped
  <2>6. QED
    BY <2>1, <2>2, <2>4, <2>5, CacheStays DEF ClientTyped
<1>4. CASE StoreAnswer(t)
  <2>1. CachePut(host[t], key[t]) /\ Return(t) /\ UNCHANGED <<host, fileVars, calls, second>>
        /\ host[t] \in Processes /\ key[t] \in Keys
    BY <1>4 DEF StoreAnswer, ClientTyped, CallTyped
  <2>2. CacheTyped' /\ RowsAndSlots'
    BY <2>1, CachePutKeeps
  <2>3. CallTyped' /\ InFlight' \subseteq InFlight
    BY <2>1, CallTyping DEF ClientTyped
  <2>4. CallsPay'
    BY <2>1, <2>3, CallsPayStill, FilesStay DEF ClientTyped
  <2>5. QED
    BY <2>1, <2>2, <2>3, <2>4, FilesStay DEF ClientTyped
<1>5. QED
  BY <1>1, <1>2, <1>3, <1>4 DEF Chat

LEMMA ClientInitInv == ClientInit => ClientInv
<1> SUFFICES ASSUME ClientInit
             PROVE  ClientInv
  OBVIOUS
<1> USE ClientConstants DEF ClientInit
<1>1. CallTyped
  BY DEF CallTyped
<1>2. CacheTyped
  BY DEF CacheTyped, IsInjective, ToSet
<1>3. InFlight = {} /\ Slots = {}
  BY DEF InFlight, Slots
<1>4. Cardinality(InFlight) = 0 /\ Cardinality(Slots) = 0
  BY <1>3, FS_EmptySet
<1>5. CallsPay
  BY <1>4 DEF CallsPay
<1>6. RowsAndSlots
  <2>1. Cardinality(Processes) * (MaxEntries - 1) \in Nat /\ Len(lru) = 0
    OBVIOUS
  <2>2. QED
    BY <1>4, <2>1 DEF RowsAndSlots
<1>7. QED
  BY <1>1, <1>2, <1>5, <1>6 DEF ClientInv, ClientTyped

LEMMA ClientStepInv ==
    ASSUME ClientInv, ClientNext
    PROVE  ClientInv'
<1> USE DEF ClientInv
<1>1. CASE ClearCache
  <2>1. lru' = <<>> /\ expired' = {} /\ count' = count /\ UNCHANGED <<host, callVars, fileVars, calls, second>>
    BY <1>1 DEF ClearCache
  <2>2. CacheTyped'
    BY <2>1 DEF ClientTyped, CacheTyped, IsInjective, ToSet
  <2>3. Len(lru') = 0 /\ Len(lru) \in Nat /\ Slots' = Slots
    BY <2>1 DEF ClientTyped, CacheTyped, Slots
  <2>4. RowsAndSlots'
    BY <2>3, SlotsAreFinite, ClientConstants DEF RowsAndSlots
  <2>5. CallTyped' /\ InFlight' = InFlight
    BY <2>1 DEF ClientTyped, CallTyped, InFlight, callVars
  <2>6. CallsPay'
    BY <2>1, <2>5, CallsPayStill, FilesStay DEF ClientTyped
  <2>7. QED
    BY <2>1, <2>2, <2>4, <2>5, <2>6, FilesStay DEF ClientTyped
<1>2. ASSUME NEW k \in Keys, ExpireRow(k)
      PROVE  ClientInv'
  <2>1. k \in ToSet(lru) /\ expired' = expired \union {k}
        /\ UNCHANGED <<host, lru, count, callVars, fileVars, calls, second>>
    BY <1>2 DEF ExpireRow, Hit
  <2>2. CacheTyped' /\ RowsAndSlots'
    BY <2>1 DEF ClientTyped, CacheTyped, RowsAndSlots, Slots
  <2>3. CallTyped' /\ InFlight' = InFlight
    BY <2>1 DEF ClientTyped, CallTyped, InFlight, callVars
  <2>4. CallsPay'
    BY <2>1, <2>3, CallsPayStill, FilesStay DEF ClientTyped
  <2>5. QED
    BY <2>1, <2>2, <2>3, <2>4, FilesStay DEF ClientTyped
<1>3. ASSUME NEW p \in Processes, ProcessEnds(p)
      PROVE  ClientInv'
  <2> DEFINE mine == {t \in Threads : host[t] = p}
  <2>1. /\ count' = [count EXCEPT ![p] = Unknown]
        /\ pc' = [t \in Threads |-> IF t \in mine THEN "idle" ELSE pc[t]]
        /\ key' = [t \in Threads |-> IF t \in mine THEN NoKey ELSE key[t]]
        /\ cacheable' = [t \in Threads |-> t \notin mine /\ cacheable[t]]
        /\ attempt' = [t \in Threads |-> IF t \in mine THEN 1 ELSE attempt[t]]
        /\ UNCHANGED <<host, lru, expired, fileVars, calls, second>>
    BY <1>3 DEF ProcessEnds
  <2> HIDE DEF mine
  <2>2. CallTyped' /\ InFlight' \subseteq InFlight
    <3>1. cacheable' \in [Threads -> BOOLEAN]
      BY <2>1, Zenon
    <3>2. pc' \in [Threads -> {"idle", "attempt", "record", "put"}] /\ key' \in [Threads -> Keys]
          /\ attempt' \in [Threads -> Nat]
      BY <2>1, ClientConstants DEF ClientTyped, CallTyped
    <3>3. \A t \in Threads : attempt'[t] \in DOMAIN ChainOf[key'[t]]
      BY <2>1, ClientConstants DEF ClientTyped, CallTyped
    <3>4. InFlight' \subseteq InFlight
      BY <2>1 DEF InFlight
    <3>5. QED
      BY <3>1, <3>2, <3>3, <3>4 DEF CallTyped
  <2>3. CacheTyped' /\ Slots' \subseteq Slots
    <3>1. CacheTyped'
      BY <2>1 DEF ClientTyped, CacheTyped
    <3>2. \A q \in Processes : count'[q] # Unknown => count'[q] = count[q]
      BY <2>1 DEF ClientTyped, CacheTyped
    <3>3. QED
      BY <3>1, <3>2 DEF Slots
  <2>4. RowsAndSlots'
    <3>1. Cardinality(Slots') <= Cardinality(Slots) /\ Cardinality(Slots') \in Nat
          /\ Cardinality(Slots) \in Nat
      BY <2>3, SlotsAreFinite
    <3>2. Len(lru) \in Nat /\ lru' = lru
      BY <2>1 DEF ClientTyped, CacheTyped
    <3>3. QED
      BY <3>1, <3>2, ClientConstants DEF RowsAndSlots
  <2>5. CallsPay'
    BY <2>1, <2>2, CallsPayStill, FilesStay DEF ClientTyped
  <2>6. QED
    BY <2>1, <2>2, <2>3, <2>4, <2>5, FilesStay DEF ClientTyped
<1>4. CASE Tick
  <2>1. second' \in Seconds /\ UNCHANGED <<host, callVars, cacheVars, fileVars, calls>>
    BY <1>4, LimitsAssumption DEF Tick, ClientTyped, Seconds
  <2>2. CallTyped' /\ InFlight' = InFlight
    BY <2>1 DEF ClientTyped, CallTyped, InFlight, callVars
  <2>3. CallsPay'
    BY <2>1, <2>2, CallsPayStill, FilesStay DEF ClientTyped
  <2>4. QED
    BY <2>1, <2>2, <2>3, CacheStays, FilesStay DEF ClientTyped
<1>5. QED
  BY <1>1, <1>2, <1>3, <1>4, ChatKeeps DEF ClientNext

LEMMA ClientStutter ==
    ASSUME ClientInv, UNCHANGED clientVars
    PROVE  ClientInv'
<1> USE DEF ClientInv, clientVars, callVars, cacheVars, fileVars
<1>1. ClientTyped'
  BY DEF ClientTyped, CallTyped, CacheTyped
<1>2. CallsPay' /\ RowsAndSlots'
  BY DEF CallsPay, InFlight, RowsAndSlots, Slots
<1>3. QED
  BY <1>1, <1>2

LEMMA ClientInductive == ClientSpec => []ClientInv
<1>1. ClientInv /\ [ClientNext]_clientVars => ClientInv'
  BY ClientStepInv, ClientStutter
<1>2. QED
  BY <1>1, ClientInitInv, PTL DEF ClientSpec

LEMMA ClientTypes == ClientInv => ClientTypeOK
<1> SUFFICES ASSUME ClientInv
             PROVE  ClientTypeOK
  OBVIOUS
<1>1. count \in [Processes -> Unknown .. MaxEntries]
  BY ClientConstants DEF ClientInv, ClientTyped, CacheTyped, Unknown
<1>2. recorded \in [Names -> 0 .. MaxCalls]
  <2>1. recorded \in [Names -> Nat] /\ calls \in 0 .. MaxCalls
    BY DEF ClientInv, ClientTyped
  <2>2. ASSUME NEW n \in Names
        PROVE  recorded[n] \in 0 .. MaxCalls
    <3>1. recorded[n] + Cardinality(InFlight) <= calls
      BY DEF ClientInv, CallsPay
    <3>2. QED
      BY <2>1, <3>1, InFlightIsFinite, ClientConstants
  <2>3. QED
    BY <2>1, <2>2
<1>3. QED
  BY <1>1, <1>2 DEF ClientInv, ClientTyped, CacheTyped, CallTyped, ClientTypeOK

LEMMA RowsAreWithin == ClientInv => CacheBounded
<1> SUFFICES ASSUME ClientInv
             PROVE  CacheBounded
  OBVIOUS
<1>1. Len(lru) \in Nat
  BY DEF ClientInv, ClientTyped, CacheTyped
<1>2. QED
  BY <1>1, SlotsAreFinite, ClientConstants DEF ClientInv, RowsAndSlots, CacheBounded

\* The types of the calls and of the table of answers, with its keys once each (llm.py).
THEOREM ClientTypeCorrect == ClientSpec => []ClientTypeOK
<1>1. QED
  BY ClientTypes, ClientInductive, PTL

\* The table stays within what all processes may insert together before each of them begins
\* to evict, for any number of processes, threads and restarts (_cache_put).
THEOREM CacheIsBounded == ClientSpec => []CacheBounded
<1>1. QED
  BY RowsAreWithin, ClientInductive, PTL


-----------------------------------------------------------------------------
(* The ledger: the inductive invariant *)

\* What the importer goes by.  (TypeOK bounds the counters as well, by the bounds of the
\* model, which nothing below needs.)
LedgerTyped ==
    /\ host \in [Threads -> Processes] /\ second \in Seconds
    /\ usage \subseteq Names /\ setAside \subseteq Names
    /\ recorded \in [Names -> Nat] /\ counted \in [Names -> Nat]
    /\ replaced \in [Names -> Nat]
    /\ faults \in Nat
    /\ listed \subseteq usage
    /\ current \in listed \union {NoFile}

\* A file can be counted once more while it is there, unless its row is the last one
\* committed: then it is deleted, or an interruption lets it be counted anew.
Owed(n) == IF n \in usage /\ n # current THEN 1 ELSE 0

\* The rows of a file, with the one still owed, are paid for by its writes and by the
\* interruptions.
BudgetOfRows == \A n \in Names : counted[n] + Owed(n) <= recorded[n] + faults

\* UsageIsKept is not inductive: the file that is about to be deleted has its row already,
\* and what is kept of it must not be counted twice.
UsageStaysKept ==
    \A n \in Names :
        recorded[n] <= counted[n] + Owed(n) + One(n \in setAside) + replaced[n]

IInv == LedgerTyped /\ UsageStaysKept /\ BudgetOfRows

-----------------------------------------------------------------------------

LEMMA InitInv == Init => IInv
<1> SUFFICES ASSUME Init
             PROVE  IInv
  OBVIOUS
<1>1. usage = {} /\ current = NoFile /\ faults = 0 /\ listed = {} /\ setAside = {}
      /\ recorded = [n \in Names |-> 0] /\ counted = [n \in Names |-> 0]
      /\ replaced = [n \in Names |-> 0]
  BY DEF Init, ClientInit
<1>2. host \in [Threads -> Processes] /\ second = 0
  BY DEF Init, ClientInit
<1>. second \in Seconds
  BY <1>2, LimitsAssumption DEF Seconds
<1>3. LedgerTyped
  BY <1>1, <1>2 DEF LedgerTyped
<1>4. UsageStaysKept /\ BudgetOfRows
  BY <1>1 DEF UsageStaysKept, BudgetOfRows, Owed, One
<1>5. QED
  BY <1>3, <1>4 DEF IInv

\* A step that leaves the files, the table and the importer alone.
LEMMA ElsewhereKeeps ==
    ASSUME IInv, UNCHANGED <<host, second, fileVars, importVars, faults>>
    PROVE  IInv'
<1> USE DEF fileVars, importVars, rowVars
<1>1. LedgerTyped'
  BY DEF IInv, LedgerTyped
<1>2. UsageStaysKept' /\ BudgetOfRows'
  BY DEF IInv, UsageStaysKept, BudgetOfRows, Owed, One
<1>3. QED
  BY <1>1, <1>2 DEF IInv

\* All that calls of language models do to the ledger: a file is written, perhaps over
\* another one.
LEMMA CallsOnlyWrite ==
    ASSUME ClientNext, LedgerTyped
    PROVE  /\ host' = host /\ second' \in Seconds
           /\ \/ UNCHANGED fileVars
              \/ \E n \in Names : /\ usage' = usage \union {n}
                                  /\ recorded' = [recorded EXCEPT ![n] = @ + 1]
<1>1. ASSUME NEW t \in Threads, RecordUsage(t)
      PROVE  /\ host' = host /\ second' = second
             /\ \E n \in Names : /\ usage' = usage \union {n}
                                 /\ recorded' = [recorded EXCEPT ![n] = @ + 1]
  <2>1. <<host[t], second>> \in Names
    BY DEF LedgerTyped, Names
  <2>2. QED
    BY <1>1, <2>1 DEF RecordUsage
<1>2. ASSUME NEW t \in Threads, Chat(t), ~RecordUsage(t)
      PROVE  host' = host /\ second' = second /\ UNCHANGED fileVars
  BY <1>2 DEF Chat, ChatHits, ChatMisses, ModelAnswers, ModelFails, AnswerIsMalformed,
     RecordNothing, StoreAnswer, StoreFails
<1>3. ASSUME ClearCache \/ (\E k \in Keys : ExpireRow(k)) \/ (\E p \in Processes : ProcessEnds(p))
      PROVE  host' = host /\ second' = second /\ UNCHANGED fileVars
  BY <1>3 DEF ClearCache, ExpireRow, ProcessEnds
<1>4. ASSUME Tick
      PROVE  host' = host /\ second' \in Seconds /\ UNCHANGED fileVars
  BY <1>4, LimitsAssumption DEF Tick, LedgerTyped, Seconds
<1>5. QED
  BY <1>1, <1>2, <1>3, <1>4 DEF ClientNext, LedgerTyped

LEMMA WriteKeeps ==
    ASSUME IInv, Clients
    PROVE  IInv'
<1>1. /\ LedgerTyped /\ ClientNext
      /\ UNCHANGED <<counted, setAside, listed, current, faults>>
  BY DEF IInv, Clients, rowVars
<1>2. host' \in [Threads -> Processes] /\ second' \in Seconds
  BY <1>1, CallsOnlyWrite DEF LedgerTyped
<1>3. ASSUME NEW x \in Names
      PROVE  /\ counted[x] \in Nat /\ recorded[x] \in Nat /\ faults \in Nat /\ replaced[x] \in Nat
             /\ Owed(x) \in {0, 1} /\ One(x \in setAside) \in {0, 1}
             /\ counted[x] + Owed(x) <= recorded[x] + faults
             /\ recorded[x] <= counted[x] + Owed(x) + One(x \in setAside) + replaced[x]
             /\ replaced'[x] = IF x \in usage /\ recorded'[x] > recorded[x]
                              THEN replaced[x] + 1 ELSE replaced[x]
  BY DEF IInv, LedgerTyped, UsageStaysKept, BudgetOfRows, Owed, One, Clients
<1>4. replaced' \in [Names -> Nat]
  <2>1. replaced' = [x \in Names |-> IF x \in usage /\ recorded'[x] > recorded[x]
                                    THEN replaced[x] + 1 ELSE replaced[x]]
    BY DEF Clients
  <2>2. QED
    BY <1>3, <2>1
<1>5. CASE UNCHANGED fileVars
  <2>1. LedgerTyped'
    BY <1>1, <1>2, <1>4, <1>5 DEF LedgerTyped, fileVars
  <2>2. replaced' = replaced
    <3>1. \A x \in Names : replaced'[x] = replaced[x]
      BY <1>3, <1>5 DEF fileVars
    <3>2. QED
      BY <1>1, <1>4, <3>1 DEF LedgerTyped
  <2>3. UsageStaysKept' /\ BudgetOfRows'
    BY <1>1, <1>5, <2>2 DEF IInv, UsageStaysKept, BudgetOfRows, Owed, One, fileVars
  <2>4. QED
    BY <2>1, <2>3 DEF IInv
<1>6. ASSUME NEW n \in Names, usage' = usage \union {n},
             recorded' = [recorded EXCEPT ![n] = @ + 1]
      PROVE  IInv'
  <2>1. LedgerTyped'
    BY <1>1, <1>2, <1>4, <1>6 DEF LedgerTyped
  <2>2. ASSUME NEW x \in Names
        PROVE  /\ counted'[x] + Owed(x)' <= recorded'[x] + faults'
               /\ recorded'[x] <= counted'[x] + Owed(x)' + One(x \in setAside)' + replaced'[x]
    <3>1. counted'[x] = counted[x] /\ faults' = faults /\ One(x \in setAside)' = One(x \in setAside)
      BY <1>1 DEF One
    <3>2. CASE x = n /\ x \in usage
      <4>1. recorded'[x] = recorded[x] + 1 /\ Owed(x)' = Owed(x)
        BY <1>1, <1>6, <3>2 DEF LedgerTyped, Owed
      <4>2. replaced'[x] = replaced[x] + 1
        BY <1>3, <3>2, <4>1
      <4>3. QED
        BY <1>3, <3>1, <4>1, <4>2
    <3>3. CASE x = n /\ x \notin usage
      <4>1. recorded'[x] = recorded[x] + 1 /\ Owed(x)' = 1 /\ Owed(x) = 0
        BY <1>1, <1>6, <3>3, LedgerAssumption DEF LedgerTyped, Owed
      <4>2. replaced'[x] = replaced[x]
        BY <1>3, <3>3
      <4>3. QED
        BY <1>3, <3>1, <4>1, <4>2
    <3>4. CASE x # n
      <4>1. recorded'[x] = recorded[x] /\ Owed(x)' = Owed(x)
        BY <1>1, <1>6, <3>4 DEF LedgerTyped, Owed
      <4>2. replaced'[x] = replaced[x]
        BY <1>3, <4>1
      <4>3. QED
        BY <1>3, <3>1, <4>1, <4>2
    <3>5. QED
      BY <3>2, <3>3, <3>4
  <2>3. QED
    BY <2>1, <2>2 DEF IInv, UsageStaysKept, BudgetOfRows
<1>7. QED
  BY <1>1, <1>5, <1>6, CallsOnlyWrite

-----------------------------------------------------------------------------
(* The importer *)

\* The numbers the invariant relates, for one name.
LEMMA RowNumbers ==
    ASSUME IInv, NEW x \in Names
    PROVE  /\ counted[x] \in Nat /\ recorded[x] \in Nat /\ faults \in Nat /\ replaced[x] \in Nat
           /\ Owed(x) \in {0, 1} /\ One(x \in setAside) \in {0, 1}
           /\ counted[x] + Owed(x) <= recorded[x] + faults
           /\ recorded[x] <= counted[x] + Owed(x) + One(x \in setAside) + replaced[x]
BY DEF IInv, LedgerTyped, UsageStaysKept, BudgetOfRows, Owed, One

LEMMA CountKeeps ==
    ASSUME IInv, NEW n \in Names, ImportCount(n)
    PROVE  IInv'
<1>1. /\ n \in listed /\ n \in usage /\ current = NoFile /\ n # NoFile
      /\ counted' = [counted EXCEPT ![n] = @ + 1] /\ current' = n
      /\ UNCHANGED <<host, second, usage, recorded, setAside, listed, replaced, faults>>
  BY LedgerAssumption DEF ImportCount, clientVars, fileVars, IInv, LedgerTyped
<1>2. LedgerTyped'
  BY <1>1 DEF IInv, LedgerTyped
<1>3. ASSUME NEW x \in Names
      PROVE  counted'[x] + Owed(x)' = counted[x] + Owed(x)
  <2>1. counted[x] \in Nat
    BY DEF IInv, LedgerTyped
  <2>2. CASE x = n
    <3>1. Owed(x) = 1 /\ Owed(x)' = 0 /\ counted'[x] = counted[x] + 1
      BY <1>1, <2>2 DEF Owed, IInv, LedgerTyped
    <3>2. QED
      BY <2>1, <3>1
  <2>3. CASE x # n
    BY <1>1, <2>3, LedgerAssumption DEF Owed, IInv, LedgerTyped
  <2>4. QED
    BY <2>2, <2>3
<1>4. UsageStaysKept' /\ BudgetOfRows'
  BY <1>1, <1>3 DEF IInv, UsageStaysKept, BudgetOfRows, One
<1>5. QED
  BY <1>2, <1>4 DEF IInv

LEMMA DeleteKeeps ==
    ASSUME IInv, ImportDelete
    PROVE  IInv'
<1>1. /\ current \in listed /\ current # NoFile /\ current' = NoFile
      /\ usage' = usage \ {current} /\ listed' = listed \ {current}
      /\ UNCHANGED <<host, second, recorded, counted, setAside, replaced, faults>>
  BY DEF ImportDelete, IInv, LedgerTyped
<1>2. LedgerTyped'
  BY <1>1 DEF IInv, LedgerTyped
<1>3. \A x \in Names : Owed(x)' = Owed(x)
  BY <1>1, LedgerAssumption DEF Owed
<1>4. UsageStaysKept' /\ BudgetOfRows'
  BY <1>1, <1>3 DEF IInv, UsageStaysKept, BudgetOfRows, One
<1>5. QED
  BY <1>2, <1>4 DEF IInv

\* The file takes its place in failed/, or the place of its namesake there.
LEMMA FailKeeps ==
    ASSUME IInv, NEW n \in Names, ImportFails(n)
    PROVE  IInv'
<1>1. /\ n \in listed /\ current \in {NoFile, n} /\ current' = NoFile
      /\ usage' = usage \ {n} /\ listed' = listed \ {n} /\ setAside' = setAside \union {n}
      /\ replaced' = (IF n \in setAside THEN [replaced EXCEPT ![n] = @ + 1] ELSE replaced)
      /\ faults' = faults + 1
      /\ UNCHANGED <<host, second, recorded, counted>>
  BY DEF ImportFails
<1>2. replaced \in [Names -> Nat] /\ replaced' \in [Names -> Nat]
  BY <1>1 DEF IInv, LedgerTyped
<1>3. LedgerTyped'
  BY <1>1, <1>2 DEF IInv, LedgerTyped
<1>4. ASSUME NEW x \in Names
      PROVE  /\ counted'[x] + Owed(x)' <= recorded'[x] + faults'
             /\ recorded'[x] <= counted'[x] + Owed(x)' + One(x \in setAside)' + replaced'[x]
  <2>1. /\ Owed(x)' \in {0, 1} /\ Owed(x)' <= Owed(x)
        /\ One(x \in setAside)' \in {0, 1}
    BY <1>1, LedgerAssumption DEF Owed, One
  <2>2. CASE x = n
    <3>1. One(x \in setAside)' = 1
      BY <1>1, <2>2 DEF One
    <3>2. replaced'[x] + One(x \in setAside)' = replaced[x] + One(x \in setAside) + 1
      <4>1. CASE n \in setAside
        BY <1>1, <1>2, <2>2, <3>1, <4>1 DEF One
      <4>2. CASE n \notin setAside
        BY <1>1, <1>2, <2>2, <3>1, <4>2 DEF One
      <4>3. QED
        BY <4>1, <4>2
    <3>3. QED
      BY <1>1, <1>2, <2>1, <3>2, RowNumbers
  <2>3. CASE x # n
    <3>1. Owed(x)' = Owed(x)
      BY <1>1, <2>3, LedgerAssumption DEF Owed
    <3>2. One(x \in setAside)' = One(x \in setAside) /\ replaced'[x] = replaced[x]
      BY <1>1, <1>2, <2>3 DEF One
    <3>3. QED
      BY <1>1, <3>1, <3>2, RowNumbers
  <2>4. QED
    BY <2>2, <2>3
<1>5. QED
  BY <1>3, <1>4 DEF IInv, UsageStaysKept, BudgetOfRows

\* An interruption may let the file in hand be counted once more.
LEMMA ForgetKeeps ==
    ASSUME IInv, listed' = {}, current' = NoFile, faults' = faults + 1,
           UNCHANGED <<host, second, usage, recorded, counted, setAside, replaced>>
    PROVE  IInv'
<1>1. LedgerTyped'
  BY DEF IInv, LedgerTyped
<1>2. ASSUME NEW x \in Names
      PROVE  /\ counted'[x] + Owed(x)' <= recorded'[x] + faults'
             /\ recorded'[x] <= counted'[x] + Owed(x)' + One(x \in setAside)' + replaced'[x]
  <2>1. /\ Owed(x)' <= Owed(x) + 1 /\ Owed(x) <= Owed(x)' /\ Owed(x)' \in {0, 1}
        /\ One(x \in setAside)' = One(x \in setAside)
    BY LedgerAssumption DEF Owed, One
  <2>2. QED
    BY <2>1, RowNumbers
<1>3. QED
  BY <1>1, <1>2 DEF IInv, UsageStaysKept, BudgetOfRows

LEMMA StepInv == IInv /\ [Next]_vars => IInv'
<1> SUFFICES ASSUME IInv, [Next]_vars
             PROVE  IInv'
  OBVIOUS
<1>1. CASE Clients
  BY <1>1, WriteKeeps
<1>2. CASE ImportList
  <2>1. listed' = usage /\ current' = NoFile /\ current = NoFile
        /\ UNCHANGED <<host, second, usage, recorded, counted, setAside, replaced, faults>>
    BY <1>2 DEF ImportList, clientVars, fileVars
  <2>2. LedgerTyped'
    BY <2>1 DEF IInv, LedgerTyped
  <2>3. UsageStaysKept' /\ BudgetOfRows'
    BY <2>1 DEF IInv, UsageStaysKept, BudgetOfRows, Owed, One
  <2>4. QED
    BY <2>2, <2>3 DEF IInv
<1>3. ASSUME NEW n \in Names, ImportCount(n)
      PROVE  IInv'
  BY <1>3, CountKeeps
<1>4. CASE ImportDelete
  BY <1>4, DeleteKeeps
<1>5. ASSUME NEW n \in Names, ImportFails(n)
      PROVE  IInv'
  BY <1>5, FailKeeps
<1>6. CASE ImportAborts \/ Restart
  <2>1. listed' = {} /\ current' = NoFile /\ faults' = faults + 1
        /\ UNCHANGED <<host, second, usage, recorded, counted, setAside, replaced>>
    BY <1>6 DEF ImportAborts, Restart, clientVars, fileVars
  <2>2. QED
    BY <2>1, ForgetKeeps
<1>7. ASSUME NEW c \in Callers, CheckMisses(c) \/ CheckQuery(c) \/ CheckFill(c)
      PROVE  IInv'
  BY <1>7, ElsewhereKeeps DEF CheckMisses, CheckQuery, CheckFill, clientVars
<1>8. CASE CheckHits \/ Alert \/ NoAlert \/ BudgetExpires \/ AlertAges
  BY <1>8, ElsewhereKeeps DEF CheckHits, Alert, NoAlert, BudgetExpires, AlertAges, clientVars
<1>9. CASE UNCHANGED vars
  BY <1>9, ElsewhereKeeps DEF vars, clientVars
<1>10. "monitor" \in Callers /\ "request" \in Callers
  BY DEF Callers
<1>11. QED
  BY <1>1, <1>2, <1>3, <1>4, <1>5, <1>6, <1>7, <1>8, <1>9, <1>10 DEF Next, Import, Monitor

LEMMA LedgerInvariant == Spec => []IInv
<1>1. QED
  BY InitInv, StepInv, PTL DEF Spec

-----------------------------------------------------------------------------
(* The theorems *)

\* The importer (import_tokens_target) loses no usage on its way from an agent's file to the
\* table, for any number of agents and interruptions: what is in none of the directory, the
\* table and failed/ was lost to a file of the same name, at most one for each such file.
THEOREM UsagesAreKept == Spec => []UsageIsKept
<1>1. IInv => UsageIsKept
  <2> SUFFICES ASSUME IInv, NEW n \in Names
               PROVE  recorded[n] <= counted[n] + One(n \in usage) + One(n \in setAside) + replaced[n]
    BY DEF UsageIsKept
  <2>1. Owed(n) <= One(n \in usage) /\ One(n \in usage) \in {0, 1}
    BY DEF Owed, One
  <2>2. QED
    BY <2>1, RowNumbers
<1>2. QED
  BY <1>1, LedgerInvariant, PTL

\* The rows of a file are as many as its writes at most, and one more for each interruption.
THEOREM OvercountsArePaidFor == Spec => []OvercountsAreFaults
<1>1. IInv => OvercountsAreFaults
  <2> SUFFICES ASSUME IInv, NEW n \in Names
               PROVE  counted[n] <= recorded[n] + faults
    BY DEF OvercountsAreFaults
  <2>1. counted[n] \in Nat /\ recorded[n] \in Nat /\ faults \in Nat
        /\ counted[n] + Owed(n) <= recorded[n] + faults
    BY DEF IInv, LedgerTyped, BudgetOfRows
  <2>2. Owed(n) \in Nat
    BY DEF Owed
  <2>3. QED
    BY <2>1, <2>2
<1>2. QED
  BY <1>1, LedgerInvariant, PTL

-----------------------------------------------------------------------------
(* The money: the rows of the table, and what the budget check goes by *)

\* What a step of the calls changes for the ledger: the calls that may still leave a file do
\* not outgrow the calls begun, and a file written is one of theirs.
LEMMA CallsBalance ==
    ASSUME ClientInv, ClientNext
    PROVE  \/ /\ usage' = usage
              /\ Cardinality(InFlight') + calls <= Cardinality(InFlight) + calls'
           \/ /\ \E n \in Names : usage' = usage \union {n}
              /\ calls' = calls /\ Cardinality(InFlight') + 1 = Cardinality(InFlight)
<1> USE DEF ClientInv
<1>0. calls \in Nat
  BY DEF ClientTyped
<1>1. ASSUME InFlight' \subseteq InFlight, calls' = calls
      PROVE  Cardinality(InFlight') + calls <= Cardinality(InFlight) + calls'
  BY <1>0, <1>1, InFlightIsFinite
<1>2. ASSUME NEW t \in Threads, NEW k \in Keys, ChatHits(t, k)
      PROVE  usage' = usage /\ Cardinality(InFlight') + calls <= Cardinality(InFlight) + calls'
  <2>1. InFlight' = InFlight /\ calls' = calls + 1 /\ usage' = usage
    BY <1>2 DEF ChatHits, InFlight, callVars, fileVars
  <2>2. QED
    BY <1>0, <2>1, InFlightIsFinite
<1>3. ASSUME NEW t \in Threads, NEW k \in Keys, NEW cold \in BOOLEAN, ChatMisses(t, k, cold)
      PROVE  usage' = usage /\ Cardinality(InFlight') + calls <= Cardinality(InFlight) + calls'
  <2>1. InFlight' = InFlight \union {t} /\ calls' = calls + 1 /\ usage' = usage
    BY <1>3 DEF ChatMisses, Goto, InFlight, fileVars, ClientTyped, CallTyped
  <2>2. Cardinality(InFlight') <= Cardinality(InFlight) + 1 /\ Cardinality(InFlight') \in Nat
    BY <2>1, OneMoreInFlight
  <2>3. QED
    BY <1>0, <2>1, <2>2, InFlightIsFinite
<1>4. ASSUME NEW t \in Threads,
             ModelAnswers(t) \/ ModelFails(t) \/ AnswerIsMalformed(t) \/ RecordNothing(t)
             \/ StoreAnswer(t) \/ StoreFails(t)
      PROVE  usage' = usage /\ calls' = calls /\ InFlight' \subseteq InFlight
  <2>1. usage' = usage /\ calls' = calls
    BY <1>4 DEF ModelAnswers, ModelFails, AnswerIsMalformed, RecordNothing, StoreAnswer, StoreFails,
       fileVars
  <2>2. CASE ModelAnswers(t)
    BY <2>1, <2>2 DEF ModelAnswers, Goto, ClientTyped, CallTyped, InFlight
  <2>3. CASE ModelFails(t)
    BY <2>1, <2>3, FallBackKeeps DEF ClientTyped
  <2>4. CASE AnswerIsMalformed(t) \/ RecordNothing(t) \/ StoreAnswer(t) \/ StoreFails(t)
    BY <2>1, <2>4, CallTyping DEF AnswerIsMalformed, RecordNothing, StoreAnswer, StoreFails, ClientTyped
  <2>5. QED
    BY <1>4, <2>2, <2>3, <2>4
<1>5. ASSUME NEW t \in Threads, RecordUsage(t)
      PROVE  /\ \E n \in Names : usage' = usage \union {n}
             /\ calls' = calls /\ Cardinality(InFlight') + 1 = Cardinality(InFlight)
  <2>1. <<host[t], second>> \in Names /\ usage' = usage \union {<<host[t], second>>} /\ calls' = calls
    BY <1>5 DEF RecordUsage, Names, ClientTyped
  <2>2. InFlight' = InFlight \ {t} /\ t \in InFlight
    BY <1>5, CallTyping DEF RecordUsage, ClientTyped, InFlight
  <2>3. Cardinality(InFlight') = Cardinality(InFlight) - 1
    BY <2>2, InFlightIsFinite, FS_RemoveElement
  <2>4. QED
    BY <2>1, <2>3, InFlightIsFinite
<1>6. ASSUME ClearCache \/ (\E k \in Keys : ExpireRow(k)) \/ Tick
      PROVE  usage' = usage /\ calls' = calls /\ InFlight' \subseteq InFlight
  BY <1>6 DEF ClearCache, ExpireRow, Tick, callVars, fileVars, InFlight
<1>7. ASSUME NEW p \in Processes, ProcessEnds(p)
      PROVE  usage' = usage /\ calls' = calls /\ InFlight' \subseteq InFlight
  BY <1>7 DEF ProcessEnds, fileVars, InFlight
<1>8. QED
  BY <1>1, <1>2, <1>3, <1>4, <1>5, <1>6, <1>7 DEF ClientNext, Chat

\* The importer takes files away, which the calls do not notice.
LEMMA ImporterKeepsClient ==
    ASSUME ClientInv, UNCHANGED <<host, callVars, cacheVars, recorded, calls, second>>,
           usage' \subseteq usage
    PROVE  ClientInv'
<1> USE DEF ClientInv, callVars, cacheVars
<1>1. ClientTyped'
  BY DEF ClientTyped, CallTyped, CacheTyped
<1>2. CallsPay' /\ RowsAndSlots'
  BY DEF CallsPay, InFlight, RowsAndSlots, Slots
<1>3. QED
  BY <1>1, <1>2

LEMMA FilesAreFinite ==
    \A S \in SUBSET Names : IsFiniteSet(S) /\ Cardinality(S) \in Nat
<1>1. IsFiniteSet(Seconds)
  BY LimitsAssumption, FS_Interval DEF Seconds
<1>2. IsFiniteSet(Names)
  BY <1>1, LimitsAssumption, FS_Product DEF Names
<1>3. QED
  BY <1>2, FS_Subset, FS_CardinalityType

BudgetTyped ==
    /\ faults \in 0 .. MaxFaults
    /\ asking \in [Callers -> {"no", "query", "fill", "told"}]
    /\ alertAge \in Ages
    /\ alerted \in BOOLEAN
    /\ total \in Nat

\* What is answered and cached has been the total, which never shrinks.
AnswersAreOld ==
    /\ answer \in [Callers -> Nat] /\ \A c \in Callers : answer[c] <= total
    /\ checked # NotCached => checked \in Nat /\ checked <= total
    /\ alerted => total >= Budget

\* The rows of the table are r; with the files still to be counted and the calls still to
\* write one, they are paid for by the calls and by the interruptions.
RowsArePaid ==
    \E r \in Nat : /\ total = CallCost * r
                   /\ r + Cardinality(usage \ {current}) + Cardinality(InFlight) <= calls + faults

MoneyInv == BudgetTyped /\ AnswersAreOld /\ RowsArePaid

LedgerInv == ClientInv /\ IInv /\ MoneyInv

LEMMA LedgerNumbers ==
    /\ CallCost \in Nat /\ Budget \in Nat \ {0} /\ MaxFaults \in Nat /\ NoFile \notin Names
    /\ calls \in 0 .. MaxCalls => calls \in Nat
BY LedgerAssumption, LimitsAssumption

LEMMA CallersAndAges ==
    /\ "monitor" \in Callers /\ "request" \in Callers
    /\ "an hour" \in Ages /\ "half an hour" \in Ages /\ "recent" \in Ages
BY DEF Callers, Ages

LEMMA MoneyInit == Init => MoneyInv
<1> SUFFICES ASSUME Init
             PROVE  MoneyInv
  OBVIOUS
<1>1. /\ total = 0 /\ usage = {} /\ calls = 0 /\ faults = 0 /\ checked = NotCached
  BY DEF Init, ClientInit
<1>2. BudgetTyped /\ AnswersAreOld
  <2>1. asking \in [Callers -> {"no", "query", "fill", "told"}] /\ alertAge \in Ages
    BY CallersAndAges DEF Init
  <2>2. answer \in [Callers -> Nat] /\ \A c \in Callers : answer[c] = 0
    BY DEF Init
  <2>3. alerted = FALSE
    BY DEF Init
  <2>4. faults \in 0 .. MaxFaults /\ total \in Nat
    BY <1>1, LedgerNumbers
  <2>5. BudgetTyped
    BY <2>1, <2>3, <2>4 DEF BudgetTyped
  <2>6. AnswersAreOld
    BY <1>1, <2>2, <2>3 DEF AnswersAreOld
  <2>7. QED
    BY <2>5, <2>6
<1>3. usage \ {current} = {} /\ InFlight = {}
  BY <1>1 DEF Init, ClientInit, InFlight
<1>4. Cardinality(usage \ {current}) = 0 /\ Cardinality(InFlight) = 0
  BY <1>3, FS_EmptySet
<1>5. RowsArePaid
  <2>1. total = CallCost * 0
    BY <1>1, LedgerNumbers
  <2>2. 0 + Cardinality(usage \ {current}) + Cardinality(InFlight) <= calls + faults
    BY <1>1, <1>4
  <2>3. QED
    BY <2>1, <2>2 DEF RowsArePaid
<1>6. QED
  BY <1>2, <1>5 DEF MoneyInv

\* No row is committed, and what may become one does not outgrow the calls and interruptions.
LEMMA RowsStay ==
    ASSUME RowsArePaid, calls \in Nat, faults \in Nat, calls' \in Nat, faults' \in Nat,
           usage \subseteq Names, usage' \subseteq Names, total' = total,
           Cardinality(usage' \ {current'}) + Cardinality(InFlight') + calls + faults
             <= Cardinality(usage \ {current}) + Cardinality(InFlight) + calls' + faults'
    PROVE  RowsArePaid'
<1>1. PICK r \in Nat : /\ total = CallCost * r
                       /\ r + Cardinality(usage \ {current}) + Cardinality(InFlight) <= calls + faults
  BY DEF RowsArePaid
<1>2. /\ Cardinality(usage \ {current}) \in Nat /\ Cardinality(usage' \ {current'}) \in Nat
      /\ Cardinality(InFlight) \in Nat /\ Cardinality(InFlight') \in Nat
  <2>1. usage \ {current} \in SUBSET Names /\ usage' \ {current'} \in SUBSET Names
    OBVIOUS
  <2>2. IsFiniteSet(InFlight')
    BY LimitsAssumption, FS_Subset DEF InFlight
  <2>3. QED
    BY <2>1, <2>2, FilesAreFinite, InFlightIsFinite, FS_CardinalityType
<1>3. r + Cardinality(usage' \ {current'}) + Cardinality(InFlight') <= calls' + faults'
  BY <1>1, <1>2
<1>4. QED
  BY <1>1, <1>3 DEF RowsArePaid

\* The budget check and the monitor look at the total and change nothing else.
LEMMA AnswersStay ==
    ASSUME AnswersAreOld, total \in Nat, total' \in Nat, total <= total',
           UNCHANGED <<answer, checked, alerted>>
    PROVE  AnswersAreOld'
<1>1. answer' \in [Callers -> Nat] /\ \A c \in Callers : answer'[c] <= total'
  BY DEF AnswersAreOld
<1>2. checked' # NotCached => checked' \in Nat /\ checked' <= total'
  BY DEF AnswersAreOld
<1>3. alerted' => total' >= Budget
  BY LedgerNumbers DEF AnswersAreOld
<1>4. QED
  BY <1>1, <1>2, <1>3 DEF AnswersAreOld

LEMMA CheckKeeps ==
    ASSUME BudgetTyped, AnswersAreOld, NEW c \in Callers,
           CheckMisses(c) \/ CheckQuery(c) \/ CheckFill(c)
    PROVE  BudgetTyped' /\ AnswersAreOld'
<1>1. UNCHANGED <<total, faults, alertAge, alerted>>
  BY DEF CheckMisses, CheckQuery, CheckFill, importVars, rowVars
<1>2. asking' \in [Callers -> {"no", "query", "fill", "told"}]
  BY DEF BudgetTyped, CheckMisses, CheckQuery, CheckFill, Done
<1>3. BudgetTyped'
  BY <1>1, <1>2 DEF BudgetTyped
<1>4. /\ answer \in [Callers -> Nat] /\ \A x \in Callers : answer[x] <= total
      /\ checked # NotCached => checked \in Nat /\ checked <= total
      /\ total \in Nat
  BY DEF AnswersAreOld, BudgetTyped
<1>5. answer' \in [Callers -> Nat] /\ \A x \in Callers : answer'[x] <= total
  <2>1. answer' = answer \/ answer' = [answer EXCEPT ![c] = total] \/ answer' = [answer EXCEPT ![c] = 0]
    BY DEF CheckMisses, CheckQuery, CheckFill, Done
  <2>2. QED
    BY <1>4, <2>1
<1>6. checked' # NotCached => checked' \in Nat /\ checked' <= total
  <2>1. checked' = checked \/ checked' \in {NotCached, answer[c]}
    BY DEF CheckMisses, CheckQuery, CheckFill
  <2>2. QED
    BY <1>4, <2>1
<1>7. AnswersAreOld'
  BY <1>1, <1>5, <1>6 DEF AnswersAreOld
<1>8. QED
  BY <1>3, <1>7

LEMMA MonitorKeeps ==
    ASSUME BudgetTyped, AnswersAreOld,
           CheckHits \/ Alert \/ NoAlert \/ BudgetExpires \/ AlertAges
    PROVE  BudgetTyped' /\ AnswersAreOld'
<1>1. UNCHANGED <<total, faults>>
  BY DEF CheckHits, Alert, NoAlert, BudgetExpires, AlertAges, importVars, rowVars
<1>2. asking' \in [Callers -> {"no", "query", "fill", "told"}] /\ alertAge' \in Ages
  BY DEF BudgetTyped, CheckHits, Alert, NoAlert, BudgetExpires, AlertAges, Done, Ages
<1>3. /\ answer \in [Callers -> Nat] /\ \A x \in Callers : answer[x] <= total
      /\ checked # NotCached => checked \in Nat /\ checked <= total
      /\ total \in Nat
  BY DEF AnswersAreOld, BudgetTyped
<1>4. answer' \in [Callers -> Nat] /\ \A x \in Callers : answer'[x] <= total
  <2>1. \/ answer' = answer
        \/ answer' = [answer EXCEPT !["monitor"] = checked] /\ checked # NotCached
        \/ answer' = [answer EXCEPT !["monitor"] = 0]
    BY DEF CheckHits, Alert, NoAlert, BudgetExpires, AlertAges, Done
  <2>2. QED
    BY <1>3, <2>1
<1>5. checked' # NotCached => checked' \in Nat /\ checked' <= total
  <2>1. checked' = checked \/ checked' = NotCached
    BY DEF CheckHits, Alert, NoAlert, BudgetExpires, AlertAges
  <2>2. QED
    BY <1>3, <2>1
<1>6. alerted' \in BOOLEAN /\ (alerted' => total >= Budget)
  <2>1. CASE Alert
    <3>1. alerted' = (alerted \/ IsExceeded(answer["monitor"]))
      BY <2>1 DEF Alert
    <3>2. IsExceeded(answer["monitor"]) => total >= Budget
      <4>1. answer["monitor"] \in Nat /\ answer["monitor"] <= total
        BY <1>3, CallersAndAges
      <4>2. ASSUME NEW n \in Nat, n <= total, n >= Budget
            PROVE  total >= Budget
        BY <1>3, <4>2, LedgerNumbers
      <4>3. QED
        BY <4>1, <4>2 DEF IsExceeded
    <3>3. IsExceeded(answer["monitor"]) \in BOOLEAN
      BY DEF IsExceeded
    <3>4. alerted \in BOOLEAN /\ (alerted => total >= Budget)
      BY DEF AnswersAreOld, BudgetTyped
    <3>5. QED
      BY <3>1, <3>2, <3>3, <3>4, Zenon
  <2>2. CASE ~Alert
    <3>1. alerted' = alerted
      BY <2>2 DEF CheckHits, NoAlert, BudgetExpires, AlertAges
    <3>2. QED
      BY <3>1 DEF AnswersAreOld, BudgetTyped
  <2>3. QED
    BY <2>1, <2>2
<1>7. BudgetTyped'
  BY <1>1, <1>2, <1>6 DEF BudgetTyped
<1>8. AnswersAreOld'
  BY <1>1, <1>4, <1>5, <1>6 DEF AnswersAreOld
<1>9. QED
  BY <1>7, <1>8

LEMMA MoneyElsewhere ==
    ASSUME ClientInv, MoneyInv, UNCHANGED <<calls, usage, pc, total, current, faults, budgetVars>>
    PROVE  MoneyInv'
<1>1. BudgetTyped' /\ AnswersAreOld'
  BY DEF MoneyInv, BudgetTyped, AnswersAreOld, budgetVars
<1>2. InFlight' = InFlight
  BY DEF InFlight
<1>3. RowsArePaid'
  BY <1>2 DEF MoneyInv, RowsArePaid
<1>4. QED
  BY <1>1, <1>3 DEF MoneyInv

\* A step of the importer that commits no row: files go, or it is interrupted.
LEMMA FilesGo ==
    ASSUME ClientInv, MoneyInv, UNCHANGED <<calls, pc, total>>,
           faults' \in 0 .. MaxFaults, usage' \subseteq Names,
           \/ usage' \ {current'} \subseteq usage \ {current} /\ faults <= faults'
           \/ usage' \ {current'} \subseteq usage /\ faults' = faults + 1
    PROVE  RowsArePaid'
<1>1. /\ BudgetTyped /\ AnswersAreOld /\ RowsArePaid
      /\ calls \in Nat /\ usage \subseteq Names
  BY DEF MoneyInv, ClientInv, ClientTyped
<1>2. faults \in Nat /\ faults' \in Nat /\ faults <= faults'
  BY <1>1, LedgerNumbers DEF BudgetTyped
<1>3. InFlight' = InFlight
  BY DEF InFlight
<1> DEFINE after == usage' \ {current'}
           before == usage \ {current}
<1>4. /\ IsFiniteSet(usage) /\ IsFiniteSet(before) /\ Cardinality(before) \in Nat
      /\ IsFiniteSet(after) /\ Cardinality(after) \in Nat /\ Cardinality(usage) \in Nat
  <2>1. after \in SUBSET Names /\ before \in SUBSET Names /\ usage \in SUBSET Names
    BY <1>1
  <2>2. QED
    BY <2>1, FilesAreFinite
<1>5. Cardinality(usage) <= Cardinality(before) + 1
  <2>1. IsFiniteSet(usage \ {current}) /\ Cardinality(usage \ {current}) =
            IF current \in usage THEN Cardinality(usage) - 1 ELSE Cardinality(usage)
    BY <1>4, FS_RemoveElement
  <2>2. QED
    BY <1>4, <2>1
<1> HIDE DEF after, before
<1>6. Cardinality(after) + faults <= Cardinality(before) + faults'
  <2>1. CASE after \subseteq before
    <3>1. Cardinality(after) <= Cardinality(before)
      BY <1>4, <2>1, FS_Subset
    <3>2. QED
      BY <1>2, <1>4, <3>1
  <2>2. CASE after \subseteq usage /\ faults' = faults + 1
    <3>1. Cardinality(after) <= Cardinality(usage)
      BY <1>4, <2>2, FS_Subset
    <3>2. QED
      BY <1>2, <1>4, <1>5, <2>2, <3>1
  <2>3. QED
    BY <2>1, <2>2 DEF after, before
<1>7. Cardinality(after) + Cardinality(InFlight') + calls + faults
      <= Cardinality(before) + Cardinality(InFlight) + calls' + faults'
  BY <1>1, <1>2, <1>3, <1>4, <1>6, InFlightIsFinite
<1>8. QED
  BY <1>1, <1>2, <1>7, RowsStay DEF after, before

\* A row for a file that was there to be counted.
LEMMA CountPays ==
    ASSUME LedgerInv, NEW n \in Names, ImportCount(n)
    PROVE  MoneyInv'
<1>1. /\ BudgetTyped /\ AnswersAreOld /\ RowsArePaid
      /\ calls \in Nat /\ usage \subseteq Names /\ total \in Nat /\ faults \in Nat
  BY LedgerNumbers DEF LedgerInv, MoneyInv, ClientInv, ClientTyped, BudgetTyped
<1>2. /\ n \in usage /\ current = NoFile /\ current' = n /\ total' = total + CallCost
      /\ UNCHANGED <<calls, usage, pc, faults, budgetVars>>
  BY DEF LedgerInv, IInv, LedgerTyped, ImportCount, clientVars, callVars, fileVars
<1>3. total' \in Nat /\ total <= total'
  BY <1>1, <1>2, LedgerNumbers
<1>4. BudgetTyped'
  BY <1>1, <1>2, <1>3 DEF BudgetTyped, budgetVars
<1>5. AnswersAreOld'
  BY <1>1, <1>2, <1>3, AnswersStay DEF budgetVars
<1>6. PICK r \in Nat : /\ total = CallCost * r
                       /\ r + Cardinality(usage \ {current}) + Cardinality(InFlight) <= calls + faults
  BY <1>1 DEF RowsArePaid
<1>7. usage \ {current} = usage /\ InFlight' = InFlight /\ usage' \ {current'} = usage \ {n}
  BY <1>1, <1>2, LedgerNumbers DEF InFlight
<1>8. Cardinality(usage \ {n}) = Cardinality(usage) - 1 /\ Cardinality(usage) \in Nat
  BY <1>1, <1>2, FilesAreFinite, FS_RemoveElement
<1>9. total' = CallCost * (r + 1)
  BY <1>2, <1>6, LedgerNumbers
<1>10. (r + 1) + Cardinality(usage' \ {current'}) + Cardinality(InFlight') <= calls' + faults'
  BY <1>1, <1>2, <1>6, <1>7, <1>8, InFlightIsFinite
<1>11. RowsArePaid'
  BY <1>9, <1>10 DEF RowsArePaid
<1>12. QED
  BY <1>4, <1>5, <1>11 DEF MoneyInv

\* Calls begin, end and write their files while the importer is wherever it is.
LEMMA CallsPayRows ==
    ASSUME LedgerInv, ClientInv', Clients
    PROVE  MoneyInv'
<1> USE DEF Clients, rowVars
<1>1. /\ BudgetTyped /\ AnswersAreOld /\ RowsArePaid
      /\ calls \in Nat /\ calls' \in Nat /\ usage \subseteq Names /\ usage' \subseteq Names
      /\ faults \in Nat /\ faults' = faults /\ total' = total /\ current' = current
  BY LedgerNumbers DEF LedgerInv, MoneyInv, ClientInv, ClientTyped, BudgetTyped
<1>2. BudgetTyped' /\ AnswersAreOld'
  BY <1>1 DEF BudgetTyped, AnswersAreOld, budgetVars
<1>3. Cardinality(InFlight) \in Nat /\ Cardinality(InFlight') \in Nat
  <2>1. IsFiniteSet(InFlight')
    BY LimitsAssumption, FS_Subset DEF InFlight
  <2>2. QED
    BY <2>1, InFlightIsFinite, FS_CardinalityType
<1>4. /\ IsFiniteSet(usage \ {current}) /\ Cardinality(usage \ {current}) \in Nat
      /\ IsFiniteSet(usage' \ {current}) /\ Cardinality(usage' \ {current}) \in Nat
  <2>1. usage \ {current} \in SUBSET Names /\ usage' \ {current} \in SUBSET Names
    BY <1>1
  <2>2. QED
    BY <2>1, FilesAreFinite
<1>5. Cardinality(usage' \ {current}) + Cardinality(InFlight') + calls
      <= Cardinality(usage \ {current}) + Cardinality(InFlight) + calls'
  <2>1. CASE usage' = usage /\ Cardinality(InFlight') + calls <= Cardinality(InFlight) + calls'
    BY <1>1, <1>3, <1>4, <2>1
  <2>2. ASSUME NEW n \in Names, usage' = usage \union {n}, calls' = calls,
               Cardinality(InFlight') + 1 = Cardinality(InFlight)
        PROVE  Cardinality(usage' \ {current}) + Cardinality(InFlight') + calls
               <= Cardinality(usage \ {current}) + Cardinality(InFlight) + calls'
    <3> DEFINE before == usage \ {current}
               after == usage' \ {current}
    <3>1. after \subseteq before \union {n}
      BY <2>2
    <3> HIDE DEF before, after
    <3>2. /\ IsFiniteSet(before \union {n}) /\ Cardinality(before) \in Nat
          /\ \/ Cardinality(before \union {n}) = Cardinality(before)
             \/ Cardinality(before \union {n}) = Cardinality(before) + 1
      BY <1>4, FS_AddElement DEF before
    <3>3. Cardinality(after) <= Cardinality(before \union {n}) /\ Cardinality(after) \in Nat
      BY <1>4, <3>1, <3>2, FS_Subset DEF after
    <3>4. QED
      BY <1>1, <1>3, <2>2, <3>2, <3>3 DEF before, after
  <2>3. QED
    BY <2>1, <2>2, CallsBalance DEF LedgerInv
<1>6. RowsArePaid'
  <2>1. Cardinality(usage' \ {current'}) + Cardinality(InFlight') + calls + faults
        <= Cardinality(usage \ {current}) + Cardinality(InFlight) + calls' + faults'
    BY <1>1, <1>3, <1>4, <1>5
  <2>2. QED
    BY <1>1, <2>1, RowsStay
<1>7. QED
  BY <1>2, <1>6 DEF MoneyInv

LEMMA LedgerStep ==
    ASSUME LedgerInv, Next
    PROVE  LedgerInv'
<1> USE DEF LedgerInv
<1>0. IInv'
  BY StepInv
<1>1. CASE Clients
  <2>1. ClientInv'
    BY <1>1, ClientStepInv DEF Clients
  <2>2. QED
    BY <1>0, <1>1, <2>1, CallsPayRows
<1>2. ASSUME NEW n \in Names, ImportCount(n)
      PROVE  LedgerInv'
  <2>1. UNCHANGED clientVars
    BY <1>2 DEF ImportCount
  <2>2. QED
    BY <1>0, <1>2, <2>1, ClientStutter, CountPays
<1>3. ASSUME UNCHANGED <<host, callVars, cacheVars, recorded, calls, second, total>>,
             ImportList \/ ImportDelete \/ ImportAborts \/ (\E n \in Names : ImportFails(n)) \/ Restart
      PROVE  LedgerInv'
  <2>1. usage' \subseteq usage /\ usage \subseteq Names
    BY <1>3 DEF ImportList, ImportDelete, ImportAborts, ImportFails, Restart, clientVars, fileVars,
       ClientInv, ClientTyped
  <2>2. ClientInv'
    BY <1>3, <2>1, ImporterKeepsClient
  <2>3. BudgetTyped /\ AnswersAreOld /\ faults \in Nat
    BY LedgerNumbers DEF MoneyInv, BudgetTyped
  <2>4. faults' \in 0 .. MaxFaults /\ faults' \in {faults, faults + 1}
    <3>1. faults' = faults \/ (faults < MaxFaults /\ faults' = faults + 1)
      <4>1. ASSUME ImportList \/ ImportDelete
            PROVE  faults' = faults
        BY <4>1 DEF ImportList, ImportDelete
      <4>2. CASE ImportAborts \/ Restart
        BY <4>2 DEF ImportAborts, Restart
      <4>3. ASSUME NEW n \in Names, ImportFails(n)
            PROVE  faults < MaxFaults /\ faults' = faults + 1
        BY <4>3 DEF ImportFails
      <4>4. QED
        BY <1>3, <4>1, <4>2, <4>3
    <3>2. faults \in 0 .. MaxFaults
      BY <2>3 DEF BudgetTyped
    <3>3. QED
      BY <3>1, <3>2, LedgerNumbers
  <2>5. \/ usage' \ {current'} \subseteq usage \ {current} /\ faults <= faults'
        \/ usage' \ {current'} \subseteq usage /\ faults' = faults + 1
    <3>1. CASE ImportList \/ ImportDelete
      <4>1. faults' = faults /\ usage' \ {current'} \subseteq usage \ {current}
        BY <2>1, <3>1, LedgerNumbers DEF ImportList, ImportDelete, clientVars, fileVars
      <4>2. QED
        BY <2>3, <4>1
    <3>2. CASE ImportAborts \/ (\E n \in Names : ImportFails(n)) \/ Restart
      BY <2>1, <3>2 DEF ImportAborts, ImportFails, Restart
    <3>3. QED
      BY <1>3, <3>1, <3>2
  <2>6. RowsArePaid'
    <3>1. UNCHANGED <<calls, pc, total>> /\ usage' \subseteq Names
      BY <1>3, <2>1 DEF callVars
    <3>2. QED
      BY <2>4, <2>5, <3>1, FilesGo
  <2>7. BudgetTyped' /\ AnswersAreOld'
    <3>1. CASE UNCHANGED budgetVars
      BY <1>3, <2>3, <2>4, <3>1 DEF BudgetTyped, AnswersAreOld, budgetVars
    <3>2. CASE Restart
      <4>1. /\ checked' = NotCached /\ alerted' = alerted /\ total' = total
            /\ answer' = [c \in Callers |-> 0] /\ asking' = [c \in Callers |-> "no"]
            /\ alertAge' = "an hour"
        BY <3>2 DEF Restart
      <4>2. asking' \in [Callers -> {"no", "query", "fill", "told"}] /\ alertAge' \in Ages
        BY <4>1 DEF Ages
      <4>3. BudgetTyped'
        BY <2>3, <2>4, <4>1, <4>2 DEF BudgetTyped
      <4>4. answer' \in [Callers -> Nat] /\ \A c \in Callers : answer'[c] = 0
        BY <3>2 DEF Restart
      <4>5. \A c \in Callers : answer'[c] <= total'
        BY <1>3, <2>3, <4>4 DEF BudgetTyped
      <4>6. AnswersAreOld'
        <5>1. (checked' # NotCached => checked' \in Nat /\ checked' <= total')
              /\ (alerted' => total' >= Budget)
          BY <2>3, <4>1 DEF AnswersAreOld
        <5>2. QED
          BY <4>4, <4>5, <5>1 DEF AnswersAreOld
      <4>7. QED
        BY <4>3, <4>6
    <3>3. QED
      BY <1>3, <3>1, <3>2 DEF ImportList, ImportDelete, ImportAborts, ImportFails
  <2>8. QED
    BY <1>0, <2>2, <2>6, <2>7 DEF MoneyInv
<1>4. CASE ImportList \/ ImportDelete \/ ImportAborts \/ (\E n \in Names : ImportFails(n)) \/ Restart
  <2>1. UNCHANGED <<host, callVars, cacheVars, recorded, calls, second, total>>
    BY <1>4 DEF ImportList, ImportDelete, ImportAborts, ImportFails, Restart, clientVars, fileVars
  <2>2. QED
    BY <1>3, <1>4, <2>1
<1>5. ASSUME \/ \E c \in Callers : CheckMisses(c) \/ CheckQuery(c) \/ CheckFill(c)
             \/ CheckHits \/ Alert \/ NoAlert \/ BudgetExpires \/ AlertAges
      PROVE  LedgerInv'
  <2>1. UNCHANGED <<clientVars, importVars, faults>>
    BY <1>5 DEF CheckMisses, CheckQuery, CheckFill, CheckHits, Alert, NoAlert, BudgetExpires, AlertAges
  <2>2. ClientInv'
    BY <2>1, ClientStutter
  <2>3. BudgetTyped' /\ AnswersAreOld'
    BY <1>5, CheckKeeps, MonitorKeeps DEF MoneyInv
  <2>4. RowsArePaid'
    <3>1. UNCHANGED <<calls, usage, pc, total, current, faults>>
      BY <2>1 DEF clientVars, callVars, fileVars, importVars, rowVars
    <3>2. InFlight' = InFlight
      BY <3>1 DEF InFlight
    <3>3. QED
      BY <3>1, <3>2 DEF MoneyInv, RowsArePaid
  <2>5. QED
    BY <1>0, <2>2, <2>3, <2>4 DEF MoneyInv
<1>6. QED
  BY <1>1, <1>2, <1>4, <1>5, CallersAndAges DEF Next, Import, Monitor

LEMMA LedgerInductive == Spec => []LedgerInv
<1>1. Init => LedgerInv
  BY InitInv, MoneyInit, ClientInitInv DEF Init, LedgerInv
<1>2. LedgerInv /\ [Next]_vars => LedgerInv'
  <2>1. ASSUME LedgerInv, UNCHANGED vars
        PROVE  LedgerInv'
    <3>1. IInv' /\ ClientInv'
      BY <2>1, StepInv, ClientStutter DEF vars, LedgerInv
    <3>2. UNCHANGED <<calls, usage, pc, total, current, faults, budgetVars>>
      BY <2>1 DEF vars, clientVars, callVars, fileVars, importVars, rowVars
    <3>3. QED
      BY <2>1, <3>1, <3>2, MoneyElsewhere DEF LedgerInv
  <2>2. QED
    BY <2>1, LedgerStep
<1>3. QED
  BY <1>1, <1>2, PTL DEF Spec

-----------------------------------------------------------------------------

LEMMA RowsAreBounded ==
    ASSUME LedgerInv
    PROVE  /\ total <= CallCost * (calls + faults)
           /\ calls + faults <= MaxCalls + MaxFaults /\ total <= MaxTotal
<1>1. PICK r \in Nat : /\ total = CallCost * r
                       /\ r + Cardinality(usage \ {current}) + Cardinality(InFlight) <= calls + faults
  BY DEF LedgerInv, MoneyInv, RowsArePaid
<1>2. calls \in 0 .. MaxCalls /\ faults \in 0 .. MaxFaults /\ MaxCalls \in Nat /\ MaxFaults \in Nat
  BY LedgerNumbers, LimitsAssumption DEF LedgerInv, MoneyInv, BudgetTyped, ClientInv, ClientTyped
<1>3. Cardinality(usage \ {current}) \in Nat
  BY FilesAreFinite DEF LedgerInv, ClientInv, ClientTyped
<1>4. r <= calls + faults
  BY <1>1, <1>2, <1>3, InFlightIsFinite
<1>5. \A m, n \in Nat : m <= n => CallCost * m <= CallCost * n
  BY LedgerNumbers
<1>6. CallCost * r <= CallCost * (calls + faults)
  BY <1>2, <1>4, <1>5
<1>7. calls + faults <= MaxCalls + MaxFaults
  BY <1>2
<1>8. CallCost * (calls + faults) <= MaxTotal
  BY <1>2, <1>5, <1>7 DEF MaxTotal
<1>9. CallCost * r \in Nat /\ CallCost * (calls + faults) \in Nat /\ MaxTotal \in Nat
  BY <1>2, LedgerNumbers DEF MaxTotal
<1>10. QED
  BY <1>1, <1>6, <1>7, <1>8, <1>9

\* The types of the whole, with the bounds of the counters: rows, files and sums are those of
\* at most MaxCalls calls and MaxFaults interruptions.
THEOREM LedgerTypeCorrect == Spec => []TypeOK
<1>1. LedgerInv => TypeOK
  <2> SUFFICES ASSUME LedgerInv
               PROVE  TypeOK
    OBVIOUS
  <2>1. /\ ClientInv /\ LedgerTyped /\ BudgetTyped /\ AnswersAreOld /\ BudgetOfRows
        /\ total \in Nat
    BY DEF LedgerInv, IInv, MoneyInv, BudgetTyped
  <2>2. ClientTypeOK
    BY <2>1, ClientTypes
  <2>3. calls \in 0 .. MaxCalls /\ faults \in 0 .. MaxFaults /\ MaxCalls \in Nat /\ MaxFaults \in Nat
    BY <2>1, LedgerNumbers, LimitsAssumption DEF BudgetTyped, ClientInv, ClientTyped
  <2>4. MaxTotal \in Nat /\ total <= MaxTotal
    BY <2>3, RowsAreBounded, LedgerNumbers DEF MaxTotal
  <2>5. counted \in [Names -> 0 .. MaxCalls + MaxFaults]
    <3>1. counted \in [Names -> Nat] /\ recorded \in [Names -> 0 .. MaxCalls]
      BY <2>1, <2>2 DEF LedgerTyped, ClientTypeOK
    <3>2. ASSUME NEW n \in Names
          PROVE  counted[n] \in 0 .. MaxCalls + MaxFaults
      <4>1. counted[n] + Owed(n) <= recorded[n] + faults
        BY <2>1 DEF BudgetOfRows
      <4>2. Owed(n) \in Nat
        BY DEF Owed
      <4>3. counted[n] \in Nat /\ recorded[n] \in 0 .. MaxCalls
        BY <3>1
      <4>4. QED
        BY <2>3, <4>1, <4>2, <4>3
    <3>3. QED
      BY <3>1, <3>2
  <2>6. answer \in [Callers -> 0 .. MaxTotal]
    <3>1. answer \in [Callers -> Nat] /\ \A c \in Callers : answer[c] <= total
      BY <2>1 DEF AnswersAreOld
    <3>2. \A n \in Nat : n <= total => n \in 0 .. MaxTotal
      BY <2>1, <2>4
    <3>3. QED
      BY <3>1, <3>2
  <2>7. total \in 0 .. MaxTotal /\ checked \in {NotCached} \union 0 .. MaxTotal
    <3>1. checked # NotCached => checked \in Nat /\ checked <= total
      BY <2>1 DEF AnswersAreOld
    <3>2. QED
      BY <2>1, <2>4, <3>1
  <2>8. setAside \subseteq Names /\ listed \subseteq usage /\ current \in usage \union {NoFile}
       /\ replaced \in [Names -> Nat]
    BY <2>1 DEF LedgerTyped
  <2>9. QED
    BY <2>1, <2>2, <2>5, <2>6, <2>7, <2>8 DEF TypeOK, BudgetTyped
<1>2. QED
  BY <1>1, LedgerInductive, PTL

\* The sum of the table is paid for: it exceeds what the calls have cost by one call for each
\* interruption at most, whatever is lost, replaced and imported again.
THEOREM SpendingIsPaidFor == Spec => [](total <= CallCost * (calls + faults))
<1>1. LedgerInv => total <= CallCost * (calls + faults)
  BY RowsAreBounded
<1>2. QED
  BY <1>1, LedgerInductive, PTL

\* An alert that the budget is exceeded is true, although it goes by a cached or an overtaken
\* total (budget_monitor_target, check_budget_limit).
THEOREM AlertsAreTrue == Spec => [](alerted => total >= Budget)
<1>1. LedgerInv => (alerted => total >= Budget)
  BY DEF LedgerInv, MoneyInv, AnswersAreOld
<1>2. QED
  BY <1>1, LedgerInductive, PTL

\* The importer and the dashboard do not disturb the table of answers.
THEOREM CacheStaysBounded == Spec => []CacheBounded
<1>1. LedgerInv => CacheBounded
  BY RowsAreWithin DEF LedgerInv
<1>2. QED
  BY <1>1, LedgerInductive, PTL

=============================================================================
