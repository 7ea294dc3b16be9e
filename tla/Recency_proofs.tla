--------------------------- MODULE Recency_proofs ---------------------------
(* Lemmas about keys in the order of their last use. *)
EXTENDS Recency, SequenceTheorems, TLAPS

\* Without takes one place, and that key alone, from a sequence that has no key twice.
LEMMA WithoutFacts ==
    ASSUME NEW S, NEW keys \in Seq(S), IsInjective(keys), NEW k
    PROVE  /\ Without(keys, k) \in Seq(S) /\ IsInjective(Without(keys, k))
           /\ ToSet(Without(keys, k)) = ToSet(keys) \ {k}
           /\ Len(Without(keys, k)) = IF k \in ToSet(keys) THEN Len(keys) - 1 ELSE Len(keys)
<1>1. CASE k \notin ToSet(keys)
  BY <1>1 DEF Without
<1>2. CASE k \in ToSet(keys)
  <2> DEFINE i == CHOOSE j \in DOMAIN keys : keys[j] = k
             rest == SubSeq(keys, 1, i - 1) \o SubSeq(keys, i + 1, Len(keys))
  <2>1. i \in 1 .. Len(keys) /\ keys[i] = k
    BY <1>2 DEF ToSet
  <2>2. Without(keys, k) = rest
    BY <1>2 DEF Without, RemoveAt
  <2> HIDE DEF i
  <2>3. /\ rest \in Seq(S) /\ Len(rest) = Len(keys) - 1
        /\ \A j \in 1 .. Len(rest) : rest[j] = IF j < i THEN keys[j] ELSE keys[j + 1]
    <3> DEFINE before == SubSeq(keys, 1, i - 1)
               after == SubSeq(keys, i + 1, Len(keys))
    <3>1. /\ before \in Seq(S) /\ Len(before) = i - 1
          /\ \A j \in 1 .. i - 1 : before[j] = keys[j]
      BY <2>1, SubSeqProperties
    <3>2. /\ after \in Seq(S) /\ Len(after) = Len(keys) - i
          /\ \A j \in 1 .. Len(keys) - i : after[j] = keys[j + i]
      BY <2>1, SubSeqProperties
    <3> HIDE DEF before, after
    <3>3. /\ before \o after \in Seq(S) /\ Len(before \o after) = Len(keys) - 1
          /\ \A j \in 1 .. Len(keys) - 1 :
                 (before \o after)[j] = IF j < i THEN before[j] ELSE after[j - (i - 1)]
      <4>1. /\ before \o after \in Seq(S) /\ Len(before \o after) = Len(before) + Len(after)
            /\ \A j \in 1 .. Len(before) + Len(after) :
                   (before \o after)[j] = IF j <= Len(before) THEN before[j] ELSE after[j - Len(before)]
        BY <3>1, <3>2, ConcatProperties
      <4> DEFINE both == before \o after
      <4> HIDE DEF both
      <4>2. both \in Seq(S) /\ Len(both) = Len(keys) - 1
        BY <2>1, <3>1, <3>2, <4>1 DEF both
      <4>3. ASSUME NEW j \in 1 .. Len(keys) - 1
            PROVE  both[j] = IF j < i THEN before[j] ELSE after[j - (i - 1)]
        BY <2>1, <3>1, <3>2, <4>1 DEF both
      <4>4. QED
        BY <4>2, <4>3 DEF both
    <3>4. \A j \in 1 .. Len(keys) - 1 : j >= i => after[j - (i - 1)] = keys[j + 1]
      BY <2>1, <3>2
    <3>5. rest = before \o after
      BY DEF before, after
    <3> HIDE DEF rest
    <3>6. rest \in Seq(S) /\ Len(rest) = Len(keys) - 1
      BY <3>3, <3>5
    <3>7. ASSUME NEW j \in 1 .. Len(keys) - 1
          PROVE  rest[j] = IF j < i THEN keys[j] ELSE keys[j + 1]
      <4>1. rest[j] = IF j < i THEN before[j] ELSE after[j - (i - 1)]
        BY <3>3, <3>5
      <4>2. CASE j < i
        BY <2>1, <3>1, <4>1, <4>2
      <4>3. CASE ~(j < i)
        BY <2>1, <3>4, <4>1, <4>3
      <4>4. QED
        BY <4>2, <4>3
    <3>8. QED
      BY <3>6, <3>7
  <2> HIDE DEF rest
  <2>4. IsInjective(rest)
    <3> DEFINE at(j) == IF j < i THEN j ELSE j + 1
    <3>1. \A j \in 1 .. Len(rest) : at(j) \in 1 .. Len(keys) /\ rest[j] = keys[at(j)]
      BY <2>1, <2>3
    <3>2. \A j, l \in 1 .. Len(rest) : at(j) = at(l) => j = l
      BY <2>1, <2>3
    <3> HIDE DEF at
    <3>3. DOMAIN rest = 1 .. Len(rest) /\ DOMAIN keys = 1 .. Len(keys)
      BY <2>3
    <3>4. QED
      BY <3>1, <3>2, <3>3 DEF IsInjective
  <2>5. ToSet(rest) \subseteq ToSet(keys) \ {k}
    BY <2>1, <2>3 DEF IsInjective, ToSet
  <2>6. ASSUME NEW x \in ToSet(keys) \ {k}
        PROVE  x \in ToSet(rest)
    <3>1. PICK j \in 1 .. Len(keys) : keys[j] = x
      BY DEF ToSet
    <3>2. CASE j < i
      <4>1. j \in 1 .. Len(rest) /\ rest[j] = x
        BY <2>1, <2>3, <3>1, <3>2
      <4>2. QED
        BY <2>3, <4>1 DEF ToSet
    <3>3. CASE j > i
      <4>1. j - 1 \in 1 .. Len(rest) /\ rest[j - 1] = x
        BY <2>1, <2>3, <3>1, <3>3
      <4>2. QED
        BY <2>3, <4>1 DEF ToSet
    <3>4. QED
      BY <2>1, <3>1, <3>2, <3>3
  <2>7. QED
    BY <1>2, <2>2, <2>3, <2>4, <2>5, <2>6
<1>3. QED
  BY <1>1, <1>2

LEMMA AppendFacts ==
    ASSUME NEW S, NEW keys \in Seq(S), IsInjective(keys), NEW k \in S \ ToSet(keys)
    PROVE  /\ Append(keys, k) \in Seq(S) /\ IsInjective(Append(keys, k))
           /\ ToSet(Append(keys, k)) = ToSet(keys) \union {k}
           /\ Len(Append(keys, k)) = Len(keys) + 1
<1> DEFINE more == Append(keys, k)
<1>1. /\ more \in Seq(S) /\ Len(more) = Len(keys) + 1 /\ more[Len(keys) + 1] = k
      /\ \A i \in 1 .. Len(keys) : more[i] = keys[i]
  OBVIOUS
<1> HIDE DEF more
<1>2. \A i \in 1 .. Len(keys) : keys[i] # k
  BY DEF ToSet
<1>3. IsInjective(more)
  BY <1>1, <1>2 DEF IsInjective
<1>4. ToSet(more) = ToSet(keys) \union {k}
  <2>1. ToSet(more) \subseteq ToSet(keys) \union {k}
    BY <1>1 DEF ToSet
  <2>2. k \in ToSet(more)
    BY <1>1 DEF ToSet
  <2>3. ToSet(keys) \subseteq ToSet(more)
    BY <1>1 DEF ToSet
  <2>4. QED
    BY <2>1, <2>2, <2>3
<1>5. QED
  BY <1>1, <1>3, <1>4 DEF more

\* A key that is touched is there once; there is one more if it was not there.
LEMMA TouchedFacts ==
    ASSUME NEW S, NEW keys \in Seq(S), IsInjective(keys), NEW k \in S
    PROVE  /\ Touched(keys, k) \in Seq(S) /\ IsInjective(Touched(keys, k))
           /\ ToSet(Touched(keys, k)) = ToSet(keys) \union {k}
           /\ Len(Touched(keys, k)) = IF k \in ToSet(keys) THEN Len(keys) ELSE Len(keys) + 1
<1> DEFINE rest == Without(keys, k)
<1>1. /\ rest \in Seq(S) /\ IsInjective(rest) /\ ToSet(rest) = ToSet(keys) \ {k}
      /\ Len(rest) = IF k \in ToSet(keys) THEN Len(keys) - 1 ELSE Len(keys)
  BY WithoutFacts
<1> HIDE DEF rest
<1>2. /\ Append(rest, k) \in Seq(S) /\ IsInjective(Append(rest, k))
      /\ ToSet(Append(rest, k)) = ToSet(rest) \union {k} /\ Len(Append(rest, k)) = Len(rest) + 1
  BY <1>1, AppendFacts
<1>3. Touched(keys, k) = Append(rest, k)
  BY DEF Touched, rest
<1>4. QED
  BY <1>1, <1>2, <1>3

\* The keys that are left when the first n are dropped.
LEMMA DroppedFacts ==
    ASSUME NEW S, NEW keys \in Seq(S), IsInjective(keys), NEW n \in Nat
    PROVE  /\ Dropped(keys, n) \in Seq(S) /\ IsInjective(Dropped(keys, n))
           /\ ToSet(Dropped(keys, n)) \subseteq ToSet(keys)
           /\ Len(Dropped(keys, n)) = IF n <= Len(keys) THEN Len(keys) - n ELSE 0
<1> DEFINE rest == Dropped(keys, n)
<1>1. /\ rest \in Seq(S) /\ Len(rest) = IF n <= Len(keys) THEN Len(keys) - n ELSE 0
      /\ \A i \in 1 .. Len(rest) : rest[i] = keys[i + n] /\ i + n \in 1 .. Len(keys)
  <2>1. \A i \in n + 1 .. Len(keys) : keys[i] \in S
    OBVIOUS
  <2>2. /\ rest \in Seq(S)
        /\ Len(rest) = IF n + 1 <= Len(keys) THEN Len(keys) - (n + 1) + 1 ELSE 0
        /\ \A i \in 1 .. Len(keys) - (n + 1) + 1 : rest[i] = keys[n + 1 + i - 1]
    BY <2>1, SubSeqProperties DEF Dropped
  <2> HIDE DEF rest
  <2>3. QED
    BY <2>2
<1> HIDE DEF rest
<1>2. IsInjective(rest)
  <2>1. DOMAIN rest = 1 .. Len(rest) /\ DOMAIN keys = 1 .. Len(keys)
    BY <1>1
  <2>2. ASSUME NEW i \in 1 .. Len(rest), NEW j \in 1 .. Len(rest), rest[i] = rest[j]
        PROVE  i = j
    <3>1. i + n = j + n
      BY <1>1, <2>1, <2>2 DEF IsInjective
    <3>2. QED
      BY <1>1, <3>1
  <2>3. QED
    BY <2>1, <2>2 DEF IsInjective
<1>3. ToSet(rest) \subseteq ToSet(keys)
  <2>1. ASSUME NEW i \in 1 .. Len(rest)
        PROVE  rest[i] \in ToSet(keys)
    <3>1. i + n \in DOMAIN keys /\ rest[i] = keys[i + n]
      BY <1>1
    <3>2. QED
      BY <3>1 DEF ToSet
  <2>2. ToSet(rest) = {rest[i] : i \in 1 .. Len(rest)}
    BY <1>1 DEF ToSet
  <2>3. QED
    BY <2>1, <2>2
<1>4. QED
  BY <1>1, <1>2, <1>3 DEF rest

\* The first key is gone.
LEMMA TailFacts ==
    ASSUME NEW S, NEW keys \in Seq(S), IsInjective(keys), keys # <<>>
    PROVE  /\ Tail(keys) \in Seq(S) /\ IsInjective(Tail(keys))
           /\ ToSet(Tail(keys)) = ToSet(keys) \ {Head(keys)} /\ Head(keys) \in ToSet(keys)
           /\ Len(Tail(keys)) = Len(keys) - 1
<1> DEFINE rest == Tail(keys)
<1>1. /\ rest \in Seq(S) /\ Len(rest) = Len(keys) - 1 /\ Len(keys) \in Nat \ {0}
      /\ \A i \in 1 .. Len(rest) : rest[i] = keys[i + 1]
      /\ Head(keys) = keys[1]
  BY HeadTailProperties, EmptySeq
<1> HIDE DEF rest
<1>2. DOMAIN rest = 1 .. Len(rest) /\ DOMAIN keys = 1 .. Len(keys)
  BY <1>1
<1>3. \A i, j \in 1 .. Len(keys) : keys[i] = keys[j] => i = j
  BY <1>2 DEF IsInjective
<1>4. IsInjective(rest)
  <2>1. ASSUME NEW i \in 1 .. Len(rest), NEW j \in 1 .. Len(rest), rest[i] = rest[j]
        PROVE  i = j
    <3>1. i + 1 \in 1 .. Len(keys) /\ j + 1 \in 1 .. Len(keys) /\ keys[i + 1] = keys[j + 1]
      BY <1>1, <2>1
    <3>2. i + 1 = j + 1
      BY <1>3, <3>1
    <3>3. QED
      BY <1>1, <3>2
  <2>2. QED
    BY <1>2, <2>1 DEF IsInjective
<1>5. ToSet(rest) = ToSet(keys) \ {Head(keys)}
  <2>1. ASSUME NEW i \in 1 .. Len(rest)
        PROVE  rest[i] \in ToSet(keys) \ {Head(keys)}
    <3>1. i + 1 \in 1 .. Len(keys) /\ 1 \in 1 .. Len(keys) /\ i + 1 # 1
      BY <1>1
    <3>2. keys[i + 1] # keys[1]
      BY <1>3, <3>1
    <3>3. QED
      BY <1>1, <1>2, <3>1, <3>2 DEF ToSet
  <2>2. ASSUME NEW i \in 1 .. Len(keys), keys[i] # Head(keys)
        PROVE  keys[i] \in ToSet(rest)
    <3>1. i # 1
      BY <1>1, <2>2
    <3>2. i - 1 \in 1 .. Len(rest)
      BY <1>1, <3>1
    <3>3. rest[i - 1] = keys[(i - 1) + 1]
      BY <1>1, <3>2
    <3>4. (i - 1) + 1 = i
      OBVIOUS
    <3>5. QED
      BY <1>2, <3>2, <3>3, <3>4 DEF ToSet
  <2>3. QED
    BY <1>2, <2>1, <2>2 DEF ToSet
<1>6. Head(keys) \in ToSet(keys)
  BY <1>1, <1>2 DEF ToSet
<1>7. QED
  BY <1>1, <1>4, <1>5, <1>6 DEF rest

=============================================================================
