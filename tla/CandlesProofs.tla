---------------------------- MODULE CandlesProofs ----------------------------
(* Theorems about Candles. *)
EXTENDS Candles, SequenceTheorems, FiniteSetTheorems, TLAPS

-----------------------------------------------------------------------------
(* Finished candles in the order of their minutes: a set of them has exactly
   one such sequence, in which a candle's place is the number of the older ones
   and itself. *)

\* The candles that may reach the buffer: one of each minute.
Finals == {Finished(m) : m \in Minutes}

LEMMA FinalFacts ==
    /\ IsFiniteSet(Finals)
    /\ Finals \subseteq Candle
    /\ \A c \in Finals : c.time \in Nat /\ c.time > 0 /\ c.time \in Minutes /\ c.final = TRUE
    /\ \A c, d \in Finals : c.time = d.time => c = d
<1>1. MaxMinute \in Nat
  BY CandlesAssumption
<1>0. ASSUME NEW c \in Finals
      PROVE  c = Finished(c.time) /\ c.time \in Minutes /\ c.final = TRUE /\ c \in Candle
  <2>1. PICK m \in Minutes : c = Finished(m)
    BY DEF Finals
  <2> QED
    BY <2>1 DEF Finished, Candle
<1>2. Finals \subseteq Candle /\ \A c \in Finals : c.time \in Minutes /\ c.final = TRUE
  BY <1>0
<1>3. \A c, d \in Finals : c.time = d.time => c = d
  BY <1>0
<1>4. IsFiniteSet(Finals)
  <2> DEFINE f == [c \in Finals |-> c.time]
  <2>1. f \in Injection(Finals, Minutes)
    <3>1. f \in [Finals -> Minutes]
      BY <1>2
    <3>2. \A a, b \in Finals : f[a] = f[b] => a = b
      BY <1>3
    <3> QED
      BY <3>1, <3>2 DEF Injection, IsInjective
  <2>2. IsFiniteSet(Minutes)
    BY <1>1, FS_Interval DEF Minutes
  <2> HIDE DEF f
  <2> QED
    BY <2>1, <2>2, FS_Injection
<1> QED
  BY <1>1, <1>2, <1>3, <1>4 DEF Minutes

\* A candle's place among those of S.
Older(S, c) == {d \in S : d.time < c.time}
Rank(S, c) == Cardinality(Older(S, c)) + 1

LEMMA RankFacts ==
    ASSUME NEW S \in SUBSET Finals
    PROVE  /\ IsFiniteSet(S) /\ Cardinality(S) \in Nat
           /\ \A c \in S : Rank(S, c) \in 1..Cardinality(S)
           /\ \A c, d \in S : c.time < d.time => Rank(S, c) < Rank(S, d)
           /\ \A c, d \in S : Rank(S, c) = Rank(S, d) => c = d
<1>1. IsFiniteSet(S) /\ Cardinality(S) \in Nat
  BY FinalFacts, FS_Subset, FS_CardinalityType
<1>2. \A c \in S : c.time \in Nat
  BY FinalFacts
<1>3. ASSUME NEW c \in S
      PROVE  /\ IsFiniteSet(Older(S, c)) /\ Cardinality(Older(S, c)) \in Nat
             /\ Cardinality(Older(S, c)) < Cardinality(S)
  <2>1. Older(S, c) \in SUBSET S /\ c \notin Older(S, c)
    BY <1>2 DEF Older
  <2>2. IsFiniteSet(Older(S, c)) /\ Cardinality(Older(S, c)) <= Cardinality(S)
    BY <1>1, <2>1, FS_Subset
  <2>3. Cardinality(Older(S, c)) # Cardinality(S)
    BY <1>1, <2>1, FS_Subset
  <2> QED
    BY <1>1, <2>2, <2>3, FS_CardinalityType
<1>4. ASSUME NEW c \in S, NEW d \in S, c.time < d.time
      PROVE  Cardinality(Older(S, c)) < Cardinality(Older(S, d))
  <2>1. Older(S, c) \in SUBSET Older(S, d)
    BY <1>2, <1>4 DEF Older
  <2>2. c \in Older(S, d) /\ c \notin Older(S, c)
    BY <1>2, <1>4 DEF Older
  <2>3. /\ Cardinality(Older(S, c)) <= Cardinality(Older(S, d))
        /\ Cardinality(Older(S, c)) # Cardinality(Older(S, d))
    BY <1>3, <2>1, <2>2, FS_Subset
  <2> QED
    BY <1>3, <2>3
<1>5. \A c \in S : Rank(S, c) \in 1..Cardinality(S)
  BY <1>1, <1>3 DEF Rank
<1>6. \A c, d \in S : c.time < d.time => Rank(S, c) < Rank(S, d)
  BY <1>3, <1>4 DEF Rank
<1>7. \A c, d \in S : Rank(S, c) = Rank(S, d) => c = d
  <2> SUFFICES ASSUME NEW c \in S, NEW d \in S, Rank(S, c) = Rank(S, d), c # d
               PROVE  FALSE
    OBVIOUS
  <2>1. c.time # d.time
    BY FinalFacts
  <2>2. c.time < d.time \/ d.time < c.time
    BY <1>2, <2>1
  <2>3. Rank(S, c) \in Nat
    BY <1>3 DEF Rank
  <2> QED
    BY <1>6, <2>2, <2>3
<1> QED
  BY <1>1, <1>5, <1>6, <1>7

\* Every place is taken.
LEMMA RankOnto ==
    ASSUME NEW S \in SUBSET Finals, NEW i \in 1..Cardinality(S)
    PROVE  \E c \in S : Rank(S, c) = i
<1> DEFINE n == Cardinality(S)
           f == [c \in S |-> Rank(S, c)]
<1>1. IsFiniteSet(S) /\ n \in Nat
  BY RankFacts
<1>2. f \in Injection(S, 1..n)
  <2>1. f \in [S -> 1..n]
    BY RankFacts
  <2>2. \A a, b \in S : f[a] = f[b] => a = b
    BY RankFacts
  <2> QED
    BY <2>1, <2>2 DEF Injection, IsInjective
<1>3. IsFiniteSet(1..n) /\ Cardinality(1..n) = n
  BY <1>1, FS_Interval
<1>4. f \in Surjection(S, 1..n)
  <2> HIDE DEF f
  <2> QED
    BY <1>2, <1>3, FS_Injection
<1> QED
  BY <1>4 DEF Surjection

\* s is the set S in order of time.
Ordered(s, S) ==
    /\ s \in [1..Cardinality(S) -> S]
    /\ \A i, j \in 1..Cardinality(S) : i < j => s[i].time < s[j].time

\* Every set of finished candles can be put in order.
LEMMA OrderExists ==
    ASSUME NEW S \in SUBSET Finals
    PROVE  \E s : Ordered(s, S)
<1> DEFINE n == Cardinality(S)
           s == [i \in 1..n |-> CHOOSE c \in S : Rank(S, c) = i]
<1>1. n \in Nat
  BY RankFacts
<1>2. \A i \in 1..n : s[i] \in S /\ Rank(S, s[i]) = i
  BY RankOnto
<1>3. ASSUME NEW i \in 1..n, NEW j \in 1..n, i < j
      PROVE  s[i].time < s[j].time
  <2> HIDE DEF s
  <2>1. s[i] \in S /\ s[j] \in S /\ Rank(S, s[i]) = i /\ Rank(S, s[j]) = j
    BY <1>2
  <2>2. s[i].time \in Nat /\ s[j].time \in Nat
    BY <2>1, FinalFacts
  <2>3. CASE s[j].time < s[i].time
    BY <1>1, <1>3, <2>1, <2>3, RankFacts
  <2>4. CASE s[j].time = s[i].time
    <3>1. s[i] = s[j]
      BY <2>1, <2>4, FinalFacts
    <3> QED
      BY <1>1, <1>3, <2>1, <3>1
  <2> QED
    BY <2>2, <2>3, <2>4
<1>4. s \in [1..n -> S]
  BY <1>2
<1> QED
  BY <1>3, <1>4 DEF Ordered

\* In a sequence in order, each candle is at its place.
LEMMA OrderedRank ==
    ASSUME NEW S \in SUBSET Finals, NEW s, Ordered(s, S)
    PROVE  /\ \A i \in 1..Cardinality(S) : Rank(S, s[i]) = i
           /\ \A c \in S : \E i \in 1..Cardinality(S) : s[i] = c
<1> DEFINE n == Cardinality(S)
<1>1. IsFiniteSet(S) /\ n \in Nat
  BY RankFacts
<1>2. IsFiniteSet(1..n) /\ Cardinality(1..n) = n
  BY <1>1, FS_Interval
<1>3. s \in [1..n -> S] /\ \A i, j \in 1..n : i < j => s[i].time < s[j].time
  BY DEF Ordered
<1>4. \A i \in 1..n : s[i].time \in Nat
  BY <1>3, FinalFacts
<1>5. \A i, j \in 1..n : s[i] = s[j] => i = j
  BY <1>1, <1>3, <1>4
<1>6. s \in Injection(1..n, S)
  BY <1>3, <1>5 DEF Injection, IsInjective
<1>7. s \in Surjection(1..n, S)
  BY <1>1, <1>2, <1>6, FS_Injection
<1>8. \A c \in S : \E i \in 1..n : s[i] = c
  BY <1>7 DEF Surjection
<1>9. ASSUME NEW i \in 1..n
      PROVE  Rank(S, s[i]) = i
  <2> DEFINE T == Older(S, s[i])
             g == [j \in 1..(i-1) |-> s[j]]
  <2>1. i - 1 \in Nat /\ 1..(i-1) \subseteq 1..n
    BY <1>1
  <2>2. \A j \in 1..(i-1) : s[j] \in T
    BY <1>1, <1>3, <2>1 DEF Older
  <2>3. \A c \in T : \E j \in 1..(i-1) : s[j] = c
    <3> SUFFICES ASSUME NEW c \in T PROVE \E j \in 1..(i-1) : s[j] = c
      OBVIOUS
    <3>1. c \in S /\ c.time < s[i].time
      BY DEF Older
    <3>2. PICK j \in 1..n : s[j] = c
      BY <1>8, <3>1
    <3>3. ~(i < j) /\ i # j
      BY <1>3, <1>4, <3>1, <3>2
    <3> QED
      BY <1>1, <3>2, <3>3
  <2>4. g \in [1..(i-1) -> T]
    BY <2>2
  <2>5. g \in Injection(1..(i-1), T)
    BY <1>5, <2>1, <2>4 DEF Injection, IsInjective
  <2>6. g \in Surjection(1..(i-1), T)
    BY <2>3, <2>4 DEF Surjection
  <2>7. IsFiniteSet(1..(i-1)) /\ Cardinality(1..(i-1)) = i - 1
    BY <2>1, FS_Interval
  <2>8. Cardinality(T) = i - 1
    <3> HIDE DEF T, g
    <3> QED
      BY <2>5, <2>6, <2>7, FS_Surjection
  <2> QED
    BY <2>8 DEF Rank
<1> QED
  BY <1>8, <1>9

\* So there is no other such sequence, and ByTime is it.
LEMMA OrderedUnique ==
    ASSUME NEW S \in SUBSET Finals, NEW s, NEW t, Ordered(s, S), Ordered(t, S)
    PROVE  s = t
<1>1. s \in [1..Cardinality(S) -> S] /\ t \in [1..Cardinality(S) -> S]
  BY DEF Ordered
<1>2. ASSUME NEW i \in 1..Cardinality(S)
      PROVE  s[i] = t[i]
  <2>1. s[i] \in S /\ t[i] \in S
    BY <1>1
  <2>2. Rank(S, s[i]) = i /\ Rank(S, t[i]) = i
    BY OrderedRank
  <2> QED
    BY <2>1, <2>2, RankFacts
<1> DEFINE D == 1..Cardinality(S)
<1>3. s \in [D -> S] /\ t \in [D -> S] /\ \A i \in D : s[i] = t[i]
  BY <1>1, <1>2
<1> HIDE DEF D
<1> QED
  BY <1>3

LEMMA ByTimeOrdered ==
    ASSUME NEW S \in SUBSET Finals
    PROVE  Ordered(ByTime(S), S)
<1>1. PICK s : Ordered(s, S)
  BY OrderExists
<1>2. s \in [1..Cardinality(S) -> S] /\ \A i, j \in DOMAIN s : i < j => s[i].time < s[j].time
  BY <1>1 DEF Ordered
<1>3. /\ ByTime(S) \in [1..Cardinality(S) -> S]
      /\ \A i, j \in DOMAIN ByTime(S) : i < j => ByTime(S)[i].time < ByTime(S)[j].time
  BY <1>2, Zenon DEF ByTime
<1> QED
  BY <1>3 DEF Ordered

LEMMA OrderedIsByTime ==
    ASSUME NEW S \in SUBSET Finals, NEW s, Ordered(s, S)
    PROVE  s = ByTime(S)
BY ByTimeOrdered, OrderedUnique

LEMMA ByTimeSeq ==
    ASSUME NEW S \in SUBSET Finals
    PROVE  /\ ByTime(S) \in Seq(S) /\ Len(ByTime(S)) = Cardinality(S)
           /\ Cardinality(S) \in Nat /\ IsFiniteSet(S)
           /\ ToSet(ByTime(S)) = S
<1>1. Cardinality(S) \in Nat /\ IsFiniteSet(S)
  BY RankFacts
<1>2. Ordered(ByTime(S), S)
  BY ByTimeOrdered
<1>3. ByTime(S) \in [1..Cardinality(S) -> S]
  BY <1>2 DEF Ordered
<1>4. ByTime(S) \in Seq(S) /\ Len(ByTime(S)) = Cardinality(S)
  BY <1>1, <1>3, SeqDef
<1>5. ToSet(ByTime(S)) = S
  <2> DEFINE s == ByTime(S)
  <2>1. DOMAIN s = 1..Cardinality(S) /\ \A i \in DOMAIN s : s[i] \in S
    BY <1>3
  <2>2. \A c \in S : \E i \in 1..Cardinality(S) : s[i] = c
    BY <1>2, OrderedRank
  <2> HIDE DEF s
  <2>3. ToSet(s) = S
    BY <2>1, <2>2 DEF ToSet
  <2> QED
    BY <2>3 DEF s
<1> QED
  BY <1>1, <1>4, <1>5

\* What is newer goes behind.
LEMMA ByTimeConcat ==
    ASSUME NEW A \in SUBSET Finals, NEW B \in SUBSET Finals,
           \A a \in A, b \in B : a.time < b.time
    PROVE  ByTime(A \cup B) = ByTime(A) \o ByTime(B)
<1> DEFINE s == ByTime(A)
           t == ByTime(B)
           S == A \cup B
<1>0. S \in SUBSET Finals
  OBVIOUS
<1>1. /\ s \in Seq(A) /\ Len(s) = Cardinality(A) /\ Cardinality(A) \in Nat /\ IsFiniteSet(A)
      /\ t \in Seq(B) /\ Len(t) = Cardinality(B) /\ Cardinality(B) \in Nat /\ IsFiniteSet(B)
  BY ByTimeSeq
<1>2. s \in Seq(S) /\ t \in Seq(S)
  BY <1>1, SeqMonotonic
<1>3. /\ \A i, j \in 1..Len(s) : i < j => s[i].time < s[j].time
      /\ \A i, j \in 1..Len(t) : i < j => t[i].time < t[j].time
  BY <1>1, ByTimeOrdered DEF Ordered
<1>4. Cardinality(S) = Len(s) + Len(t)
  <2>1. A \cap B = {}
    BY FinalFacts
  <2>2. Cardinality(S) = Cardinality(A) + Cardinality(B) - Cardinality(A \cap B)
    BY <1>1, FS_Union
  <2>3. Cardinality(A \cap B) = 0
    BY <2>1, FS_EmptySet
  <2> QED
    BY <1>1, <2>2, <2>3
<1> HIDE DEF s, t
<1>5. /\ s \o t \in Seq(S) /\ Len(s \o t) = Len(s) + Len(t)
      /\ \A i \in 1..(Len(s) + Len(t)) :
            (s \o t)[i] = IF i <= Len(s) THEN s[i] ELSE t[i - Len(s)]
  BY <1>2, ConcatProperties
<1>6. Len(s) \in Nat /\ Len(t) \in Nat
  BY <1>1
<1>7. ASSUME NEW i \in 1..(Len(s) + Len(t)), NEW j \in 1..(Len(s) + Len(t)), i < j
      PROVE  (s \o t)[i].time < (s \o t)[j].time
  <2>1. CASE j <= Len(s)
    BY <1>3, <1>5, <1>6, <1>7, <2>1
  <2>2. CASE i > Len(s)
    <3>1. (s \o t)[i] = t[i - Len(s)] /\ (s \o t)[j] = t[j - Len(s)]
      BY <1>5, <1>6, <1>7, <2>2
    <3>2. i - Len(s) \in 1..Len(t) /\ j - Len(s) \in 1..Len(t) /\ i - Len(s) < j - Len(s)
      BY <1>6, <1>7, <2>2
    <3> QED
      BY <1>3, <3>1, <3>2
  <2>3. CASE i <= Len(s) /\ j > Len(s)
    <3>1. (s \o t)[i] = s[i] /\ (s \o t)[j] = t[j - Len(s)]
      BY <1>5, <1>6, <1>7, <2>3
    <3>2. i \in 1..Len(s) /\ j - Len(s) \in 1..Len(t)
      BY <1>6, <1>7, <2>3
    <3>3. s[i] \in A /\ t[j - Len(s)] \in B
      BY <1>1, <3>2, ElementOfSeq
    <3> QED
      BY <3>1, <3>3
  <2> QED
    BY <1>6, <2>1, <2>2, <2>3
<1>8. s \o t \in [1..(Len(s) + Len(t)) -> S]
  BY <1>5, LenProperties
<1>9. Ordered(s \o t, S)
  BY <1>4, <1>7, <1>8 DEF Ordered
<1>10. s \o t = ByTime(S)
  BY <1>0, <1>9, OrderedIsByTime
<1> QED
  BY <1>10 DEF s, t

\* How many of the oldest ones a deque of length n has let go.
Dropped(s, n) == IF Len(s) > n THEN Len(s) - n ELSE 0

LEMMA LastOfProperties ==
    ASSUME NEW T, NEW s \in Seq(T), NEW n \in Nat \ {0}
    PROVE  /\ Dropped(s, n) \in 0..Len(s)
           /\ LastOf(s, n) \in Seq(T) /\ Len(LastOf(s, n)) = Len(s) - Dropped(s, n)
           /\ \A i \in 1..(Len(s) - Dropped(s, n)) : LastOf(s, n)[i] = s[i + Dropped(s, n)]
<1> DEFINE k == Dropped(s, n) + 1
<1>1. Len(s) \in Nat
  BY LenProperties
<1>2. k \in Nat /\ k >= 1 /\ Dropped(s, n) \in 0..Len(s)
  BY <1>1 DEF Dropped
<1>3. \A i \in k..Len(s) : s[i] \in T
  BY <1>1, <1>2, ElementOfSeq
<1>4. LastOf(s, n) = SubSeq(s, k, Len(s))
  BY <1>1 DEF LastOf, Dropped
<1> HIDE DEF k
<1>5. /\ SubSeq(s, k, Len(s)) \in Seq(T)
      /\ Len(SubSeq(s, k, Len(s))) = IF k <= Len(s) THEN Len(s) - k + 1 ELSE 0
      /\ \A i \in 1..(Len(s) - k + 1) : SubSeq(s, k, Len(s))[i] = s[k + i - 1]
  BY <1>1, <1>2, <1>3, SubSeqProperties
<1>6. k = Dropped(s, n) + 1
  BY DEF k
<1>7. Len(LastOf(s, n)) = Len(s) - Dropped(s, n)
  BY <1>1, <1>2, <1>4, <1>5, <1>6
<1>8. ASSUME NEW i \in 1..(Len(s) - Dropped(s, n))
      PROVE  LastOf(s, n)[i] = s[i + Dropped(s, n)]
  <2>1. i \in 1..(Len(s) - k + 1) /\ k + i - 1 = i + Dropped(s, n)
    BY <1>1, <1>2, <1>6
  <2> QED
    BY <1>4, <1>5, <2>1
<1> QED
  BY <1>2, <1>4, <1>5, <1>7, <1>8

\* A deque that is extended keeps what it would have kept of the whole.
LEMMA LastOfConcat ==
    ASSUME NEW T, NEW s \in Seq(T), NEW t \in Seq(T), NEW n \in Nat \ {0}
    PROVE  LastOf(LastOf(s, n) \o t, n) = LastOf(s \o t, n)
<1> DEFINE l == LastOf(s, n)
           lt == l \o t
           st == s \o t
           a == LastOf(lt, n)
           b == LastOf(st, n)
           d == Dropped(s, n)
           p == Dropped(lt, n)
           q == Dropped(st, n)
<1>1. Len(s) \in Nat /\ Len(t) \in Nat
  BY LenProperties
<1>2. /\ l \in Seq(T) /\ d \in 0..Len(s) /\ Len(l) = Len(s) - d
      /\ \A i \in 1..(Len(s) - d) : l[i] = s[i + d]
  BY LastOfProperties
<1>3. d = IF Len(s) > n THEN Len(s) - n ELSE 0
  BY DEF Dropped
<1> HIDE DEF l, d
<1>4. /\ lt \in Seq(T) /\ Len(lt) = Len(l) + Len(t)
      /\ \A i \in 1..(Len(l) + Len(t)) : lt[i] = IF i <= Len(l) THEN l[i] ELSE t[i - Len(l)]
  BY <1>2, ConcatProperties
<1>5. /\ st \in Seq(T) /\ Len(st) = Len(s) + Len(t)
      /\ \A i \in 1..(Len(s) + Len(t)) : st[i] = IF i <= Len(s) THEN s[i] ELSE t[i - Len(s)]
  BY ConcatProperties
<1> HIDE DEF lt, st
<1>6. /\ a \in Seq(T) /\ Len(a) = Len(lt) - p /\ p \in 0..Len(lt)
      /\ \A i \in 1..(Len(lt) - p) : a[i] = lt[i + p]
  BY <1>4, LastOfProperties
<1>7. /\ b \in Seq(T) /\ Len(b) = Len(st) - q /\ q \in 0..Len(st)
      /\ \A i \in 1..(Len(st) - q) : b[i] = st[i + q]
  BY <1>5, LastOfProperties
<1>8. p = IF Len(lt) > n THEN Len(lt) - n ELSE 0
  BY DEF Dropped
<1>9. q = IF Len(st) > n THEN Len(st) - n ELSE 0
  BY DEF Dropped
<1> HIDE DEF a, b, p, q
<1>10. q = p + d /\ Len(lt) - p = Len(st) - q
  <2>1. Len(lt) = Len(st) - d /\ Len(st) = Len(s) + Len(t)
    BY <1>1, <1>2, <1>4, <1>5
  <2>2. CASE Len(s) > n
    <3>1. d = Len(s) - n /\ Len(lt) = n + Len(t) /\ Len(st) > n
      BY <1>1, <1>3, <2>1, <2>2
    <3>2. q = Len(s) + Len(t) - n /\ p = Len(t)
      BY <1>1, <1>8, <1>9, <2>1, <3>1
    <3> QED
      BY <1>1, <2>1, <3>1, <3>2
  <2>3. CASE ~(Len(s) > n)
    BY <1>1, <1>3, <1>8, <1>9, <2>1, <2>3
  <2> QED
    BY <2>2, <2>3
<1>11. ASSUME NEW i \in 1..(Len(lt) - p)
       PROVE  a[i] = b[i]
  <2> DEFINE x == i + p
  <2>1. a[i] = lt[x] /\ b[i] = st[x + d] /\ x \in 1..Len(lt)
    <3>1. i + q = x + d
      BY <1>2, <1>4, <1>6, <1>10
    <3>2. x \in 1..Len(lt)
      BY <1>1, <1>2, <1>4, <1>6
    <3> QED
      BY <1>6, <1>7, <1>10, <3>1, <3>2
  <2> HIDE DEF x
  <2>2. CASE x <= Len(l)
    <3>1. x \in 1..(Len(l) + Len(t)) /\ x \in 1..(Len(s) - d)
      BY <1>1, <1>2, <1>4, <2>1, <2>2
    <3>2. lt[x] = s[x + d]
      BY <1>2, <1>4, <2>2, <3>1
    <3>3. x + d \in 1..(Len(s) + Len(t)) /\ x + d <= Len(s)
      BY <1>1, <1>2, <2>2, <3>1
    <3>4. st[x + d] = s[x + d]
      BY <1>5, <3>3
    <3> QED
      BY <2>1, <3>2, <3>4
  <2>3. CASE ~(x <= Len(l))
    <3>1. x \in 1..(Len(l) + Len(t))
      BY <1>4, <2>1
    <3>2. lt[x] = t[x - Len(l)]
      BY <1>4, <2>3, <3>1
    <3>3. x + d \in 1..(Len(s) + Len(t)) /\ ~(x + d <= Len(s)) /\ x + d - Len(s) = x - Len(l)
      BY <1>1, <1>2, <2>3, <3>1
    <3>4. PICK y \in 1..(Len(s) + Len(t)) : y = x + d
      BY <3>3
    <3>5. y - Len(s) = x - Len(l) /\ ~(y <= Len(s))
      BY <1>1, <1>2, <3>1, <3>3, <3>4
    <3>7. st[y] = t[y - Len(s)]
      BY <1>1, <1>5, <3>5
    <3>6. st[x + d] = t[x - Len(l)]
      BY <3>4, <3>5, <3>7
    <3> QED
      BY <2>1, <3>2, <3>6
  <2> QED
    BY <2>2, <2>3
<1>12. Len(a) = Len(b) /\ Len(a) = Len(lt) - p
  BY <1>6, <1>7, <1>10
<1>13. a = b
  BY <1>6, <1>7, <1>11, <1>12, SeqEqual
<1> QED
  BY <1>13 DEF a, b, l, lt, st

\* Latest is the maximum it says it is.
LEMMA LatestFacts ==
    ASSUME NEW S \in SUBSET Finals
    PROVE  /\ Latest(S) \in Nat
           /\ \A c \in S : c.time <= Latest(S)
           /\ S # {} => \E c \in S : c.time = Latest(S)
           /\ S = {} => Latest(S) = 0
<1> DEFINE X == Times(S) \cup {0}
<1>1. \E x \in X : \A y \in X : x >= y
  <2>1. CASE S = {}
    BY <2>1 DEF Times
  <2>2. CASE S # {}
    <3> DEFINE n == Cardinality(S)
               s == ByTime(S)
    <3>1. n \in Nat /\ n # 0
      BY <2>2, ByTimeSeq, FS_EmptySet
    <3>2. Ordered(s, S)
      BY ByTimeOrdered
    <3> HIDE DEF s
    <3>3. /\ s \in [1..n -> S] /\ \A i, j \in 1..n : i < j => s[i].time < s[j].time
          /\ \A c \in S : \E i \in 1..n : s[i] = c
      BY <3>2, OrderedRank DEF Ordered
    <3>4. n \in 1..n /\ s[n] \in S /\ s[n].time \in Nat
      BY <3>1, <3>3, FinalFacts
    <3>5. \A c \in S : c.time <= s[n].time
      <4> SUFFICES ASSUME NEW c \in S PROVE c.time <= s[n].time
        OBVIOUS
      <4>1. PICK i \in 1..n : s[i] = c
        BY <3>3
      <4>2. i = n \/ i < n
        BY <3>1
      <4>3. c.time \in Nat
        BY FinalFacts
      <4> QED
        BY <3>3, <3>4, <4>1, <4>2, <4>3
    <3>6. s[n].time \in X /\ \A y \in X : s[n].time >= y
      BY <3>4, <3>5, FinalFacts DEF Times
    <3> QED
      BY <3>6
  <2> QED
    BY <2>1, <2>2
<1>2. Latest(S) \in X /\ \A y \in X : Latest(S) >= y
  BY <1>1 DEF Latest, Max
<1>3. \A c \in S : c.time \in Nat /\ c.time > 0 /\ c.time \in Times(S)
  BY FinalFacts DEF Times
<1>4. \A x \in Times(S) : \E c \in S : c.time = x
  BY DEF Times
<1> QED
  BY <1>2, <1>3, <1>4

\* The last n of a set in order: what is newer than one of them is one of them.
LEMMA TailFacts ==
    ASSUME NEW S \in SUBSET Finals, NEW n \in Nat \ {0}
    PROVE  LET b == LastOf(ByTime(S), n)
               T == ToSet(b)
           IN  /\ T \subseteq S
               /\ \A c \in T, d \in S : c.time < d.time => d \in T
               /\ b = ByTime(T)
               /\ b \in Seq(T) /\ Len(b) <= n
               /\ S # {} => T # {}
               /\ \A c \in S : c \in T <=> Cardinality({d \in S : c.time < d.time}) < n
<1> DEFINE s == ByTime(S)
           N == Cardinality(S)
           k == Dropped(s, n)
           b == LastOf(s, n)
           T == ToSet(b)
<1>1. s \in Seq(S) /\ Len(s) = N /\ N \in Nat /\ IsFiniteSet(S)
  BY ByTimeSeq
<1>2. /\ s \in [1..N -> S] /\ \A i, j \in 1..N : i < j => s[i].time < s[j].time
      /\ \A c \in S : \E i \in 1..N : s[i] = c
  BY ByTimeOrdered, OrderedRank DEF Ordered
<1>3. \A c \in S : c.time \in Nat
  BY FinalFacts
<1>4. k = IF N > n THEN N - n ELSE 0
  BY <1>1 DEF Dropped
<1> HIDE DEF s, N
<1>5. /\ k \in 0..N /\ b \in Seq(S) /\ Len(b) = N - k
      /\ \A i \in 1..(N - k) : b[i] = s[i + k]
  BY <1>1, LastOfProperties
<1> HIDE DEF b, k
<1>6. DOMAIN b = 1..(N - k)
  BY <1>5, LenProperties
<1>7. \A i, j \in 1..N : s[i].time < s[j].time => i < j
  <2> SUFFICES ASSUME NEW i \in 1..N, NEW j \in 1..N, s[i].time < s[j].time PROVE i < j
    OBVIOUS
  <2>1. s[i].time \in Nat /\ s[j].time \in Nat
    BY <1>2, <1>3
  <2>2. i # j /\ ~(j < i)
    BY <1>1, <1>2, <2>1
  <2> QED
    BY <1>1, <2>2
<1>8. \A j \in (k + 1)..N : s[j] \in T
  <2> SUFFICES ASSUME NEW j \in (k + 1)..N PROVE s[j] \in T
    OBVIOUS
  <2>1. j - k \in 1..(N - k) /\ (j - k) + k = j
    BY <1>1, <1>5
  <2>2. b[j - k] = s[j]
    BY <1>5, <2>1
  <2> QED
    BY <1>6, <2>1, <2>2 DEF ToSet
<1>9. \A c \in T : \E j \in (k + 1)..N : s[j] = c
  <2> SUFFICES ASSUME NEW c \in T PROVE \E j \in (k + 1)..N : s[j] = c
    OBVIOUS
  <2>1. PICK i \in 1..(N - k) : b[i] = c
    BY <1>6 DEF ToSet
  <2>2. i + k \in (k + 1)..N /\ s[i + k] = c
    BY <1>1, <1>5, <2>1
  <2> QED
    BY <2>2
<1> HIDE DEF T
<1>10. T \in SUBSET S
  BY <1>1, <1>2, <1>5, <1>9
<1>11. ASSUME NEW c \in T, NEW d \in S, c.time < d.time
       PROVE  d \in T
  <2>1. PICK j \in (k + 1)..N : s[j] = c
    BY <1>9
  <2>2. PICK i \in 1..N : s[i] = d
    BY <1>2
  <2>3. j \in 1..N /\ j < i
    BY <1>1, <1>5, <1>7, <1>11, <2>1, <2>2
  <2>4. i \in (k + 1)..N
    BY <1>1, <1>5, <2>3
  <2> QED
    BY <1>8, <2>2, <2>4
<1>12. Cardinality(T) = N - k
  <2> DEFINE D == 1..(N - k)
  <2>0. N - k \in Nat /\ N - k \in Int
    BY <1>1, <1>5
  <2>1. IsFiniteSet(D) /\ Cardinality(D) = N - k
    BY <2>0, FS_Interval
  <2>2. \A i \in D : b[i] \in T /\ i + k \in (k + 1)..N /\ i + k \in 1..N /\ b[i] = s[i + k]
    <3> SUFFICES ASSUME NEW i \in D PROVE b[i] \in T /\ i + k \in (k + 1)..N /\ i + k \in 1..N /\ b[i] = s[i + k]
      OBVIOUS
    <3>1. i + k \in (k + 1)..N /\ i + k \in 1..N /\ b[i] = s[i + k]
      BY <1>1, <1>5
    <3> QED
      BY <1>8, <3>1
  <2>3. \A i, j \in D : b[i] = b[j] => i = j
    <3> SUFFICES ASSUME NEW i \in D, NEW j \in D, b[i] = b[j] PROVE i = j
      OBVIOUS
    <3>1. s[i + k] = s[j + k] /\ i + k \in 1..N /\ j + k \in 1..N
      BY <2>2
    <3>2. s[i + k].time \in Nat
      BY <1>2, <1>3, <3>1
    <3>3. ~(i + k < j + k) /\ ~(j + k < i + k)
      BY <1>2, <3>1, <3>2
    <3> QED
      BY <1>1, <1>5, <3>3
  <2>4. \A c \in T : \E i \in D : b[i] = c
    <3> SUFFICES ASSUME NEW c \in T PROVE \E i \in D : b[i] = c
      OBVIOUS
    <3>1. PICK j \in (k + 1)..N : s[j] = c
      BY <1>9
    <3>2. j - k \in D /\ (j - k) + k = j
      BY <1>1, <1>5
    <3> QED
      BY <1>5, <3>1, <3>2
  <2>5. b \in [D -> T]
    BY <1>5, <1>6, <2>2, LenProperties
  <2> HIDE DEF D
  <2>6. b \in Injection(D, T) /\ b \in Surjection(D, T)
    BY <2>3, <2>4, <2>5 DEF Injection, IsInjective, Surjection
  <2>7. Cardinality(T) = Cardinality(D)
    BY <2>1, <2>6, FS_Surjection
  <2> QED
    BY <2>1, <2>7
<1>13. \A i \in 1..(N - k) : b[i] \in T /\ i + k \in 1..N /\ b[i] = s[i + k]
  <2> SUFFICES ASSUME NEW i \in 1..(N - k) PROVE b[i] \in T /\ i + k \in 1..N /\ b[i] = s[i + k]
    OBVIOUS
  <2>1. i + k \in (k + 1)..N /\ i + k \in 1..N /\ b[i] = s[i + k]
    BY <1>1, <1>5
  <2> QED
    BY <1>8, <2>1
<1>14. b \in [1..(N - k) -> T]
  BY <1>5, <1>6, <1>13, LenProperties
<1>15. Ordered(b, T)
  <2> SUFFICES ASSUME NEW i \in 1..(N - k), NEW j \in 1..(N - k), i < j
               PROVE  b[i].time < b[j].time
    BY <1>12, <1>14 DEF Ordered
  <2>1. i + k < j + k
    BY <1>1, <1>5
  <2> QED
    BY <1>2, <1>13, <2>1
<1>16. b = ByTime(T) /\ T \in SUBSET Finals
  BY <1>10, <1>15, OrderedIsByTime
<1>17. b \in Seq(T) /\ Len(b) <= n
  <2>1. b \in Seq(T)
    BY <1>16, ByTimeSeq
  <2> QED
    BY <1>1, <1>4, <1>5, <2>1
<1>18. S # {} => T # {}
  <2> SUFFICES ASSUME S # {} PROVE T # {}
    OBVIOUS
  <2>1. PICK i \in 1..N : TRUE
    BY <1>2
  <2>2. N \in (k + 1)..N
    BY <1>1, <1>4, <2>1
  <2> QED
    BY <1>8, <2>2
<1>19. ASSUME NEW c \in S
       PROVE  c \in T <=> Cardinality({d \in S : c.time < d.time}) < n
  <2> DEFINE X == {d \in S : c.time < d.time}
             O == Older(S, c)
  <2>1. PICK i \in 1..N : s[i] = c
    BY <1>2
  <2>2. Cardinality(O) = i - 1
    <3>1. Rank(S, s[i]) = i
      BY ByTimeOrdered, OrderedRank DEF s, N
    <3>2. IsFiniteSet(O) /\ Cardinality(O) \in Nat
      BY <1>1, FS_Subset, FS_CardinalityType DEF Older
    <3> QED
      BY <2>1, <3>1, <3>2 DEF Rank
  <2>3. /\ IsFiniteSet(O) /\ IsFiniteSet(X) /\ IsFiniteSet({c})
        /\ Cardinality({c}) = 1 /\ Cardinality(X) \in Nat
    BY <1>1, FS_Subset, FS_CardinalityType, FS_Singleton DEF Older
  <2>4. O \cap {c} = {} /\ (O \cup {c}) \cap X = {} /\ S = (O \cup {c}) \cup X
    <3>1. \A d \in S : d.time < c.time \/ d = c \/ c.time < d.time
      <4> SUFFICES ASSUME NEW d \in S PROVE d.time < c.time \/ d = c \/ c.time < d.time
        OBVIOUS
      <4>1. d.time \in Nat /\ c.time \in Nat /\ (d.time = c.time => d = c)
        BY FinalFacts
      <4> QED
        BY <4>1
    <3> QED
      BY <1>3, <3>1 DEF Older
  <2>5. Cardinality(O \cup {c}) = i /\ IsFiniteSet(O \cup {c})
    <3>1. c \notin O
      BY <2>4
    <3> HIDE DEF O
    <3>2. Cardinality(O \cup {c}) = Cardinality(O) + 1 /\ IsFiniteSet(O \cup {c})
      BY <2>3, <3>1, FS_AddElement
    <3> QED
      BY <1>1, <2>1, <2>2, <3>2
  <2>6. Cardinality(S) = i + Cardinality(X)
    <3> HIDE DEF X, O
    <3>1. Cardinality((O \cup {c}) \cup X) = Cardinality(O \cup {c}) + Cardinality(X) - Cardinality((O \cup {c}) \cap X)
      BY <2>3, <2>5, FS_Union
    <3>2. Cardinality((O \cup {c}) \cap X) = 0
      BY <2>4, FS_EmptySet
    <3> QED
      BY <1>1, <2>3, <2>4, <2>5, <3>1, <3>2
  <2>7. N = i + Cardinality(X)
    BY <2>6 DEF N
  <2>8. c \in T <=> i > k
    <3>1. CASE i > k
      BY <1>1, <1>5, <1>8, <2>1, <3>1
    <3>2. ASSUME c \in T PROVE i > k
      <4>1. PICK j \in (k + 1)..N : s[j] = c
        BY <1>9, <3>2
      <4>2. j \in 1..N /\ ~(i < j) /\ s[i].time \in Nat
        BY <1>1, <1>2, <1>3, <1>5, <2>1, <4>1
      <4> QED
        BY <1>1, <1>5, <4>1, <4>2
    <3> QED
      BY <3>1, <3>2
  <2> HIDE DEF X
  <2>9. i > k <=> Cardinality(X) < n
    BY <1>1, <1>4, <2>3, <2>7
  <2> QED
    BY <2>8, <2>9 DEF X
<1> QED
  BY <1>10, <1>11, <1>16, <1>17, <1>18, <1>19 DEF T, b, s

LEMMA LastOfShort ==
    ASSUME NEW T, NEW s \in Seq(T), NEW n \in Nat, Len(s) <= n
    PROVE  LastOf(s, n) = s
<1>1. Len(s) \in Nat
  BY LenProperties
<1>2. ~(Len(s) > n)
  BY <1>1
<1>3. LastOf(s, n) = SubSeq(s, 1, Len(s))
  BY <1>2, Zenon DEF LastOf
<1> QED
  BY <1>3, SubSeqFull

\* A deque put into another one is cut to the shorter of the two.
Excess(a, b) == IF a > b THEN a - b ELSE 0

LEMMA ExcessTwice ==
    ASSUME NEW a \in Nat, NEW m \in Nat, NEW n \in Nat
    PROVE  Excess(a, IF m < n THEN m ELSE n) = Excess(a - Excess(a, m), n) + Excess(a, m)
BY DEF Excess

LEMMA LastOfLastOf ==
    ASSUME NEW T, NEW s \in Seq(T), NEW m \in Nat \ {0}, NEW n \in Nat \ {0}
    PROVE  LastOf(LastOf(s, m), n) = LastOf(s, IF m < n THEN m ELSE n)
<1> DEFINE l == LastOf(s, m)
           d == Dropped(s, m)
           r == IF m < n THEN m ELSE n
           a == LastOf(l, n)
           b == LastOf(s, r)
           p == Dropped(l, n)
           q == Dropped(s, r)
<1>1. Len(s) \in Nat
  BY LenProperties
<1>2. /\ l \in Seq(T) /\ d \in 0..Len(s) /\ Len(l) = Len(s) - d
      /\ \A i \in 1..(Len(s) - d) : l[i] = s[i + d]
  BY LastOfProperties
<1>3. d = IF Len(s) > m THEN Len(s) - m ELSE 0
  BY DEF Dropped
<1> HIDE DEF l, d
<1>4. r \in Nat \ {0}
  OBVIOUS
<1>5. r = IF m < n THEN m ELSE n
  OBVIOUS
<1> HIDE DEF r
<1>6. /\ a \in Seq(T) /\ Len(a) = Len(l) - p /\ p \in 0..Len(l)
      /\ \A i \in 1..(Len(l) - p) : a[i] = l[i + p]
  BY <1>2, LastOfProperties
<1>7. /\ b \in Seq(T) /\ Len(b) = Len(s) - q /\ q \in 0..Len(s)
      /\ \A i \in 1..(Len(s) - q) : b[i] = s[i + q]
  BY <1>4, LastOfProperties
<1>8. p = IF Len(l) > n THEN Len(l) - n ELSE 0
  BY DEF Dropped
<1>9. q = IF Len(s) > r THEN Len(s) - r ELSE 0
  BY DEF Dropped
<1> HIDE DEF a, b, p, q
<1>10. q = p + d
  <2>1. q = Excess(Len(s), r) /\ d = Excess(Len(s), m) /\ p = Excess(Len(s) - d, n)
    BY <1>2, <1>3, <1>8, <1>9 DEF Excess
  <2> QED
    BY <1>1, <1>5, <2>1, ExcessTwice
<1>11. Len(a) = Len(b) /\ Len(a) = Len(l) - p
  BY <1>1, <1>2, <1>6, <1>7, <1>10
<1>12. ASSUME NEW i \in 1..Len(a)
       PROVE  a[i] = b[i]
  <2>1. i \in 1..(Len(l) - p) /\ i \in 1..(Len(s) - q)
    BY <1>7, <1>11
  <2>2. i + p \in 1..(Len(s) - d) /\ (i + p) + d = i + q
    BY <1>1, <1>2, <1>6, <1>10, <2>1
  <2>3. a[i] = l[i + p] /\ b[i] = s[i + q]
    BY <1>6, <1>7, <2>1
  <2>4. l[i + p] = s[(i + p) + d]
    BY <1>2, <2>2
  <2> QED
    BY <2>2, <2>3, <2>4
<1>13. a = b
  BY <1>6, <1>7, <1>11, <1>12, SeqEqual
<1> QED
  BY <1>13 DEF a, b, l, r

-----------------------------------------------------------------------------
(* What is on its way to the table is not past the retention yet, since time
   does not run away from it. *)

Young(c) == c.time + Retention >= now

WireInv  == wire \in Seq(Candle) /\ \A i \in DOMAIN wire : Young(wire[i])
ReplyInv == reply \subseteq Candle /\ \A c \in reply : Young(c)
SavesInv ==
    \A s \in saves : s.batch \subseteq Candle /\ \A c \in s.batch : Young(c)

TableInv == now \in Minutes /\ table \subseteq Candle /\ archive \in [Minutes -> Nat]

\* A purge under way has read every row it is going to delete, and has them all
\* in the archive once they are written.
PurgeInv ==
    purge.pc \in {"read", "written"} =>
        /\ purge.old \subseteq Minutes
        /\ purge.cutoff \in Nat /\ purge.cutoff + Retention = now
        /\ \A c \in table : c.time < purge.cutoff => c.time \in purge.old
        /\ purge.pc = "written" => \A m \in purge.old : archive[m] > 0

RecordInv == TableInv /\ WireInv /\ ReplyInv /\ SavesInv /\ PurgeInv

LEMMA RecordInit == Init => RecordInv
<1> SUFFICES ASSUME Init PROVE RecordInv
  OBVIOUS
<1>1. TableInv
  BY CandlesAssumption DEF Init, TableInv, Minutes
<1>2. WireInv /\ ReplyInv /\ SavesInv /\ PurgeInv
  BY DEF Init, WireInv, ReplyInv, SavesInv, PurgeInv, IdlePurge
<1> QED
  BY <1>1, <1>2 DEF RecordInv

\* What Receive does to the saves, whatever it makes of the buffer.
LEMMA ReceiveSaves ==
    ASSUME SavesInv, NEW C \in SUBSET Candle, \A c \in C : Young(c),
           saves' = saves \cup {[pc |-> "called", batch |-> C]}, now' = now
    PROVE  SavesInv'
BY DEF SavesInv, Young

LEMMA RecordNext == RecordInv /\ [Next]_vars => RecordInv'
<1> SUFFICES ASSUME RecordInv, [Next]_vars PROVE RecordInv'
  OBVIOUS
<1> USE DEF RecordInv, store
<1>1. ASSUME NEW s \in saves, SaveReads(s)
      PROVE  RecordInv'
  <2>1. SavesInv'
    <3>1. Fresh(s.batch) \subseteq s.batch
      BY DEF Fresh
    <3>2. s.batch \subseteq Candle /\ \A c \in s.batch : Young(c)
      BY DEF SavesInv
    <3>3. \A t \in saves' : t \in saves \/ t = [pc |-> "read", batch |-> Fresh(s.batch)]
      BY <1>1 DEF SaveReads
    <3>4. now' = now
      BY <1>1 DEF SaveReads
    <3> QED
      BY <3>1, <3>2, <3>3, <3>4 DEF SavesInv, Young
  <2> QED
    BY <1>1, <2>1 DEF SaveReads, TableInv, WireInv, ReplyInv, PurgeInv, Young
<1>2. ASSUME NEW s \in saves, SaveCommits(s)
      PROVE  RecordInv'
  <2>1. table' \subseteq table \cup s.batch
    BY <1>2 DEF SaveCommits
  <2>2. s.batch \subseteq Candle /\ \A c \in s.batch : Young(c)
    BY DEF SavesInv
  <2>3. TableInv'
    BY <1>2, <2>1, <2>2 DEF SaveCommits, TableInv
  <2>4. PurgeInv'
    <3>1. \A c \in s.batch : c.time \in Nat /\ c.time + Retention >= now
      BY <2>2 DEF Young, Candle, Minutes
    <3>2. purge.pc \in {"read", "written"} => \A c \in s.batch : ~(c.time < purge.cutoff)
      BY <3>1, CandlesAssumption DEF PurgeInv, TableInv, Minutes
    <3>3. UNCHANGED <<now, purge, archive>>
      BY <1>2 DEF SaveCommits
    <3> QED
      BY <2>1, <3>2, <3>3 DEF PurgeInv
  <2> QED
    BY <1>2, <2>3, <2>4 DEF SaveCommits, WireInv, ReplyInv, SavesInv, Young
<1>f. ASSUME NEW s \in saves, SaveFails(s)
      PROVE  RecordInv'
  <2>1. SavesInv'
    BY <1>f DEF SaveFails, SavesInv, Young
  <2> QED
    BY <1>f, <2>1 DEF SaveFails, TableInv, WireInv, ReplyInv, PurgeInv, Young
<1>3. CASE PartialFrame \/ FinalFrame
  <2>1. PICK c \in Candle : Young(c) /\ wire' = Append(wire, c)
    <3> DEFINE partial == [time |-> now, final |-> FALSE]
    <3>1. ASSUME PartialFrame
          PROVE  partial \in Candle /\ Young(partial) /\ wire' = Append(wire, partial)
      BY <3>1, CandlesAssumption DEF PartialFrame, Sent, TableInv, Minutes, Candle, Young
    <3>2. ASSUME FinalFrame
          PROVE  LET c == Finished(now - 1)
                 IN c \in Candle /\ Young(c) /\ wire' = Append(wire, c)
      BY <3>2, CandlesAssumption DEF FinalFrame, Sent, Finished, TableInv, Minutes, Candle, Young
    <3> QED
      BY <1>3, <3>1, <3>2, Zenon
  <2>2. UNCHANGED <<now, reply, saves, table, purge, archive>>
    BY <1>3 DEF PartialFrame, FinalFrame
  <2>3. WireInv'
    BY <2>1, <2>2, AppendProperties DEF WireInv, Young
  <2> QED
    BY <2>2, <2>3 DEF TableInv, ReplyInv, SavesInv, PurgeInv, Young
<1>4. CASE OnFrame
  <2>1. UNCHANGED <<now, reply, table, purge, archive>>
    BY <1>4 DEF OnFrame
  <2>2. Head(wire) \in Candle /\ Young(Head(wire))
    BY <1>4, HeadTailProperties DEF OnFrame, WireInv
  <2>3. WireInv'
    BY <1>4, <2>1, HeadTailProperties DEF OnFrame, WireInv, Young
  <2>4. SavesInv'
    <3>1. CASE Kept(Head(wire))
      <4>1. saves' = saves \cup {[pc |-> "called", batch |-> {Head(wire)}]}
        BY <1>4, <3>1 DEF OnFrame, Receive
      <4> QED
        BY <2>1, <2>2, <4>1 DEF SavesInv, Young
    <3>2. CASE ~Kept(Head(wire))
      BY <1>4, <3>2, <2>1 DEF OnFrame, SavesInv, Young
    <3> QED
      BY <3>1, <3>2
  <2> QED
    BY <2>1, <2>3, <2>4 DEF TableInv, ReplyInv, PurgeInv, Young
<1>5. CASE Poll
  <2>1. ReplyInv'
    BY <1>5, CandlesAssumption
       DEF Poll, ReplyInv, Finished, TableInv, Minutes, Candle, Young
  <2> QED
    BY <1>5, <2>1 DEF Poll, TableInv, WireInv, SavesInv, PurgeInv, Young
<1>6. CASE PollAnswered
  <2>1. saves' = saves \cup {[pc |-> "called", batch |-> reply]} /\ now' = now
    BY <1>6 DEF PollAnswered, Receive
  <2>2. SavesInv'
    BY <2>1, ReceiveSaves DEF ReplyInv
  <2> QED
    BY <1>6, <2>2 DEF PollAnswered, TableInv, WireInv, ReplyInv, PurgeInv, Young
<1>7. CASE PollFails
  BY <1>7 DEF PollFails, TableInv, WireInv, ReplyInv, SavesInv, PurgeInv, Young
<1>8. CASE PurgeReads
  <2>1. PurgeInv'
    BY <1>8, CandlesAssumption DEF PurgeReads, PurgeInv, TableInv, Minutes, Candle
  <2> QED
    BY <1>8, <2>1 DEF PurgeReads, TableInv, WireInv, ReplyInv, SavesInv, Young
<1>9. CASE PurgeArchives
  <2>1. TableInv'
    BY <1>9 DEF PurgeArchives, TableInv
  <2>2. PurgeInv'
    BY <1>9, <2>1 DEF PurgeArchives, PurgeInv, TableInv
  <2> QED
    BY <1>9, <2>1, <2>2 DEF PurgeArchives, WireInv, ReplyInv, SavesInv, Young
<1>10. CASE PurgeCommits
  BY <1>10 DEF PurgeCommits, IdlePurge, TableInv, WireInv, ReplyInv, SavesInv, PurgeInv, Young
<1>11. CASE ExportReads
  BY <1>11 DEF ExportReads, TableInv, WireInv, ReplyInv, SavesInv, PurgeInv, Young
<1>12. CASE ExportWrites
  <2>1. TableInv'
    BY <1>12 DEF ExportWrites, TableInv
  <2>2. PurgeInv'
    BY <1>12, <2>1 DEF ExportWrites, PurgeInv, TableInv
  <2> QED
    BY <1>12, <2>1, <2>2 DEF ExportWrites, WireInv, ReplyInv, SavesInv, Young
<1>13. CASE Tick
  <2>1. now' = now + 1 /\ now' \in Minutes
    BY <1>13, CandlesAssumption DEF Tick, TableInv, Minutes
  <2>2. UNCHANGED <<wire, reply, saves, table, purge, archive>>
    BY <1>13 DEF Tick
  <2>3. \A i \in DOMAIN wire : wire[i].time + Retention > now
    BY <1>13 DEF Tick, InTime
  <2>4. \A c \in reply : c.time + Retention > now
    BY <1>13 DEF Tick, InTime, Times
  <2>5. \A s \in saves : \A c \in s.batch : c.time + Retention > now
    BY <1>13 DEF Tick, InTime, Times
  <2>6. purge.pc = "idle"
    BY <1>13 DEF Tick
  <2>7. \A c \in Candle : c.time + Retention > now => c.time + Retention >= now + 1
    BY CandlesAssumption DEF TableInv, Candle, Minutes
  <2>8. WireInv'
    BY <2>1, <2>2, <2>3, <2>7 DEF WireInv, Young
  <2>9. ReplyInv'
    BY <2>1, <2>2, <2>4, <2>7 DEF ReplyInv, Young
  <2>10. SavesInv'
    BY <2>1, <2>2, <2>5, <2>7 DEF SavesInv, Young
  <2> QED
    BY <2>1, <2>2, <2>6, <2>8, <2>9, <2>10 DEF TableInv, PurgeInv
<1>14. CASE DailyReset
  BY <1>14 DEF DailyReset, TableInv, WireInv, ReplyInv, SavesInv, PurgeInv, Young
<1>15. CASE Crash
  <2>1. wire' = <<>> /\ reply' = {} /\ saves' = {} /\ purge' = IdlePurge
    BY <1>15 DEF Crash
  <2>2. WireInv' /\ ReplyInv' /\ SavesInv' /\ PurgeInv'
    BY <2>1 DEF WireInv, ReplyInv, SavesInv, PurgeInv, IdlePurge
  <2> QED
    BY <1>15, <2>2 DEF Crash, TableInv
<1>16. CASE Restart
  <2>1. UNCHANGED <<now, wire, reply, saves, table, purge, archive>>
    BY <1>16 DEF Restart
  <2> QED
    BY <2>1 DEF TableInv, WireInv, ReplyInv, SavesInv, PurgeInv, Young
<1>17. CASE UNCHANGED vars
  BY <1>17 DEF vars, TableInv, WireInv, ReplyInv, SavesInv, PurgeInv, Young
<1> QED
  BY <1>1, <1>2, <1>f, <1>3, <1>4, <1>5, <1>6, <1>7, <1>8, <1>9, <1>10, <1>11,
     <1>12, <1>13, <1>14, <1>15, <1>16, <1>17 DEF Next, SaveStep, PurgeStep

-----------------------------------------------------------------------------
\* A step that neither empties the table nor the archive loses no record.
LEMMA GrowingKeeps ==
    ASSUME TableInv, table \subseteq table',
           \A m \in Minutes : archive[m] > 0 => archive'[m] > 0
    PROVE  Recorded \subseteq Recorded'
BY DEF Recorded, Times

LEMMA RecordStep == RecordInv /\ [Next]_vars => Recorded \subseteq Recorded'
<1> SUFFICES ASSUME RecordInv, [Next]_vars PROVE Recorded \subseteq Recorded'
  OBVIOUS
<1>1. TableInv
  BY DEF RecordInv
<1>2. CASE PurgeCommits
  <2>1. \A c \in table \ table' : archive[c.time] > 0 /\ c.time \in Minutes
    <3>1. purge.pc = "written" /\ PurgeInv
      BY <1>2 DEF PurgeCommits, RecordInv
    <3>2. \A c \in table : c.time \in Minutes /\ c.time \in Nat
      BY <1>1, CandlesAssumption DEF TableInv, Candle, Minutes
    <3>3. \A c \in table \ table' : c.time < purge.cutoff
      BY <1>2, <3>1, <3>2 DEF PurgeCommits, PurgeInv
    <3> QED
      BY <3>1, <3>2, <3>3 DEF PurgeInv
  <2>2. archive' = archive
    BY <1>2 DEF PurgeCommits
  <2> QED
    BY <2>1, <2>2 DEF Recorded, Times
<1>3. CASE PurgeArchives
  <2>1. \A m \in Minutes : archive[m] > 0 => archive'[m] > 0
    BY <1>1, <1>3 DEF PurgeArchives, TableInv
  <2> QED
    BY <1>1, <1>3, <2>1, GrowingKeeps DEF PurgeArchives
<1>4. CASE ExportWrites
  <2>1. \A m \in Minutes : archive[m] > 0 => archive'[m] > 0
    BY <1>1, <1>4 DEF ExportWrites, TableInv
  <2> QED
    BY <1>1, <1>4, <2>1, GrowingKeeps DEF ExportWrites
<1>5. ASSUME NEW s \in saves, SaveStep(s)
      PROVE  Recorded \subseteq Recorded'
  BY <1>1, <1>5, GrowingKeeps DEF SaveStep, SaveReads, SaveCommits, SaveFails, store
<1>6. CASE PartialFrame \/ FinalFrame \/ OnFrame \/ Poll \/ PollAnswered \/ PollFails
  BY <1>1, <1>6, GrowingKeeps
     DEF PartialFrame, FinalFrame, OnFrame, Poll, PollAnswered, PollFails, store
<1>7. CASE PurgeReads \/ ExportReads \/ Tick \/ DailyReset \/ Crash \/ Restart
  BY <1>1, <1>7, GrowingKeeps
     DEF PurgeReads, ExportReads, Tick, DailyReset, Crash, Restart, store
<1>8. CASE UNCHANGED vars
  BY <1>1, <1>8, GrowingKeeps DEF vars
<1> QED
  BY <1>2, <1>3, <1>4, <1>5, <1>6, <1>7, <1>8 DEF Next, PurgeStep

\* A candle on record stays in the table or the archive (dump_and_purge deletes
\* only what it has written, and no later save is older than its cutoff), for
\* any retention of at least two minutes, any number of saves and crashes.
THEOREM RecordsAreKept == Spec => RecordsKept
<1>1. RecordInv /\ [Next]_vars => [Recorded \subseteq Recorded']_vars
  BY RecordStep
<1> QED
  BY <1>1, RecordInit, RecordNext, PTL DEF Spec, RecordsKept

-----------------------------------------------------------------------------
(* Only finished candles get past the listener, and a poll asks for nothing
   else: each minute of the buffer, the table or a save is one candle. *)

FinalInv ==
    /\ received \subseteq Finals /\ reply \subseteq Finals /\ table \subseteq Finals
    /\ \A s \in saves : s.batch \subseteq Finals

(* One save at a time where a job polls; one candle at a time where a feed
   streams, so that an insert that fails has found its own candle on record. *)
SourceInv ==
    /\ source = "stream" =>
          reply = {} /\ \A s \in saves : \E c \in Finals : s.batch = {c}
    /\ source # "stream" =>
          /\ wire = <<>>
          /\ \A s, t \in saves : s = t
          /\ saves # {} => reply = {}
          /\ \A s \in saves : s.pc = "read" =>
                \A c \in s.batch, d \in table : d.time < c.time

Delivered == table \cup UNION {s.batch : s \in saves}
Seen == Delivered \cup received

(* Candles arrive in the order of their minutes, repetitions apart, so that the
   table has no candle the buffer lacks between two that it holds. *)
GapFree == \A d \in Delivered, c \in received : d.time > c.time => d \in received

StreamOrder ==
    /\ \A i, j \in DOMAIN wire :
          i < j /\ wire[i].final /\ wire[j].final => wire[i].time <= wire[j].time
    /\ \A i \in DOMAIN wire : wire[i].final =>
          wire[i].time < now /\ \A d \in Seen : d.time <= wire[i].time

(* A poll brings two minutes: the one before the newest is never missing. *)
Paired(S) ==
    \A c, d \in S : c.time < d.time /\ (\A e \in S : e.time <= d.time)
                      => \E p \in S : p.time = d.time - 1

PollOrder ==
    /\ \A c \in reply : c.time < now
    /\ \A c \in reply, d \in Seen : (\A e \in reply : e.time <= c.time) => d.time <= c.time
    /\ reply # {} => \E c, d \in reply : d.time = c.time + 1 /\ reply = {c, d}
    /\ Paired(received) /\ Paired(table) /\ Paired(Delivered)

OrderInv ==
    /\ ~up => wire = <<>> /\ reply = {} /\ saves = {}
    /\ \A d \in Seen : d.time < now
    /\ GapFree
    /\ source = "stream" => StreamOrder
    /\ source # "stream" => PollOrder

\* A candle handed to the buffer is on record, being saved, behind a newer one
\* on record, or its save has raised.
Safe(c) ==
    \/ c.time \in Recorded
    \/ \E s \in saves : c \in s.batch
    \/ \E m \in Recorded : m > c.time
    \/ c.time \in failed

SavedInv == up => \A c \in received : Safe(c)

\* What a restart puts into the buffer are the last of the day's rows.
Resumed == IF Reloaded < MaxBuffer THEN Reloaded ELSE MaxBuffer

LEMMA RehydratedTail ==
    ASSUME NEW S \in SUBSET Finals
    PROVE  /\ Resumed \in Nat \ {0} /\ Resumed <= MaxBuffer
           /\ LastOf(Rehydrated(S), MaxBuffer) = LastOf(ByTime(S), Resumed)
           /\ ToSet(LastOf(Rehydrated(S), MaxBuffer)) \subseteq Finals
<1>1. Reloaded \in Nat \ {0} /\ MaxBuffer \in Nat \ {0}
  BY CandlesAssumption
<1>2. Resumed \in Nat \ {0} /\ Resumed <= MaxBuffer
  BY <1>1 DEF Resumed
<1>3. ByTime(S) \in Seq(S)
  BY ByTimeSeq
<1>4. LastOf(Rehydrated(S), MaxBuffer) = LastOf(ByTime(S), Resumed)
  BY <1>1, <1>3, LastOfLastOf DEF Rehydrated, Resumed
<1>5. ToSet(LastOf(ByTime(S), Resumed)) \subseteq S
  BY <1>2, TailFacts
<1> QED
  BY <1>2, <1>4, <1>5

LEMMA KeptIsFinal == \A c \in Candle : Kept(c) => c \in Finals
<1> SUFFICES ASSUME NEW c \in Candle, Kept(c) PROVE c \in Finals
  OBVIOUS
<1>1. c.time \in Minutes /\ c = [time |-> c.time, final |-> TRUE]
  BY DEF Candle, Kept
<1>2. c = Finished(c.time)
  BY <1>1 DEF Finished
<1> QED
  BY <1>1, <1>2 DEF Finals

LEMMA FinalInit == Init => FinalInv
BY DEF Init, FinalInv

LEMMA ReceiveFinals ==
    ASSUME FinalInv, NEW C \in SUBSET Finals, Receive(C), UNCHANGED table, reply' \subseteq reply
    PROVE  FinalInv'
BY DEF FinalInv, Receive

LEMMA FinalNext == RecordInv /\ FinalInv /\ [Next]_vars => FinalInv'
<1> SUFFICES ASSUME RecordInv, FinalInv, [Next]_vars PROVE FinalInv'
  OBVIOUS
<1> USE DEF store
<1>1. ASSUME NEW s \in saves, SaveReads(s)
      PROVE  FinalInv'
  <2>1. Fresh(s.batch) \subseteq s.batch /\ s.batch \subseteq Finals
    BY DEF Fresh, FinalInv
  <2>2. \A t \in saves' : t \in saves \/ t = [pc |-> "read", batch |-> Fresh(s.batch)]
    BY <1>1 DEF SaveReads
  <2> QED
    BY <1>1, <2>1, <2>2 DEF SaveReads, FinalInv
<1>2. ASSUME NEW s \in saves, SaveCommits(s)
      PROVE  FinalInv'
  BY <1>2 DEF SaveCommits, FinalInv
<1>f. ASSUME NEW s \in saves, SaveFails(s)
      PROVE  FinalInv'
  BY <1>f DEF SaveFails, FinalInv
<1>3. CASE PartialFrame \/ FinalFrame
  BY <1>3 DEF PartialFrame, FinalFrame, FinalInv
<1>4. CASE OnFrame
  <2>1. Head(wire) \in Candle
    BY <1>4, HeadTailProperties DEF OnFrame, RecordInv, WireInv
  <2>2. CASE Kept(Head(wire))
    BY <1>4, <2>1, <2>2, KeptIsFinal, ReceiveFinals DEF OnFrame
  <2>3. CASE ~Kept(Head(wire))
    BY <1>4, <2>3 DEF OnFrame, FinalInv
  <2> QED
    BY <2>2, <2>3
<1>5. CASE Poll
  <2>1. now - 1 \in Minutes /\ now - 2 \in Minutes
    BY <1>5, CandlesAssumption DEF Poll, RecordInv, TableInv, Minutes
  <2>2. Finished(now - 1) \in Finals /\ Finished(now - 2) \in Finals
    BY <2>1 DEF Finals
  <2> QED
    BY <1>5, <2>2 DEF Poll, FinalInv
<1>6. CASE PollAnswered
  <2>1. reply \in SUBSET Finals /\ Receive(reply) /\ UNCHANGED table /\ reply' \subseteq reply
    BY <1>6 DEF PollAnswered, FinalInv
  <2> QED
    BY <2>1, ReceiveFinals
<1>7. CASE PollFails
  BY <1>7 DEF PollFails, FinalInv
<1>8. CASE PurgeReads \/ PurgeArchives \/ PurgeCommits \/ ExportReads \/ ExportWrites
  BY <1>8 DEF PurgeReads, PurgeArchives, PurgeCommits, ExportReads, ExportWrites, FinalInv
<1>9. CASE Tick \/ DailyReset \/ Crash
  BY <1>9 DEF Tick, DailyReset, Crash, FinalInv
<1>10. CASE Restart
  <2> DEFINE rows == {c \in table : Today(c.time)}
  <2>1. rows \in SUBSET Finals
    BY DEF FinalInv
  <2>2. received' = ToSet(buffer') /\ buffer' = LastOf(Rehydrated(rows), MaxBuffer)
    BY <1>10 DEF Restart
  <2>3. received' \subseteq Finals
    BY <2>1, <2>2, RehydratedTail
  <2> QED
    BY <1>10, <2>3 DEF Restart, FinalInv
<1>11. CASE UNCHANGED vars
  BY <1>11 DEF vars, FinalInv
<1> QED
  BY <1>1, <1>2, <1>f, <1>3, <1>4, <1>5, <1>6, <1>7, <1>8, <1>9, <1>10, <1>11
     DEF Next, SaveStep, PurgeStep

-----------------------------------------------------------------------------
(* The steps: what is delivered is final, and by one save after the other. *)

LEMMA NewerFacts ==
    ASSUME NEW S \in SUBSET Finals, NEW c \in Finals
    PROVE  c.time > Latest(S) <=> \A d \in S : d.time < c.time
<1>1. /\ Latest(S) \in Nat /\ \A d \in S : d.time <= Latest(S)
      /\ S # {} => \E d \in S : d.time = Latest(S)
      /\ S = {} => Latest(S) = 0
  BY LatestFacts
<1>2. c.time \in Nat /\ c.time > 0 /\ \A d \in S : d.time \in Nat
  BY FinalFacts
<1> QED
  BY <1>1, <1>2

LEMMA SourceInit == Init => SourceInv
BY DEF Init, SourceInv

LEMMA SourceNext == RecordInv /\ FinalInv /\ SourceInv /\ [Next]_vars => SourceInv'
<1> SUFFICES ASSUME RecordInv, FinalInv, SourceInv, [Next]_vars PROVE SourceInv'
  OBVIOUS
<1> USE DEF store
<1>1. ASSUME NEW s \in saves, SaveReads(s)
      PROVE  SourceInv'
  <2> DEFINE new == [pc |-> "read", batch |-> Fresh(s.batch)]
  <2>1. UNCHANGED <<source, wire, reply, table>>
    BY <1>1 DEF SaveReads
  <2>2. saves' = (saves \ {s}) \cup (IF Fresh(s.batch) = {} THEN {} ELSE {new})
    BY <1>1 DEF SaveReads
  <2>3. s.batch \in SUBSET Finals /\ table \in SUBSET Finals
    BY DEF FinalInv
  <2>4. Fresh(s.batch) \subseteq s.batch /\ \A c \in Fresh(s.batch), d \in table : d.time < c.time
    BY <2>3, NewerFacts DEF Fresh
  <2>5. CASE source = "stream"
    <3>1. PICK c \in Finals : s.batch = {c}
      BY <2>5 DEF SourceInv
    <3>2. Fresh(s.batch) = {} \/ Fresh(s.batch) = {c}
      BY <2>4, <3>1
    <3>3. \A t \in saves' : \E d \in Finals : t.batch = {d}
      BY <2>2, <2>5, <3>2 DEF SourceInv
    <3> QED
      BY <2>1, <2>5, <3>3 DEF SourceInv
  <2>6. CASE source # "stream"
    <3>1. saves' \subseteq {new} /\ saves # {}
      BY <2>2, <2>6 DEF SourceInv
    <3>2. \A t \in saves' : \A c \in t.batch, d \in table : d.time < c.time
      BY <2>4, <3>1
    <3> QED
      BY <2>1, <2>6, <3>1, <3>2 DEF SourceInv
  <2> QED
    BY <2>5, <2>6
<1>2. ASSUME NEW s \in saves, SaveCommits(s)
      PROVE  SourceInv'
  <2>1. saves' = saves \ {s} /\ UNCHANGED <<source, wire, reply>>
    BY <1>2 DEF SaveCommits
  <2>2. source # "stream" => saves' = {}
    BY <2>1 DEF SourceInv
  <2> QED
    BY <2>1, <2>2 DEF SourceInv
<1>f. ASSUME NEW s \in saves, SaveFails(s)
      PROVE  SourceInv'
  <2>1. saves' = saves \ {s} /\ UNCHANGED <<source, wire, reply, table>>
    BY <1>f DEF SaveFails
  <2> QED
    BY <2>1 DEF SourceInv
<1>3. CASE PartialFrame \/ FinalFrame
  BY <1>3 DEF PartialFrame, FinalFrame, Sent, SourceInv
<1>4. CASE OnFrame
  <2>1. source = "stream" /\ UNCHANGED <<source, reply>>
    BY <1>4 DEF OnFrame, SourceInv
  <2>2. Head(wire) \in Candle
    BY <1>4, HeadTailProperties DEF OnFrame, RecordInv, WireInv
  <2>3. CASE Kept(Head(wire))
    <3>1. saves' = saves \cup {[pc |-> "called", batch |-> {Head(wire)}]}
      BY <1>4, <2>3 DEF OnFrame, Receive
    <3> QED
      BY <2>1, <2>2, <2>3, <3>1, KeptIsFinal DEF SourceInv
  <2>4. CASE ~Kept(Head(wire))
    BY <1>4, <2>1, <2>4 DEF OnFrame, SourceInv
  <2> QED
    BY <2>3, <2>4
<1>5. CASE Poll
  BY <1>5 DEF Poll, SourceInv
<1>6. CASE PollAnswered
  <2>1. source # "stream" /\ saves = {}
    BY <1>6 DEF PollAnswered, SourceInv
  <2>2. saves' = {[pc |-> "called", batch |-> reply]} /\ reply' = {} /\ UNCHANGED <<source, wire, table>>
    BY <1>6, <2>1 DEF PollAnswered, Receive
  <2> QED
    BY <2>1, <2>2 DEF SourceInv
<1>7. CASE PollFails
  BY <1>7 DEF PollFails, SourceInv
<1>8. CASE PurgeCommits
  <2>1. table' \subseteq table /\ UNCHANGED <<source, wire, reply, saves>>
    BY <1>8 DEF PurgeCommits
  <2> QED
    BY <2>1 DEF SourceInv
<1>9. CASE PurgeReads \/ PurgeArchives \/ ExportReads \/ ExportWrites
  BY <1>9 DEF PurgeReads, PurgeArchives, ExportReads, ExportWrites, SourceInv
<1>10. CASE Tick \/ DailyReset \/ Crash \/ Restart
  BY <1>10 DEF Tick, DailyReset, Crash, Restart, SourceInv
<1>11. CASE UNCHANGED vars
  BY <1>11 DEF vars, SourceInv
<1> QED
  BY <1>1, <1>2, <1>f, <1>3, <1>4, <1>5, <1>6, <1>7, <1>8, <1>9, <1>10, <1>11
     DEF Next, SaveStep, PurgeStep

-----------------------------------------------------------------------------
(* The buffer. *)

LEMMA EmptyTail == LastOf(ByTime({}), MaxBuffer) = <<>>
<1>1. ByTime({}) \in Seq({}) /\ Len(ByTime({})) = 0
  BY ByTimeSeq, FS_EmptySet
<1>2. ByTime({}) = <<>>
  BY <1>1, EmptySeq
<1>3. MaxBuffer \in Nat
  BY CandlesAssumption
<1>4. Len(ByTime({})) <= MaxBuffer
  BY <1>1, <1>3
<1> QED
  BY <1>1, <1>2, <1>3, <1>4, LastOfShort

\* The newest of the buffer is the newest of all it was handed.
LEMMA LatestInBuffer ==
    ASSUME BufferIsTail, NEW c \in Finals, received \in SUBSET Finals
    PROVE  c.time > Latest(ToSet(buffer)) <=> c.time > Latest(received)
<1> DEFINE T == ToSet(buffer)
<1>1. MaxBuffer \in Nat \ {0}
  BY CandlesAssumption
<1>2. /\ T \subseteq received
      /\ \A a \in T, b \in received : a.time < b.time => b \in T
      /\ received # {} => T # {}
  BY <1>1, TailFacts DEF BufferIsTail
<1>3. c.time > Latest(T) <=> \A d \in T : d.time < c.time
  BY <1>2, NewerFacts
<1>4. c.time > Latest(received) <=> \A d \in received : d.time < c.time
  BY NewerFacts
<1>5. (\A d \in T : d.time < c.time) => (\A d \in received : d.time < c.time)
  <2> SUFFICES ASSUME \A d \in T : d.time < c.time, NEW d \in received
               PROVE  d.time < c.time
    OBVIOUS
  <2>1. CASE d \in T
    BY <2>1
  <2>2. CASE d \notin T
    <3>1. PICK a \in T : TRUE
      BY <1>2
    <3>2. a.time \in Nat /\ d.time \in Nat /\ c.time \in Nat /\ ~(a.time < d.time) /\ a.time < c.time
      BY <1>2, <2>2, <3>1, FinalFacts
    <3> QED
      BY <3>2
  <2> QED
    BY <2>1, <2>2
<1>6. (\A d \in received : d.time < c.time) => (\A d \in T : d.time < c.time)
  BY <1>2
<1> QED
  BY <1>3, <1>4, <1>5, <1>6

LEMMA ReceiveTail ==
    ASSUME BufferIsTail, received \in SUBSET Finals, NEW C \in SUBSET Finals, Receive(C)
    PROVE  BufferIsTail'
<1> DEFINE N == {c \in C : c.time > Latest(ToSet(buffer))}
           s == ByTime(received)
           t == ByTime(N)
<1>1. MaxBuffer \in Nat \ {0}
  BY CandlesAssumption
<1>2. N \in SUBSET Finals
  OBVIOUS
<1>3. \A c \in C : c.time > Latest(ToSet(buffer)) <=> c.final /\ c.time > Latest(received)
  BY LatestInBuffer, FinalFacts
<1>4. received' = received \cup N
  BY <1>3 DEF Receive
<1>5. \A a \in received, b \in N : a.time < b.time
  <2> SUFFICES ASSUME NEW a \in received, NEW b \in N PROVE a.time < b.time
    OBVIOUS
  <2>1. b \in Finals /\ b.time > Latest(received)
    BY <1>3
  <2> QED
    BY <2>1, NewerFacts
<1>6. buffer' = LastOf(buffer \o t, MaxBuffer)
  BY DEF Receive, Appended
<1> HIDE DEF N
<1>7. ByTime(received') = s \o t
  BY <1>2, <1>4, <1>5, ByTimeConcat
<1>8. s \in Seq(Finals) /\ t \in Seq(Finals)
  <2>1. s \in Seq(received) /\ t \in Seq(N)
    BY <1>2, ByTimeSeq
  <2> QED
    BY <1>2, <2>1, SeqMonotonic
<1>9. buffer = LastOf(s, MaxBuffer)
  BY DEF BufferIsTail
<1>10. buffer' = LastOf(s \o t, MaxBuffer)
  <2> HIDE DEF s, t
  <2> QED
    BY <1>1, <1>6, <1>8, <1>9, LastOfConcat
<1> QED
  BY <1>7, <1>10 DEF BufferIsTail

LEMMA TailInit == Init => BufferIsTail
BY EmptyTail DEF Init, BufferIsTail

LEMMA TailNext == RecordInv /\ FinalInv /\ BufferIsTail /\ [Next]_vars => BufferIsTail'
<1> SUFFICES ASSUME RecordInv, FinalInv, BufferIsTail, [Next]_vars PROVE BufferIsTail'
  OBVIOUS
<1>0. received \in SUBSET Finals /\ reply \in SUBSET Finals
  BY DEF FinalInv
<1>1. CASE UNCHANGED <<buffer, received>>
  BY <1>1 DEF BufferIsTail
<1>2. CASE OnFrame
  <2>1. Head(wire) \in Candle
    BY <1>2, HeadTailProperties DEF OnFrame, RecordInv, WireInv
  <2>2. CASE Kept(Head(wire))
    <3>1. {Head(wire)} \in SUBSET Finals /\ Receive({Head(wire)})
      BY <1>2, <2>1, <2>2, KeptIsFinal DEF OnFrame
    <3> QED
      BY <1>0, <3>1, ReceiveTail
  <2>3. CASE ~Kept(Head(wire))
    BY <1>1, <1>2, <2>3 DEF OnFrame
  <2> QED
    BY <2>2, <2>3
<1>3. CASE PollAnswered
  BY <1>0, <1>3, ReceiveTail DEF PollAnswered
<1>4. CASE DailyReset
  <2>1. buffer' = <<>> /\ received' = {}
    BY <1>4 DEF DailyReset
  <2> QED
    BY <2>1, EmptyTail DEF BufferIsTail
<1>5. CASE Restart
  <2> DEFINE rows == {c \in table : Today(c.time)}
             b == LastOf(ByTime(rows), Resumed)
  <2>1. rows \in SUBSET Finals
    BY DEF FinalInv
  <2>2. buffer' = b /\ received' = ToSet(b) /\ Resumed \in Nat \ {0} /\ Resumed <= MaxBuffer
    BY <1>5, <2>1, RehydratedTail DEF Restart
  <2> HIDE DEF rows
  <2>3. b = ByTime(ToSet(b)) /\ b \in Seq(ToSet(b)) /\ Len(b) <= Resumed
    BY <2>1, <2>2, TailFacts
  <2> HIDE DEF b
  <2>4. MaxBuffer \in Nat /\ Len(b) \in Nat
    BY <2>3, CandlesAssumption, LenProperties
  <2>5. Len(b) <= MaxBuffer
    BY <2>2, <2>3, <2>4
  <2>6. LastOf(b, MaxBuffer) = b
    BY <2>3, <2>4, <2>5, LastOfShort
  <2>7. LastOf(ByTime(received'), MaxBuffer) = buffer'
    BY <2>2, <2>3, <2>6
  <2> QED
    BY <2>7 DEF BufferIsTail
<1>6. CASE \E s \in saves : SaveStep(s)
  BY <1>1, <1>6 DEF SaveStep, SaveReads, SaveCommits, SaveFails
<1>7. CASE PartialFrame \/ FinalFrame \/ Poll \/ PollFails \/ Tick \/ Crash
  BY <1>1, <1>7 DEF PartialFrame, FinalFrame, Poll, PollFails, Tick, Crash
<1>8. CASE PurgeReads \/ PurgeArchives \/ PurgeCommits \/ ExportReads \/ ExportWrites
  BY <1>1, <1>8 DEF PurgeReads, PurgeArchives, PurgeCommits, ExportReads, ExportWrites
<1>9. CASE UNCHANGED vars
  BY <1>1, <1>9 DEF vars
<1> QED
  BY <1>2, <1>3, <1>4, <1>5, <1>6, <1>7, <1>8, <1>9 DEF Next, PurgeStep

-----------------------------------------------------------------------------
(* What the buffer holds is on record, or on its way there. *)

LEMMA SafeKept ==
    ASSUME NEW c, Safe(c), Recorded \subseteq Recorded', failed \subseteq failed',
           \A s \in saves : c \in s.batch =>
              \/ \E t \in saves' : c \in t.batch
              \/ \E m \in Recorded' : m = c.time \/ m > c.time
              \/ c.time \in failed'
    PROVE  Safe(c)'
BY DEF Safe

LEMMA SavedInit == Init => SavedInv
BY DEF Init, SavedInv

LEMMA FailedGrows == [Next]_vars => failed \subseteq failed'
BY DEF Next, SaveStep, PurgeStep, vars, SaveReads, SaveCommits, SaveFails,
       PartialFrame, FinalFrame, OnFrame, Poll, PollAnswered, PollFails,
       PurgeReads, PurgeArchives, PurgeCommits, ExportReads, ExportWrites, Tick,
       DailyReset, Crash, Restart

LEMMA SavedNext ==
    RecordInv /\ FinalInv /\ SourceInv /\ SavedInv /\ [Next]_vars => SavedInv'
<1> SUFFICES ASSUME RecordInv, FinalInv, SourceInv, SavedInv, [Next]_vars,
                    up', NEW c \in received'
             PROVE  Safe(c)'
  BY DEF SavedInv, Safe
<1> USE DEF store
<1>0. Recorded \subseteq Recorded' /\ failed \subseteq failed'
  BY RecordStep, FailedGrows
<1>1. ASSUME up, c \in received PROVE Safe(c)
  BY <1>1 DEF SavedInv, Safe
<1>2. ASSUME up, c \in received, saves \subseteq saves' PROVE Safe(c)'
  BY <1>0, <1>1, <1>2, SafeKept
<1>3. ASSUME NEW s \in saves, SaveReads(s)
      PROVE  Safe(c)'
  <2>1. up /\ c \in received
    BY <1>3 DEF SaveReads
  <2>2. ASSUME NEW t \in saves, c \in t.batch
        PROVE  \/ \E u \in saves' : c \in u.batch
               \/ \E m \in Recorded' : m = c.time \/ m > c.time
    <3>1. CASE t # s
      BY <1>3, <2>2, <3>1 DEF SaveReads
    <3>2. CASE t = s /\ c \in Fresh(s.batch)
      <4>1. [pc |-> "read", batch |-> Fresh(s.batch)] \in saves'
        BY <1>3, <3>2 DEF SaveReads
      <4> QED
        BY <3>2, <4>1
    <3>3. CASE t = s /\ c \notin Fresh(s.batch)
      <4>1. c \in Finals /\ table \in SUBSET Finals
        BY <2>2 DEF FinalInv
      <4>2. ~(\A d \in table : d.time < c.time)
        BY <2>2, <3>3, <4>1, NewerFacts DEF Fresh
      <4>3. PICK d \in table : ~(d.time < c.time)
        BY <4>2
      <4>4. d.time \in Recorded /\ d.time \in Nat /\ c.time \in Nat
        BY <4>1, FinalFacts DEF Recorded, Times
      <4> QED
        BY <1>0, <4>3, <4>4
    <3> QED
      BY <3>1, <3>2, <3>3
  <2> QED
    BY <1>0, <1>1, <2>1, <2>2, SafeKept
<1>4. ASSUME NEW s \in saves, SaveCommits(s)
      PROVE  Safe(c)'
  <2>1. up /\ c \in received
    BY <1>4 DEF SaveCommits
  <2>2. ASSUME NEW t \in saves, c \in t.batch
        PROVE  \/ \E u \in saves' : c \in u.batch
               \/ \E m \in Recorded' : m = c.time \/ m > c.time
    <3>1. CASE t # s
      BY <1>4, <2>2, <3>1 DEF SaveCommits
    <3>2. CASE t = s /\ Times(s.batch) \cap Times(table) = {}
      <4>1. c \in table'
        BY <1>4, <2>2, <3>2 DEF SaveCommits
      <4> QED
        BY <4>1 DEF Recorded, Times
    <3>3. CASE t = s /\ Times(s.batch) \cap Times(table) # {}
      <4>1. PICK b \in s.batch, d \in table : b.time = d.time
        BY <3>3 DEF Times
      <4>2. CASE source = "stream"
        <5>1. b = c
          BY <2>2, <3>3, <4>1, <4>2 DEF SourceInv
        <5>2. c.time \in Recorded
          BY <4>1, <5>1 DEF Recorded, Times
        <5> QED
          BY <1>0, <5>2
      <4>3. CASE source # "stream"
        <5>1. s.pc = "read"
          BY <1>4 DEF SaveCommits
        <5>2. d.time < b.time /\ b.time \in Nat
          BY <4>1, <4>3, <5>1, FinalFacts DEF SourceInv, FinalInv
        <5> QED
          BY <4>1, <5>2
      <4> QED
        BY <4>2, <4>3
    <3> QED
      BY <3>1, <3>2, <3>3
  <2> QED
    BY <1>0, <1>1, <2>1, <2>2, SafeKept
<1>f. ASSUME NEW s \in saves, SaveFails(s)
      PROVE  Safe(c)'
  <2>1. up /\ c \in received
    BY <1>f DEF SaveFails
  <2>2. ASSUME NEW t \in saves, c \in t.batch
        PROVE  (\E u \in saves' : c \in u.batch) \/ c.time \in failed'
    BY <1>f, <2>2 DEF SaveFails, Times
  <2> QED
    BY <1>0, <1>1, <2>1, <2>2, SafeKept
<1>5. ASSUME NEW C, Receive(C), up
      PROVE  Safe(c)'
  <2>1. CASE c \in received
    BY <1>2, <1>5, <2>1 DEF Receive
  <2>2. CASE c \notin received
    <3>1. c \in C /\ [pc |-> "called", batch |-> C] \in saves'
      BY <1>5, <2>2 DEF Receive
    <3>2. \E s \in saves' : c \in s.batch
      BY <3>1
    <3> QED
      BY <3>2 DEF Safe
  <2> QED
    BY <2>1, <2>2
<1>6. CASE OnFrame
  <2>1. up
    BY <1>6 DEF OnFrame, Receive
  <2> QED
    BY <1>2, <1>5, <1>6, <2>1 DEF OnFrame
<1>7. CASE PollAnswered
  BY <1>5, <1>7 DEF PollAnswered, Receive
<1>8. CASE DailyReset
  BY <1>8 DEF DailyReset
<1>9. CASE Crash
  BY <1>9 DEF Crash
<1>10. CASE Restart
  <2> DEFINE rows == {d \in table : Today(d.time)}
  <2>1. rows \in SUBSET Finals
    BY DEF FinalInv
  <2>2. received' = ToSet(LastOf(ByTime(rows), Resumed)) /\ Resumed \in Nat \ {0}
    BY <1>10, <2>1, RehydratedTail DEF Restart
  <2>3. received' \subseteq rows
    BY <2>1, <2>2, TailFacts
  <2>4. c \in table /\ table' = table
    BY <1>10, <2>3 DEF Restart
  <2> QED
    BY <2>4 DEF Safe, Recorded, Times
<1>11. CASE PartialFrame \/ FinalFrame \/ Poll \/ PollFails \/ Tick
  BY <1>2, <1>11 DEF PartialFrame, FinalFrame, Poll, PollFails, Tick
<1>12. CASE PurgeReads \/ PurgeArchives \/ PurgeCommits \/ ExportReads \/ ExportWrites
  BY <1>2, <1>12 DEF PurgeReads, PurgeArchives, PurgeCommits, ExportReads, ExportWrites
<1>13. CASE UNCHANGED vars
  BY <1>2, <1>13 DEF vars
<1> QED
  BY <1>3, <1>4, <1>f, <1>6, <1>7, <1>8, <1>9, <1>10, <1>11, <1>12, <1>13
     DEF Next, SaveStep, PurgeStep

\* The buffer is the tail of the finished candles it was handed, each once and in
\* order (append_candles over the frames and replies the listener and the poll
\* hand it), for any buffer size, any frames of the forming minute and any
\* number of repeated frames, overlapping replies, midnights and crashes.
THEOREM BufferHoldsTail == Spec => []BufferIsTail
<1>1. Init => RecordInv /\ FinalInv /\ BufferIsTail
  BY RecordInit, FinalInit, TailInit
<1>2. RecordInv /\ FinalInv /\ BufferIsTail /\ [Next]_vars => (RecordInv /\ FinalInv /\ BufferIsTail)'
  BY RecordNext, FinalNext, TailNext
<1> QED
  BY <1>1, <1>2, PTL DEF Spec

LEMMA SavedIsBuffered == FinalInv /\ BufferIsTail /\ SavedInv => BufferedIsSaved
<1> SUFFICES ASSUME FinalInv, BufferIsTail, SavedInv PROVE BufferedIsSaved
  OBVIOUS
<1>1. MaxBuffer \in Nat \ {0}
  BY CandlesAssumption
<1>2. ToSet(buffer) \subseteq received
  BY <1>1, TailFacts DEF BufferIsTail, FinalInv
<1> QED
  BY <1>2 DEF SavedInv, Safe, BufferedIsSaved

\* A candle in the buffer is on record, being saved, or older than one on record
\* (CandleStore.save, which reads the newest minute before it inserts), for any
\* interleaving of saves, purges, exports and crashes: the insert that fails on
\* a minute already on record loses no candle.
THEOREM BufferIsSaved == Spec => []BufferedIsSaved
<1>1. Init => RecordInv /\ FinalInv /\ SourceInv /\ SavedInv
  BY RecordInit, FinalInit, SourceInit, SavedInit
<1>2. RecordInv /\ FinalInv /\ SourceInv /\ SavedInv /\ [Next]_vars
        => (RecordInv /\ FinalInv /\ SourceInv /\ SavedInv)'
  BY RecordNext, FinalNext, SourceNext, SavedNext
<1> QED
  BY <1>1, <1>2, BufferHoldsTail, SavedIsBuffered, PTL DEF Spec

-----------------------------------------------------------------------------
(* The order in which candles arrive, action by action. *)

\* A minute between two of one day is of that day.
LEMMA DayMonotone ==
    ASSUME NEW a \in Nat, NEW b \in Nat, NEW c \in Nat, a <= b, b <= c, DayOf(a) = DayOf(c)
    PROVE  DayOf(b) = DayOf(c)
<1>1. DayLength \in Nat /\ DayLength > 0
  BY CandlesAssumption
<1> QED
  BY <1>1 DEF DayOf

\* What the saves S carry.
Batches(S) == UNION {s.batch : s \in S}

LEMMA OneBatchMore ==
    ASSUME NEW S, NEW pc, NEW B
    PROVE  Batches(S \cup {[pc |-> pc, batch |-> B]}) = Batches(S) \cup B
<1> DEFINE new == [pc |-> pc, batch |-> B]
<1>1. new.batch = B
  OBVIOUS
<1>2. ASSUME NEW x \in Batches(S \cup {new}) PROVE x \in Batches(S) \cup B
  <2>1. PICK s \in S \cup {new} : x \in s.batch
    BY <1>2 DEF Batches
  <2> QED
    BY <1>1, <2>1 DEF Batches
<1>3. ASSUME NEW x \in Batches(S) \cup B PROVE x \in Batches(S \cup {new})
  <2> HIDE DEF new
  <2>1. CASE x \in B
    BY <1>1, <2>1 DEF Batches
  <2>2. CASE x \in Batches(S)
    BY <2>2 DEF Batches
  <2> QED
    BY <1>3, <2>1, <2>2
<1> QED
  BY <1>2, <1>3

\* A purge cuts from below.
LEMMA PairedRecent ==
    ASSUME NEW S \in SUBSET Finals, NEW n \in Nat, Paired(S)
    PROVE  Paired({c \in S : c.time >= n})
<1> DEFINE R == {c \in S : c.time >= n}
<1> SUFFICES ASSUME NEW c \in R, NEW d \in R, c.time < d.time, \A e \in R : e.time <= d.time
             PROVE  \E p \in R : p.time = d.time - 1
  BY DEF Paired
<1>1. \A e \in S : e.time \in Nat
  BY FinalFacts
<1>2. \A e \in S : e.time <= d.time
  BY <1>1
<1>3. PICK p \in S : p.time = d.time - 1
  BY <1>2 DEF Paired
<1> QED
  BY <1>1, <1>3

LEMMA SeenFinal == FinalInv => Seen \in SUBSET Finals /\ Delivered \in SUBSET Finals /\ \A d \in Seen : d.time \in Nat
BY FinalFacts DEF FinalInv, Seen, Delivered

\* A step that brings no candle keeps the order, if it keeps the pairs.
LEMMA QuietOrder ==
    ASSUME OrderInv, Delivered' \subseteq Delivered, received' = received,
           wire' = wire, reply' \subseteq reply, reply' = reply \/ reply' = {}, UNCHANGED <<now, source>>,
           up' = up, up \/ saves' = {},
           source # "stream" => Paired(table)' /\ Paired(Delivered)'
    PROVE  OrderInv'
<1>1. Seen' \subseteq Seen
  BY DEF Seen
<1>2. GapFree'
  BY DEF OrderInv, GapFree
<1>3. source = "stream" => StreamOrder'
  BY <1>1 DEF OrderInv, StreamOrder
<1>4. source # "stream" => PollOrder'
  BY <1>1 DEF OrderInv, PollOrder, Paired
<1> QED
  BY <1>1, <1>2, <1>3, <1>4 DEF OrderInv

LEMMA OrderInit == Init => OrderInv
<1> SUFFICES ASSUME Init PROVE OrderInv
  OBVIOUS
<1>1. Seen = {} /\ Delivered = {} /\ wire = <<>> /\ reply = {} /\ table = {} /\ received = {} /\ up
  BY DEF Init, Seen, Delivered
<1> QED
  BY <1>1 DEF OrderInv, GapFree, StreamOrder, PollOrder, Paired

LEMMA SaveReadsOrder ==
    ASSUME RecordInv, FinalInv, SourceInv, OrderInv, NEW s \in saves, SaveReads(s)
    PROVE  OrderInv'
<1> DEFINE F == Fresh(s.batch)
<1> USE DEF store
<1>1. /\ UNCHANGED <<source, now, up, wire, reply, table, received>>
      /\ saves' = (saves \ {s}) \cup (IF F = {} THEN {} ELSE {[pc |-> "read", batch |-> F]})
  BY DEF SaveReads
<1>2. table \in SUBSET Finals /\ s.batch \in SUBSET Finals
  BY DEF FinalInv
<1>3. /\ F \subseteq s.batch
      /\ \A c \in F, d \in table : d.time < c.time
      /\ \A c \in s.batch \ F : \E d \in table : ~(d.time < c.time)
  BY <1>2, NewerFacts DEF Fresh
<1> HIDE DEF F
<1>4. Delivered' \subseteq Delivered
  <2>1. \A t \in saves' : t \in saves \/ (t.batch = F /\ F # {})
    BY <1>1
  <2> QED
    BY <1>1, <1>3, <2>1 DEF Delivered
<1>5. up
  BY DEF OrderInv
<1>6. ASSUME source # "stream"
      PROVE  Paired(Delivered)'
  <2>1. \A t \in saves : t = s
    BY <1>6 DEF SourceInv
  <2>2. Delivered = table \cup s.batch
    BY <2>1 DEF Delivered
  <2>3. Delivered' = table \cup F
    <3>1. F = {} => saves' = {}
      BY <1>1, <2>1
    <3>2. F # {} => saves' = {[pc |-> "read", batch |-> F]}
      BY <1>1, <2>1
    <3>3. table' \cup UNION {t.batch : t \in saves'} = table \cup F
      <4>1. CASE F = {}
        BY <1>1, <3>1, <4>1
      <4>2. CASE F # {}
        <5>1. saves' = {} \cup {[pc |-> "read", batch |-> F]}
          BY <3>2, <4>2
        <5>2. Batches(saves') = F
          BY <5>1, OneBatchMore DEF Batches
        <5> QED
          BY <1>1, <5>2 DEF Batches
      <4> QED
        BY <4>1, <4>2
    <3> QED
      BY <3>3 DEF Delivered
  <2>4. Paired(table) /\ Paired(Delivered)
    BY <1>6 DEF OrderInv, PollOrder
  <2> SUFFICES ASSUME NEW c \in table \cup F, NEW d \in table \cup F, c.time < d.time,
                      \A e \in table \cup F : e.time <= d.time
               PROVE  \E p \in table \cup F : p.time = d.time - 1
    BY <2>3 DEF Paired
  <2>5. \A e \in table \cup s.batch : e.time \in Nat
    BY <1>2, FinalFacts
  <2>6. CASE d \in table
    <3>1. F = {}
      <4>1. \A e \in F : d.time < e.time /\ e.time <= d.time /\ e.time \in Nat /\ d.time \in Nat
        BY <1>3, <2>5, <2>6
      <4> QED
        BY <4>1
    <3> QED
      BY <2>4, <2>6, <3>1 DEF Paired
  <2>7. CASE d \in F
    <3>1. \A e \in Delivered : e.time <= d.time
      <4> SUFFICES ASSUME NEW e \in Delivered PROVE e.time <= d.time
        OBVIOUS
      <4>1. CASE e \in table \cup F
        BY <4>1
      <4>2. CASE e \in s.batch \ F
        <5>1. PICK x \in table : ~(x.time < e.time)
          BY <1>3, <4>2
        <5>2. x.time < d.time /\ x.time \in Nat /\ e.time \in Nat /\ d.time \in Nat
          BY <1>3, <2>2, <2>5, <2>7, <4>2
        <5> QED
          BY <5>1, <5>2
      <4> QED
        BY <2>2, <4>1, <4>2
    <3>2. c \in Delivered /\ d \in Delivered
      BY <1>3, <2>2
    <3>3. PICK p \in Delivered : p.time = d.time - 1
      BY <2>4, <3>1, <3>2 DEF Paired
    <3>4. CASE p \in table \cup F
      BY <3>3, <3>4
    <3>5. CASE p \in s.batch \ F
      <4>1. PICK x \in table : ~(x.time < p.time)
        BY <1>3, <3>5
      <4>2. x.time < d.time /\ x.time \in Nat /\ d.time \in Nat
        BY <1>3, <2>5, <2>7
      <4>3. x.time = d.time - 1
        BY <3>3, <4>1, <4>2
      <4> QED
        BY <4>3
    <3> QED
      BY <2>2, <3>4, <3>5
  <2> QED
    BY <2>6, <2>7
<1>7. source # "stream" => Paired(table)'
  BY <1>1 DEF OrderInv, PollOrder, Paired
<1> QED
  BY <1>1, <1>4, <1>5, <1>6, <1>7, QuietOrder

\* A save that ends, with its rows or without.
LEMMA SaveEndsOrder ==
    ASSUME RecordInv, FinalInv, SourceInv, OrderInv, NEW s \in saves,
           SaveCommits(s) \/ SaveFails(s)
    PROVE  OrderInv'
<1>1. /\ UNCHANGED <<source, now, up, wire, reply, received>>
      /\ saves' = saves \ {s} /\ (table' = table \cup s.batch \/ table' = table)
  BY DEF SaveCommits, SaveFails, store
<1>2. Delivered' \subseteq Delivered
  BY <1>1 DEF Delivered
<1>3. up
  BY DEF OrderInv
<1>4. ASSUME source # "stream"
      PROVE  Paired(table)' /\ Paired(Delivered)'
  <2>1. \A t \in saves : t = s
    BY <1>4 DEF SourceInv
  <2>2. Delivered = table \cup s.batch /\ saves' = {}
    BY <1>1, <2>1 DEF Delivered
  <2>3. Delivered' = table' /\ (table' = table \/ table' = Delivered)
    BY <1>1, <2>2 DEF Delivered
  <2>4. Paired(table) /\ Paired(Delivered)
    BY <1>4 DEF OrderInv, PollOrder
  <2> QED
    BY <2>3, <2>4 DEF Paired
<1> QED
  BY <1>1, <1>2, <1>3, <1>4, QuietOrder

LEMMA PurgeCommitsOrder ==
    ASSUME RecordInv, FinalInv, OrderInv, PurgeCommits
    PROVE  OrderInv'
<1>1. /\ UNCHANGED <<source, now, up, wire, reply, received, saves>>
      /\ table' = {c \in table : c.time >= purge.cutoff}
  BY DEF PurgeCommits
<1>2. purge.cutoff \in Nat /\ purge.cutoff + Retention = now
  BY DEF PurgeCommits, RecordInv, PurgeInv
<1>3. \A s \in saves : \A c \in s.batch : c.time >= purge.cutoff
  <2> SUFFICES ASSUME NEW s \in saves, NEW c \in s.batch PROVE c.time >= purge.cutoff
    OBVIOUS
  <2>1. c \in Finals /\ c.time + Retention >= now
    BY DEF FinalInv, RecordInv, SavesInv, Young
  <2>2. c.time \in Nat /\ Retention \in Nat
    BY <2>1, FinalFacts, CandlesAssumption
  <2> QED
    BY <1>2, <2>1, <2>2
<1>4. Delivered' = {c \in Delivered : c.time >= purge.cutoff}
  BY <1>1, <1>3 DEF Delivered
<1>5. source # "stream" => Paired(table)' /\ Paired(Delivered)'
  <2> SUFFICES ASSUME source # "stream" PROVE Paired(table)' /\ Paired(Delivered)'
    OBVIOUS
  <2>1. Paired(table) /\ Paired(Delivered)
    BY DEF OrderInv, PollOrder
  <2>2. Paired({c \in table : c.time >= purge.cutoff}) /\ Paired({c \in Delivered : c.time >= purge.cutoff})
    BY <1>2, <2>1, PairedRecent, SeenFinal DEF FinalInv
  <2> QED
    BY <1>1, <1>4, <2>2 DEF Paired
<1>6. up \/ saves' = {}
  BY <1>1 DEF OrderInv
<1> QED
  BY <1>1, <1>4, <1>5, <1>6, QuietOrder

\* A frame is of the forming minute or the last one, behind all frames before.
LEMMA FrameOrder ==
    ASSUME RecordInv, FinalInv, OrderInv, PartialFrame \/ FinalFrame
    PROVE  OrderInv'
<1>1. /\ UNCHANGED <<source, now, up, reply, received, saves, table>>
      /\ source = "stream" /\ up
  BY DEF PartialFrame, FinalFrame, Sent, store
<1>2. PICK c \in Candle : wire' = Append(wire, c) /\ (c.final => c.time = now - 1)
  <2> DEFINE partial == [time |-> now, final |-> FALSE]
  <2>1. ASSUME PartialFrame
        PROVE  partial \in Candle /\ wire' = Append(wire, partial) /\ ~partial.final
    BY <2>1 DEF PartialFrame, Sent, RecordInv, TableInv, Candle
  <2>2. ASSUME FinalFrame
        PROVE  LET c == Finished(now - 1)
               IN  c \in Candle /\ wire' = Append(wire, c) /\ c.time = now - 1
    BY <2>2, CandlesAssumption DEF FinalFrame, Sent, Finished, RecordInv, TableInv, Minutes, Candle
  <2> QED
    BY <2>1, <2>2, Zenon
<1>3. Seen' = Seen /\ Delivered' = Delivered
  BY <1>1 DEF Seen, Delivered
<1>4. GapFree'
  BY <1>1, <1>3 DEF OrderInv, GapFree
<1>5. now \in Nat /\ wire \in Seq(Candle)
  BY CandlesAssumption DEF RecordInv, TableInv, WireInv, Minutes
<1>6. /\ wire' \in Seq(Candle) /\ Len(wire') = Len(wire) + 1 /\ Len(wire) \in Nat
      /\ DOMAIN wire = 1..Len(wire) /\ DOMAIN wire' = 1..(Len(wire) + 1)
      /\ \A i \in 1..Len(wire) : wire'[i] = wire[i]
      /\ wire'[Len(wire) + 1] = c
  BY <1>2, <1>5, AppendProperties, LenProperties
<1>7. \A i \in DOMAIN wire' : i \in DOMAIN wire \/ i = Len(wire) + 1
  BY <1>6
<1>8. StreamOrder
  BY <1>1 DEF OrderInv
<1>9. \A d \in Seen : d.time \in Nat /\ d.time < now
  BY SeenFinal DEF OrderInv
<1>10. \A i \in DOMAIN wire : wire[i].time \in Nat
  <2>1. \A i \in DOMAIN wire : wire[i] \in Candle
    BY <1>5, <1>6, ElementOfSeq
  <2> QED
    BY <2>1 DEF Candle, Minutes
<1>11. ASSUME NEW i \in DOMAIN wire', wire'[i].final
       PROVE  wire'[i].time < now /\ \A d \in Seen : d.time <= wire'[i].time
  <2>1. CASE i \in DOMAIN wire
    BY <1>6, <1>8, <1>11, <2>1 DEF StreamOrder
  <2>2. CASE i = Len(wire) + 1
    BY <1>2, <1>5, <1>6, <1>9, <1>11, <2>2
  <2> QED
    BY <1>7, <2>1, <2>2
<1>12. ASSUME NEW i \in DOMAIN wire', NEW j \in DOMAIN wire', i < j, wire'[i].final, wire'[j].final
       PROVE  wire'[i].time <= wire'[j].time
  <2>1. i \in DOMAIN wire
    BY <1>6, <1>12
  <2>2. CASE j \in DOMAIN wire
    BY <1>6, <1>8, <1>12, <2>1, <2>2 DEF StreamOrder
  <2>3. CASE j = Len(wire) + 1
    <3>1. wire'[j].time = now - 1 /\ wire[i].time < now /\ wire'[i] = wire[i]
      BY <1>2, <1>6, <1>8, <1>12, <2>1, <2>3 DEF StreamOrder
    <3> QED
      BY <1>5, <1>10, <2>1, <3>1
  <2> QED
    BY <1>7, <2>2, <2>3
<1>13. StreamOrder'
  BY <1>1, <1>3, <1>11, <1>12 DEF StreamOrder
<1> QED
  BY <1>1, <1>3, <1>4, <1>9, <1>13 DEF OrderInv

\* A candle that is not older than any seen leaves no gap.
LEMMA NextCandle ==
    ASSUME FinalInv, OrderInv, NEW f \in Finals, \A d \in Seen : d.time <= f.time,
           Receive({f}), table' = table
    PROVE  /\ Delivered' = Delivered \cup {f} /\ Seen' = Seen \cup {f}
           /\ GapFree'
<1>1. Delivered' = Delivered \cup {f}
  <2>1. saves' = saves \cup {[pc |-> "called", batch |-> {f}]}
    BY DEF Receive
  <2>2. Batches(saves') = Batches(saves) \cup {f}
    BY <2>1, OneBatchMore
  <2> QED
    BY <2>2 DEF Delivered, Batches
<1>2. received' = received \cup {c \in {f} : c.final /\ c.time > Latest(received)}
  BY DEF Receive
<1>3. Seen' = Seen \cup {f}
  BY <1>1, <1>2 DEF Seen
<1>4. received \in SUBSET Finals /\ f.time \in Nat /\ f.final = TRUE
  BY FinalFacts DEF FinalInv
<1>5. CASE f.time > Latest(received)
  <2>1. received' = received \cup {f}
    BY <1>2, <1>4, <1>5
  <2>2. \A d \in Delivered : ~(d.time > f.time)
    BY SeenFinal, <1>4 DEF Seen
  <2> QED
    BY <1>1, <1>3, <1>4, <2>1, <2>2 DEF GapFree, OrderInv
<1>6. CASE ~(f.time > Latest(received))
  <2>1. received' = received
    BY <1>2, <1>6
  <2>2. PICK e \in received : ~(e.time < f.time)
    BY <1>4, <1>6, NewerFacts
  <2>3. e.time <= f.time /\ e \in Finals /\ e.time \in Nat
    BY <1>4, FinalFacts DEF Seen
  <2>4. e = f
    BY <1>4, <2>2, <2>3, FinalFacts
  <2> QED
    BY <1>1, <1>3, <2>1, <2>2, <2>4 DEF GapFree, OrderInv
<1> QED
  BY <1>5, <1>6

LEMMA OnFrameOrder ==
    ASSUME RecordInv, FinalInv, SourceInv, OrderInv, OnFrame
    PROVE  OrderInv'
<1> DEFINE f == Head(wire)
<1>1. /\ UNCHANGED <<source, now, up, reply, table>> /\ wire # <<>> /\ wire' = Tail(wire)
      /\ source = "stream" /\ up
  BY DEF OnFrame, store, SourceInv, OrderInv
<1>2. wire \in Seq(Candle) /\ now \in Nat
  BY CandlesAssumption DEF RecordInv, WireInv, TableInv, Minutes
<1>3. /\ f = wire[1] /\ f \in Candle /\ Len(wire) \in Nat \ {0} /\ DOMAIN wire = 1..Len(wire)
      /\ wire' \in Seq(Candle) /\ DOMAIN wire' = 1..(Len(wire) - 1)
      /\ \A i \in 1..(Len(wire) - 1) : wire'[i] = wire[i + 1]
  BY <1>1, <1>2, HeadTailProperties, LenProperties, EmptySeq
<1> HIDE DEF f
<1>4. StreamOrder
  BY <1>1 DEF OrderInv
<1>5. ASSUME NEW i \in DOMAIN wire'
      PROVE  i + 1 \in DOMAIN wire /\ 1 \in DOMAIN wire /\ 1 < i + 1 /\ wire'[i] = wire[i + 1]
  BY <1>3
<1>6. \A i, j \in DOMAIN wire' : i < j /\ wire'[i].final /\ wire'[j].final => wire'[i].time <= wire'[j].time
  <2> SUFFICES ASSUME NEW i \in DOMAIN wire', NEW j \in DOMAIN wire', i < j, wire'[i].final, wire'[j].final
               PROVE  wire'[i].time <= wire'[j].time
    OBVIOUS
  <2>1. i + 1 < j + 1
    BY <1>3
  <2> QED
    BY <1>4, <1>5, <2>1 DEF StreamOrder
<1>7. \A i \in DOMAIN wire' : wire'[i].final => wire'[i].time < now /\ \A d \in Seen : d.time <= wire'[i].time
  BY <1>4, <1>5 DEF StreamOrder
<1>8. CASE Kept(f)
  <2>1. f \in Finals /\ f.final
    BY <1>3, <1>8, KeptIsFinal, FinalFacts
  <2>2. f.time < now /\ \A d \in Seen : d.time <= f.time
    BY <1>3, <1>4, <2>1 DEF StreamOrder
  <2>3. Receive({f})
    BY <1>8 DEF OnFrame, f
  <2>4. Delivered' = Delivered \cup {f} /\ Seen' = Seen \cup {f} /\ GapFree'
    BY <1>1, <2>1, <2>2, <2>3, NextCandle
  <2>5. \A i \in DOMAIN wire' : wire'[i].final => f.time <= wire'[i].time
    BY <1>3, <1>4, <1>5, <2>1 DEF StreamOrder
  <2>6. StreamOrder'
    BY <1>1, <1>6, <1>7, <2>4, <2>5 DEF StreamOrder
  <2>7. \A d \in Seen' : d.time < now'
    BY <1>1, <2>2, <2>4 DEF OrderInv
  <2> QED
    BY <1>1, <2>4, <2>6, <2>7 DEF OrderInv
<1>9. CASE ~Kept(f)
  <2>1. UNCHANGED <<saves, received>>
    BY <1>9 DEF OnFrame, f
  <2>2. Seen' = Seen /\ Delivered' = Delivered
    BY <1>1, <2>1 DEF Seen, Delivered
  <2>3. StreamOrder'
    BY <1>1, <1>6, <1>7, <2>2 DEF StreamOrder
  <2>4. GapFree'
    BY <2>1, <2>2 DEF OrderInv, GapFree
  <2> QED
    BY <1>1, <2>2, <2>3, <2>4 DEF OrderInv
<1> QED
  BY <1>8, <1>9

\* A poll asks for the last two minutes.
LEMMA PollOrderStep ==
    ASSUME RecordInv, FinalInv, OrderInv, Poll
    PROVE  OrderInv'
<1> DEFINE c0 == Finished(now - 2)
           d0 == Finished(now - 1)
<1>1. /\ UNCHANGED <<source, now, up, wire, saves, table, received>>
      /\ source # "stream" /\ up /\ now > 2 /\ reply' = {d0, c0}
  BY DEF Poll, store
<1>2. now \in Nat /\ \A d \in Seen : d.time \in Nat /\ d.time < now
  BY SeenFinal, CandlesAssumption DEF RecordInv, TableInv, Minutes, OrderInv
<1>3. c0.time = now - 2 /\ d0.time = now - 1 /\ d0.time = c0.time + 1
  BY <1>2 DEF Finished
<1>4. Seen' = Seen /\ Delivered' = Delivered
  BY <1>1 DEF Seen, Delivered
<1> HIDE DEF c0, d0
<1>5. \A c \in reply' : c.time < now'
  BY <1>1, <1>2, <1>3
<1>6. \A c \in reply', d \in Seen' : (\A e \in reply' : e.time <= c.time) => d.time <= c.time
  <2> SUFFICES ASSUME NEW c \in reply', NEW d \in Seen, \A e \in reply' : e.time <= c.time
               PROVE  d.time <= c.time
    BY <1>4
  <2>1. c.time = now - 1
    <3>1. d0.time <= c.time /\ (c = d0 \/ c = c0)
      BY <1>1
    <3> QED
      BY <1>2, <1>3, <3>1
  <2> QED
    BY <1>2, <2>1
<1>7. \E c, d \in reply' : d.time = c.time + 1 /\ reply' = {c, d}
  BY <1>1, <1>3
<1>8. PollOrder
  BY <1>1 DEF OrderInv
<1>9. PollOrder'
  <2>1. Paired(received)' /\ Paired(table)' /\ Paired(Delivered)'
    BY <1>1, <1>4, <1>8 DEF PollOrder, Paired
  <2> QED
    BY <1>5, <1>6, <1>7, <2>1 DEF PollOrder
<1>10. GapFree'
  BY <1>1, <1>4 DEF OrderInv, GapFree
<1> QED
  BY <1>1, <1>2, <1>4, <1>9, <1>10 DEF OrderInv

LEMMA PollAnsweredOrder ==
    ASSUME RecordInv, FinalInv, SourceInv, OrderInv, PollAnswered
    PROVE  OrderInv'
<1>1. /\ UNCHANGED <<source, now, up, wire, table>> /\ reply # {} /\ reply' = {} /\ Receive(reply)
  BY DEF PollAnswered, store
<1>2. source # "stream" /\ up
  BY <1>1 DEF SourceInv, OrderInv
<1>3. PollOrder
  BY <1>2 DEF OrderInv
<1>4. PICK c0 \in reply, d0 \in reply : d0.time = c0.time + 1 /\ reply = {c0, d0}
  BY <1>1, <1>3 DEF PollOrder
<1>5. /\ c0 \in Finals /\ d0 \in Finals /\ c0.time \in Nat /\ d0.time \in Nat
      /\ c0.final = TRUE /\ d0.final = TRUE
  BY FinalFacts DEF FinalInv
<1>6. c0.time < now /\ d0.time < now
  BY <1>3 DEF PollOrder
<1>7. \A d \in Seen : d.time \in Nat /\ d.time <= d0.time
  <2>1. \A e \in reply : e.time <= d0.time
    BY <1>4, <1>5
  <2> QED
    BY <1>3, <2>1, SeenFinal DEF PollOrder
<1>8. Delivered' = Delivered \cup {c0, d0}
  <2>1. saves' = saves \cup {[pc |-> "called", batch |-> reply]}
    BY <1>1 DEF Receive
  <2>2. Batches(saves') = Batches(saves) \cup reply
    BY <2>1, OneBatchMore
  <2> QED
    BY <1>1, <1>4, <2>2 DEF Delivered, Batches
<1>9. received \in SUBSET Finals /\ received \subseteq Seen /\ Delivered \subseteq Seen
  BY DEF FinalInv, Seen
<1>10. received' = received \cup {c \in {c0, d0} : c.time > Latest(received)}
  BY <1>1, <1>4, <1>5 DEF Receive
<1>11. /\ c0.time > Latest(received) <=> \A e \in received : e.time < c0.time
       /\ d0.time > Latest(received) <=> \A e \in received : e.time < d0.time
  BY <1>5, <1>9, NewerFacts
<1>12. received' \subseteq received \cup {c0, d0} /\ received \subseteq received'
  BY <1>10
<1>13. d0 \in received'
  <2>1. CASE d0.time > Latest(received)
    BY <1>10, <2>1
  <2>2. CASE ~(d0.time > Latest(received))
    <3>1. PICK e \in received : ~(e.time < d0.time)
      BY <1>11, <2>2
    <3>2. e.time = d0.time
      BY <1>5, <1>7, <1>9, <3>1
    <3>3. e = d0
      BY <1>5, <1>9, <3>2, FinalFacts
    <3> QED
      BY <1>12, <3>3
  <2> QED
    BY <2>1, <2>2
<1>14. ASSUME NEW c \in received', c.time < c0.time
       PROVE  c0 \in received'
  <2>1. c \in received
    BY <1>4, <1>5, <1>12, <1>14
  <2>2. CASE c0.time > Latest(received)
    BY <1>10, <2>2
  <2>3. CASE ~(c0.time > Latest(received))
    <3>1. PICK e \in received : ~(e.time < c0.time)
      BY <1>11, <2>3
    <3>2. e.time \in Nat /\ e.time <= d0.time
      BY <1>7, <1>9
    <3>3. CASE e.time = c0.time
      <4>1. e = c0
        BY <1>5, <1>9, <3>3, FinalFacts
      <4> QED
        BY <1>12, <4>1
    <3>4. CASE e.time = d0.time
      <4>1. e = d0 /\ \A x \in received : x.time <= d0.time
        BY <1>5, <1>7, <1>9, <3>4, FinalFacts
      <4>2. Paired(received) /\ c.time < d0.time
        BY <1>3, <1>4, <1>5, <1>7, <1>9, <1>14, <2>1 DEF PollOrder
      <4>3. PICK p \in received : p.time = d0.time - 1
        BY <2>1, <4>1, <4>2 DEF Paired
      <4>4. p.time = c0.time
        BY <1>4, <1>5, <4>3
      <4>5. p = c0
        BY <1>5, <1>9, <4>4, FinalFacts
      <4> QED
        BY <1>12, <4>5
    <3> QED
      BY <1>4, <1>5, <3>1, <3>2, <3>3, <3>4
  <2> QED
    BY <2>2, <2>3
<1>15. Seen' = Seen \cup {c0, d0}
  BY <1>8, <1>12, <1>13 DEF Seen
<1>16. \A d \in Seen' : d.time \in Nat /\ d.time <= d0.time /\ d.time < now
  BY <1>4, <1>5, <1>6, <1>7, <1>15 DEF OrderInv
<1>17. GapFree'
  <2> SUFFICES ASSUME NEW d \in Delivered', NEW c \in received', d.time > c.time
               PROVE  d \in received'
    BY DEF GapFree
  <2>0. c.time \in Nat
    BY <1>5, <1>7, <1>9, <1>12
  <2>1. CASE d = d0
    BY <1>13, <2>1
  <2>2. CASE d = c0
    BY <1>14, <2>0, <1>5, <2>2
  <2>3. CASE d \in Delivered /\ d # d0 /\ d # c0
    <3>1. d \in Finals /\ d.time \in Nat /\ d.time <= d0.time
      BY <1>7, <1>9, <2>3, SeenFinal
    <3>2. d.time # d0.time /\ d.time # c0.time
      BY <1>5, <2>3, <3>1, FinalFacts
    <3>3. c # d0 /\ c # c0
      BY <1>4, <1>5, <3>1, <3>2
    <3>4. c \in received
      BY <1>12, <3>3
    <3> QED
      BY <1>12, <2>3, <3>4 DEF OrderInv, GapFree
  <2> QED
    BY <1>8, <2>1, <2>2, <2>3
<1>18. Paired(received)'
  <2> SUFFICES ASSUME NEW c \in received', NEW d \in received', c.time < d.time,
                      \A e \in received' : e.time <= d.time
               PROVE  \E p \in received' : p.time = d.time - 1
    BY DEF Paired
  <2>1. c \in Seen' /\ d \in Seen'
    BY DEF Seen
  <2>2. d.time = d0.time /\ c.time \in Nat
    BY <1>5, <1>13, <1>16, <2>1
  <2>3. c.time < c0.time \/ c.time = d.time - 1
    BY <1>4, <1>5, <2>2
  <2>4. CASE c.time < c0.time
    BY <1>4, <1>5, <1>14, <2>2, <2>4
  <2> QED
    BY <2>3, <2>4
<1>19. Paired(Delivered)'
  <2> SUFFICES ASSUME NEW c \in Delivered', NEW d \in Delivered', c.time < d.time,
                      \A e \in Delivered' : e.time <= d.time
               PROVE  \E p \in Delivered' : p.time = d.time - 1
    BY DEF Paired
  <2>1. d \in Seen' /\ d0.time <= d.time /\ c0 \in Delivered'
    BY <1>8 DEF Seen
  <2>2. d.time = d0.time
    BY <1>5, <1>16, <2>1
  <2>3. c0.time = d.time - 1
    BY <1>4, <1>5, <2>2
  <2> QED
    BY <2>1, <2>3
<1>20. PollOrder'
  <2>1. Paired(table)'
    BY <1>1, <1>3 DEF PollOrder, Paired
  <2> QED
    BY <1>1, <1>18, <1>19, <2>1 DEF PollOrder
<1> QED
  BY <1>1, <1>2, <1>16, <1>17, <1>20 DEF OrderInv

\* What a restart reloads is the tail of the table's rows of the day.
LEMMA RestartOrder ==
    ASSUME RecordInv, FinalInv, OrderInv, Restart
    PROVE  OrderInv'
<1> DEFINE rows == {d \in table : Today(d.time)}
           T == ToSet(LastOf(ByTime(rows), Resumed))
<1>1. /\ UNCHANGED <<source, now, wire, saves, reply, table>> /\ ~up /\ up'
      /\ saves = {} /\ wire = <<>> /\ reply = {}
  BY DEF Restart, OrderInv, store
<1>2. rows \in SUBSET Finals /\ table \in SUBSET Finals
  BY DEF FinalInv
<1>3. received' = T /\ Resumed \in Nat \ {0}
  BY <1>2, RehydratedTail DEF Restart
<1>4. Delivered = table /\ Delivered' = table
  BY <1>1 DEF Delivered
<1> HIDE DEF rows
<1>5. T \subseteq rows /\ \A c \in T, d \in rows : c.time < d.time => d \in T
  BY <1>2, <1>3, TailFacts
<1> HIDE DEF T
<1>6. rows \subseteq table /\ \A c \in rows : DayOf(c.time) = DayOf(now)
  BY DEF rows, Today
<1>7. now \in Nat /\ \A c \in table : c.time \in Nat /\ c.time < now
  BY <1>2, <1>4, FinalFacts, CandlesAssumption DEF OrderInv, Seen, RecordInv, TableInv, Minutes
<1>8. \A c \in rows, d \in table : c.time <= d.time => d \in rows
  <2> SUFFICES ASSUME NEW c \in rows, NEW d \in table, c.time <= d.time PROVE d \in rows
    OBVIOUS
  <2>1. c.time \in Nat /\ d.time \in Nat /\ d.time <= now /\ DayOf(c.time) = DayOf(now)
    BY <1>6, <1>7
  <2>2. DayOf(d.time) = DayOf(now)
    BY <1>7, <2>1, DayMonotone
  <2> QED
    BY <2>2 DEF rows, Today
<1>9. \A c \in T, d \in table : c.time < d.time => d \in T
  BY <1>5, <1>6, <1>7, <1>8
<1>10. GapFree'
  BY <1>3, <1>4, <1>5, <1>6, <1>7, <1>9 DEF GapFree
<1>11. Seen' = table
  BY <1>3, <1>4, <1>5, <1>6 DEF Seen
<1>12. source = "stream" => StreamOrder'
  BY <1>1 DEF StreamOrder
<1>13. source # "stream" => PollOrder'
  <2> SUFFICES ASSUME source # "stream" PROVE PollOrder'
    OBVIOUS
  <2>1. Paired(table)
    BY DEF OrderInv, PollOrder
  <2>2. Paired(T)
    <3> SUFFICES ASSUME NEW c \in T, NEW d \in T, c.time < d.time, \A e \in T : e.time <= d.time
                 PROVE  \E p \in T : p.time = d.time - 1
      BY DEF Paired
    <3>1. c \in table /\ d \in table /\ c.time \in Nat /\ d.time \in Nat
      BY <1>5, <1>6, <1>7
    <3>2. \A e \in table : e.time <= d.time
      <4> SUFFICES ASSUME NEW e \in table PROVE e.time <= d.time
        OBVIOUS
      <4>1. e.time \in Nat
        BY <1>7
      <4> QED
        BY <1>9, <3>1, <4>1
    <3>3. PICK p \in table : p.time = d.time - 1
      BY <2>1, <3>1, <3>2 DEF Paired
    <3>4. c.time = p.time \/ c.time < p.time
      BY <1>7, <3>1, <3>3
    <3>5. p \in T
      BY <1>2, <1>9, <3>1, <3>4, FinalFacts
    <3> QED
      BY <3>3, <3>5
  <2> QED
    BY <1>1, <1>3, <1>4, <2>1, <2>2 DEF PollOrder, Paired
<1> QED
  BY <1>1, <1>7, <1>10, <1>11, <1>12, <1>13 DEF OrderInv

LEMMA OrderNext ==
    RecordInv /\ FinalInv /\ SourceInv /\ OrderInv /\ [Next]_vars => OrderInv'
<1> SUFFICES ASSUME RecordInv, FinalInv, SourceInv, OrderInv, [Next]_vars PROVE OrderInv'
  OBVIOUS
<1> USE DEF store
<1>1. ASSUME UNCHANGED <<source, now, up, wire, saves, table, received>>, reply' = reply \/ reply' = {}
      PROVE  OrderInv'
  <2>1. Delivered' = Delivered
    BY <1>1 DEF Delivered
  <2>2. source # "stream" => Paired(table)' /\ Paired(Delivered)'
    BY <1>1, <2>1 DEF OrderInv, PollOrder, Paired
  <2>3. up \/ saves' = {}
    BY <1>1 DEF OrderInv
  <2> QED
    BY <1>1, <2>1, <2>2, <2>3, QuietOrder
<1>2. CASE Tick
  <2>1. UNCHANGED <<source, up, wire, reply, saves, table, received>> /\ now' = now + 1
    BY <1>2 DEF Tick
  <2>2. now \in Nat
    BY CandlesAssumption DEF RecordInv, TableInv, Minutes
  <2>3. Seen' = Seen /\ Delivered' = Delivered
    BY <2>1 DEF Seen, Delivered
  <2>4. \A d \in Seen : d.time < now'
    BY <2>1, <2>2, SeenFinal DEF OrderInv
  <2>5. GapFree'
    BY <2>1, <2>3 DEF OrderInv, GapFree
  <2>6. source = "stream" => StreamOrder'
    <3> SUFFICES ASSUME StreamOrder PROVE StreamOrder'
      BY DEF OrderInv
    <3>1. \A i \in DOMAIN wire : wire[i].time \in Nat
      <4>1. wire \in Seq(Candle)
        BY DEF RecordInv, WireInv
      <4>2. \A i \in DOMAIN wire : wire[i] \in Candle
        BY <4>1, ElementOfSeq, LenProperties
      <4> QED
        BY <4>2 DEF Candle, Minutes
    <3>2. \A i \in DOMAIN wire : wire[i].time < now => wire[i].time < now'
      BY <2>1, <2>2, <3>1
    <3> QED
      BY <2>1, <2>3, <3>2 DEF StreamOrder
  <2>7. source # "stream" => PollOrder'
    <3> SUFFICES ASSUME PollOrder PROVE PollOrder'
      BY DEF OrderInv
    <3>1. \A c \in reply : c.time < now'
      BY <2>1, <2>2, FinalFacts DEF PollOrder, FinalInv
    <3> QED
      BY <2>1, <2>3, <3>1 DEF PollOrder, Paired
  <2> QED
    BY <2>1, <2>3, <2>4, <2>5, <2>6, <2>7 DEF OrderInv
<1>3. CASE DailyReset
  <2>1. UNCHANGED <<source, now, up, wire, reply, saves, table>> /\ received' = {}
    BY <1>3 DEF DailyReset
  <2>2. Delivered' = Delivered /\ Seen' \subseteq Seen
    BY <2>1 DEF Seen, Delivered
  <2>3. GapFree'
    BY <2>1 DEF GapFree
  <2>4. source = "stream" => StreamOrder'
    BY <2>1, <2>2 DEF OrderInv, StreamOrder
  <2>5. source # "stream" => PollOrder'
    BY <2>1, <2>2 DEF OrderInv, PollOrder, Paired
  <2> QED
    BY <2>1, <2>2, <2>3, <2>4, <2>5 DEF OrderInv
<1>4. CASE Crash
  <2>1. /\ UNCHANGED <<source, now, table, received>>
        /\ wire' = <<>> /\ reply' = {} /\ saves' = {} /\ up' = FALSE
    BY <1>4 DEF Crash
  <2>2. Delivered' = table /\ table \subseteq Delivered
    BY <2>1 DEF Delivered
  <2>3. Seen' \subseteq Seen
    BY <2>1, <2>2 DEF Seen
  <2>4. GapFree'
    BY <2>1, <2>2 DEF GapFree, OrderInv
  <2>5. source = "stream" => StreamOrder'
    BY <2>1 DEF StreamOrder
  <2>6. source # "stream" => PollOrder'
    BY <2>1, <2>2 DEF OrderInv, PollOrder, Paired
  <2> QED
    BY <2>1, <2>3, <2>4, <2>5, <2>6 DEF OrderInv
<1>5. CASE \E s \in saves : SaveStep(s)
  BY <1>5, SaveReadsOrder, SaveEndsOrder DEF SaveStep
<1>6. CASE PollFails \/ PurgeReads \/ PurgeArchives \/ ExportReads \/ ExportWrites
  BY <1>1, <1>6 DEF PollFails, PurgeReads, PurgeArchives, ExportReads, ExportWrites
<1>7. CASE UNCHANGED vars
  BY <1>1, <1>7 DEF vars
<1> QED
  BY <1>2, <1>3, <1>4, <1>5, <1>6, <1>7, FrameOrder, OnFrameOrder, PollOrderStep,
     PollAnsweredOrder, PurgeCommitsOrder, RestartOrder DEF Next, PurgeStep

\* Whatever the table has behind a candle of the buffer, the buffer had.
LEMMA RestartStep ==
    ASSUME FinalInv, BufferIsTail, OrderInv, [Next]_vars, ~up, up'
    PROVE  \A c \in Resumable :
              Cardinality({d \in Resumable : d.time > c.time}) < Reloaded
              => c \in ToSet(buffer')
<1> DEFINE rows == {d \in table : Today(d.time)}
<1>0. Restart
  BY DEF OrderInv, Next, SaveStep, PurgeStep, vars, SaveReads, SaveCommits, SaveFails,
         PartialFrame, FinalFrame, Sent, OnFrame, Poll, PollAnswered, PollFails, PurgeReads, PurgeArchives,
         PurgeCommits, ExportReads, ExportWrites, Tick, DailyReset, Crash
<1>1. /\ MaxBuffer \in Nat \ {0} /\ Reloaded \in Nat /\ Resumed \in Nat \ {0}
      /\ Resumed = MaxBuffer \/ Resumed = Reloaded
  BY CandlesAssumption DEF Resumed
<1>2. rows \in SUBSET Finals /\ received \in SUBSET Finals
  BY DEF FinalInv
<1>3. buffer' = LastOf(ByTime(rows), Resumed)
  BY <1>0, <1>2, RehydratedTail DEF Restart
<1> SUFFICES ASSUME NEW c \in Resumable,
                    Cardinality({d \in Resumable : d.time > c.time}) < Reloaded
             PROVE  c \in ToSet(buffer')
  OBVIOUS
<1> DEFINE newer == {d \in received : c.time < d.time}
           behind == {d \in rows : c.time < d.time}
           ahead == {d \in Resumable : d.time > c.time}
<1>4. c \in received /\ Cardinality(newer) < MaxBuffer
  <2>1. c \in ToSet(LastOf(ByTime(received), MaxBuffer))
    BY DEF BufferIsTail, Resumable
  <2>2. ToSet(LastOf(ByTime(received), MaxBuffer)) \subseteq received
    BY <1>1, <1>2, TailFacts
  <2>3. \A d \in received : d \in ToSet(LastOf(ByTime(received), MaxBuffer))
                               <=> Cardinality({e \in received : d.time < e.time}) < MaxBuffer
    BY <1>1, <1>2, TailFacts
  <2> QED
    BY <2>1, <2>2, <2>3
<1>5. behind \subseteq newer
  <2> SUFFICES ASSUME NEW d \in rows, c.time < d.time PROVE d \in received
    OBVIOUS
  <2>1. d \in Delivered /\ d.time \in Nat /\ c.time \in Nat
    BY <1>2, <1>4, FinalFacts DEF Delivered
  <2> QED
    BY <1>4, <2>1 DEF OrderInv, GapFree
<1>6. IsFiniteSet(newer) /\ Cardinality(newer) \in Nat
  BY <1>2, FinalFacts, FS_Subset, FS_CardinalityType
<1>7. Cardinality(behind) <= Cardinality(newer) /\ Cardinality(behind) \in Nat
  <2> HIDE DEF newer, behind
  <2> QED
    BY <1>5, <1>6, FS_Subset, FS_CardinalityType
<1>8. behind \subseteq ahead
  <2> SUFFICES ASSUME NEW d \in rows, c.time < d.time PROVE d \in ahead
    OBVIOUS
  <2>1. d \in received /\ d.time \in Nat /\ c.time \in Nat
    BY <1>2, <1>4, <1>5, FinalFacts
  <2>2. c \in ToSet(LastOf(ByTime(received), MaxBuffer))
    BY DEF BufferIsTail, Resumable
  <2>3. d \in ToSet(LastOf(ByTime(received), MaxBuffer))
    BY <1>1, <1>2, <2>1, <2>2, TailFacts
  <2> QED
    BY <2>1, <2>3 DEF BufferIsTail, Resumable
<1>9. IsFiniteSet(ahead)
  <2>1. ahead \subseteq received
    BY <1>1, <1>2, TailFacts DEF BufferIsTail, Resumable
  <2> QED
    BY <1>2, <2>1, FinalFacts, FS_Subset
<1>10. Cardinality(behind) < Reloaded
  <2>1. Cardinality(behind) <= Cardinality(ahead) /\ Cardinality(ahead) \in Nat
    <3> HIDE DEF ahead, behind
    <3> QED
      BY <1>8, <1>9, FS_Subset, FS_CardinalityType
  <2> QED
    BY <1>1, <1>7, <2>1
<1>11. Cardinality(behind) < Resumed
  BY <1>1, <1>4, <1>6, <1>7, <1>10
<1>12. c \in rows
  BY DEF Resumable
<1>13. c \in ToSet(LastOf(ByTime(rows), Resumed))
  <2> HIDE DEF rows
  <2> QED
    BY <1>1, <1>2, <1>11, <1>12, TailFacts
<1> QED
  BY <1>3, <1>13

\* After a restart the buffer holds the last Reloaded candles of the day that it
\* held before and that the table has (_rehydrate_buffer), for any settings of
\* the buffer and any number of failed saves: the table may have fewer candles
\* than the buffer had, never one more between two of them, so none is pushed
\* out.  Frames come in order, and a poll brings two minutes.
THEOREM ResumesAfterRestart == Spec => RestartResumes
<1> DEFINE I == RecordInv /\ FinalInv /\ SourceInv /\ OrderInv
<1>1. Init => I
  BY RecordInit, FinalInit, SourceInit, OrderInit
<1>2. I /\ [Next]_vars => I'
  BY RecordNext, FinalNext, SourceNext, OrderNext
<1>3. I /\ BufferIsTail /\ [Next]_vars =>
        [~up /\ up' => \A c \in Resumable :
            Cardinality({d \in Resumable : d.time > c.time}) < Reloaded
            => c \in ToSet(buffer')]_vars
  BY RestartStep
<1> QED
  BY <1>1, <1>2, <1>3, BufferHoldsTail, PTL DEF Spec, RestartResumes
=============================================================================
