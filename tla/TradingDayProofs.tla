-------------------------- MODULE TradingDayProofs --------------------------
(***************************************************************************)
(* Theorems about a trading day of the close profile, for any days,        *)
(* profiles, strategies, windows and candles:                              *)
(*   DayHolds             the type invariant, and what an open position    *)
(*                        always is;                                       *)
(*   FollowersTighten     the stop a position is managed by never gives    *)
(*                        ground;                                          *)
(*   StopsStayBehind      no stop is put at or past the closing price;     *)
(*   LossesStayWithinRisk no replayed trade loses more than its first      *)
(*                        stop allows;                                     *)
(*   OpensStayPaced       a strategy's target, flat book and cooldown;     *)
(*   GroupPromiseHolds    what smartgroup promises, the pass leaves.       *)
(* The lemmas before them are about the operators the day is made of: the  *)
(* indicators, the stop policies, the stop updaters of every zone, the     *)
(* plan of the group, and the picks of a strategy.                         *)
(*                                                                         *)
(* The code reads a stop that is zero or less as no stop at all, and then  *)
(* guards nothing; prices are positive, and the theorems about stops take  *)
(* it as a hypothesis that the stops are (StopsSet).                       *)
(***************************************************************************)
EXTENDS TradingDay, FiniteSetTheorems, SequenceTheorems, WellFoundedInduction, TLAPS

-----------------------------------------------------------------------------
(***************************************************************************)
(* Sums over finite sets: what an induction over their size shows.         *)
(***************************************************************************)

\* A nonempty set of natural numbers has a least element.
LEMMA LeastNat ==
    ASSUME NEW T, T \subseteq Nat, T # {}
    PROVE  \E m \in T : \A n \in T : m =< n
<1> DEFINE less == OpToRel(<, Nat)
<1>1. PICK m \in T : \A n \in T : ~(<<n, m>> \in less)
  <2> HIDE DEF less
  <2>1. IsWellFoundedOn(less, Nat)
    BY NatLessThanWellFounded DEF less
  <2> QED
    BY <2>1, WFMin
<1>2. \A n \in T : ~(n < m)
  <2> TAKE n \in T
  <2>1. n \in Nat /\ m \in Nat
    OBVIOUS
  <2>2. n < m => <<n, m>> \in less
    BY <2>1 DEF OpToRel
  <2> QED
    BY <1>1, <2>2
<1> QED
  BY <1>2

\* The sum of s over the indices T, when its folding function is g.
SumsBy(g, s) ==
    /\ DOMAIN g = SUBSET DOMAIN s
    /\ g[{}] = 0
    /\ \A T \in SUBSET DOMAIN s : T # {} =>
         LET x == CHOOSE x \in T : TRUE IN g[T] = s[x] + g[T \ {x}]

\* A sum over a finite set is taken one chosen element after the other.
LEMMA TotalFolds ==
    ASSUME NEW s, IsFiniteSet(DOMAIN s)
    PROVE  \E g : SumsBy(g, s) /\ Total(s) = g[DOMAIN s]
<1> DEFINE D == DOMAIN s
           pick(T) == CHOOSE x \in T : TRUE
           small(n) == {T \in SUBSET D : Cardinality(T) =< n}
           rhs(h, T) == IF T = {} THEN 0 ELSE s[pick(T)] + h[T \ {pick(T)}]
           good(n) == \E h : /\ DOMAIN h = small(n)
                             /\ \A T \in small(n) : h[T] = rhs(h, T)
           bad == {n \in Nat : ~good(n)}
<1>1. \A T \in SUBSET D : IsFiniteSet(T) /\ Cardinality(T) \in Nat
  BY FS_Subset, FS_CardinalityType
<1>2. \A T \in SUBSET D : T # {} =>
         /\ pick(T) \in T /\ T \ {pick(T)} \in SUBSET D
         /\ Cardinality(T \ {pick(T)}) = Cardinality(T) - 1
  <2> TAKE T \in SUBSET D
  <2> HAVE T # {}
  <2>1. pick(T) \in T
    OBVIOUS
  <2>2. Cardinality(T \ {pick(T)}) = Cardinality(T) - 1
    <3> HIDE DEF pick
    <3> QED BY <1>1, <2>1, FS_RemoveElement
  <2> QED
    BY <2>1, <2>2
<1>3. good(0)
  <2> DEFINE h == [T \in small(0) |-> 0]
  <2>1. \A T \in small(0) : T = {}
    BY <1>1, FS_EmptySet
  <2>2. \A T \in small(0) : h[T] = rhs(h, T)
    BY <2>1
  <2> QED
    BY <2>2
<1>4. ASSUME NEW n \in Nat, good(n) PROVE good(n + 1)
  <2>1. PICK h : DOMAIN h = small(n) /\ \A T \in small(n) : h[T] = rhs(h, T)
    BY <1>4
  <2> DEFINE k == [T \in small(n + 1) |-> rhs(h, T)]
  <2>2. \A T \in small(n + 1) : T # {} => T \ {pick(T)} \in small(n)
    <3> HIDE DEF pick
    <3> QED BY <1>1, <1>2
  <2>3. \A T \in small(n) : T \in small(n + 1) /\ k[T] = h[T]
    <3> HIDE DEF rhs
    <3>1. \A T \in small(n) : T \in small(n + 1)
      BY <1>1
    <3> QED BY <2>1, <3>1
  <2>4. \A T \in small(n + 1) : k[T] = rhs(k, T)
    <3> TAKE T \in small(n + 1)
    <3>1. k[T] = rhs(h, T)
      BY DEF k
    <3>2. T # {} => k[T \ {pick(T)}] = h[T \ {pick(T)}]
      BY <2>2, <2>3
    <3> HIDE DEF pick, k, small
    <3> QED
      BY <3>1, <3>2
  <2> QED
    BY <2>4
<1>5. bad = {}
  <2> SUFFICES ASSUME bad # {} PROVE FALSE
    OBVIOUS
  <2>1. PICK m \in bad : \A n \in bad : m =< n
    <3> HIDE DEF good
    <3> QED
      BY LeastNat
  <2> HIDE DEF good
  <2>2. m \in Nat /\ m # 0
    BY <1>3, <2>1
  <2>3. m - 1 \in Nat /\ m - 1 \notin bad
    BY <2>1, <2>2
  <2>4. good((m - 1) + 1)
    BY <1>4, <2>3
  <2>5. (m - 1) + 1 = m
    BY <2>2
  <2> QED
    BY <2>1, <2>4, <2>5
<1>6. good(Cardinality(D))
  <2> HIDE DEF good
  <2> QED BY <1>1, <1>5
<1>7. small(Cardinality(D)) = SUBSET D
  BY <1>1, FS_Subset
<1>8. PICK h : DOMAIN h = SUBSET D /\ \A T \in SUBSET D : h[T] = rhs(h, T)
  BY <1>6, <1>7
<1> DEFINE body(f) == [T \in SUBSET D |-> rhs(f, T)]
           iter == CHOOSE f : f = body(f)
           clamp == [T \in SUBSET D |-> h[T]]
<1>9. clamp = body(clamp)
  <2>1. \A T \in SUBSET D : clamp[T] = rhs(clamp, T)
    <3> TAKE T \in SUBSET D
    <3>1. T # {} => T \ {pick(T)} \in SUBSET D
      OBVIOUS
    <3> HIDE DEF pick
    <3> QED BY <1>8, <3>1
  <2> HIDE DEF rhs
  <2> QED BY <2>1
<1>10. iter = body(iter)
  <2> HIDE DEF body, clamp
  <2> QED BY <1>9
<1>11. DOMAIN iter = SUBSET D /\ \A T \in SUBSET D : iter[T] = rhs(iter, T)
  <2> HIDE DEF rhs, iter
  <2> QED BY <1>10
<1>12. Total(s) = iter[D]
  BY DEF Total, MapThenSumSet, MapThenFoldSet
<1>13. SumsBy(iter, s)
  <2> HIDE DEF iter
  <2> QED BY <1>11 DEF SumsBy
<1> QED
  BY <1>12, <1>13

\* Induction over a finite set, one chosen element after the other.
LEMMA SetInduction ==
    ASSUME NEW D, IsFiniteSet(D), NEW Good, {} \in Good,
           \A T \in SUBSET D : T # {} =>
             (T \ {CHOOSE x \in T : TRUE} \in Good => T \in Good)
    PROVE  SUBSET D \subseteq Good
<1> DEFINE pick(T) == CHOOSE x \in T : TRUE
           bad == {T \in SUBSET D : T \notin Good}
           sizes == {Cardinality(T) : T \in bad}
<1>1. \A T \in SUBSET D : IsFiniteSet(T) /\ Cardinality(T) \in Nat
  BY FS_Subset, FS_CardinalityType
<1> SUFFICES ASSUME bad # {} PROVE FALSE
  OBVIOUS
<1>2. PICK m \in sizes : \A n \in sizes : m =< n
  <2>1. sizes \subseteq Nat /\ sizes # {}
    BY <1>1
  <2> HIDE DEF sizes
  <2> QED BY <2>1, LeastNat
<1>3. PICK T \in bad : Cardinality(T) = m
  BY <1>2
<1>4. T # {} /\ pick(T) \in T
  OBVIOUS
<1>5. Cardinality(T \ {pick(T)}) = Cardinality(T) - 1
  <2>1. IsFiniteSet(T)
    BY <1>1
  <2> HIDE DEF pick
  <2> QED BY <1>4, <2>1, FS_RemoveElement
<1>6. T \ {pick(T)} \notin bad
  <2> SUFFICES ASSUME T \ {pick(T)} \in bad PROVE FALSE
    OBVIOUS
  <2>1. Cardinality(T \ {pick(T)}) \in sizes
    OBVIOUS
  <2>2. m =< Cardinality(T \ {pick(T)}) /\ m \in Nat
    BY <1>1, <1>2, <1>3, <2>1
  <2> HIDE DEF pick
  <2> QED BY <1>3, <1>5, <2>2
<1> QED
  BY <1>4, <1>6

LEMMA SumIsInt ==
    ASSUME NEW s, IsFiniteSet(DOMAIN s), \A i \in DOMAIN s : s[i] \in Int,
           NEW g, SumsBy(g, s)
    PROVE  \A T \in SUBSET DOMAIN s : g[T] \in Int
<1> DEFINE Good == {T \in SUBSET DOMAIN s : g[T] \in Int}
<1>1. {} \in Good
  BY DEF SumsBy
<1>2. \A T \in SUBSET DOMAIN s : T # {} =>
         (T \ {CHOOSE x \in T : TRUE} \in Good => T \in Good)
  BY DEF SumsBy
<1>3. SUBSET DOMAIN s \subseteq Good
  <2> HIDE DEF Good
  <2> QED BY <1>1, <1>2, SetInduction
<1> QED
  BY <1>3

LEMMA TotalIsInt ==
    ASSUME NEW s, IsFiniteSet(DOMAIN s), \A i \in DOMAIN s : s[i] \in Int
    PROVE  Total(s) \in Int
BY TotalFolds, SumIsInt

\* A sum grows with its terms.
LEMMA TotalGrows ==
    ASSUME NEW s, NEW r, IsFiniteSet(DOMAIN s), DOMAIN r = DOMAIN s,
           \A i \in DOMAIN s : s[i] \in Int /\ r[i] \in Int /\ s[i] =< r[i]
    PROVE  Total(s) =< Total(r)
<1>1. PICK g : SumsBy(g, s) /\ Total(s) = g[DOMAIN s]
  BY TotalFolds
<1>2. PICK h : SumsBy(h, r) /\ Total(r) = h[DOMAIN s]
  BY TotalFolds
<1>3. \A T \in SUBSET DOMAIN s : g[T] \in Int /\ h[T] \in Int
  BY <1>1, <1>2, SumIsInt
<1> DEFINE Good == {T \in SUBSET DOMAIN s : g[T] =< h[T]}
<1>4. {} \in Good
  BY <1>1, <1>2 DEF SumsBy
<1>5. ASSUME NEW T \in SUBSET DOMAIN s, T # {}, T \ {CHOOSE x \in T : TRUE} \in Good
      PROVE  T \in Good
  <2> PICK x \in T : x = CHOOSE y \in T : TRUE
    BY <1>5
  <2>1. g[T] = s[x] + g[T \ {x}] /\ h[T] = r[x] + h[T \ {x}]
    BY <1>1, <1>2, <1>5 DEF SumsBy
  <2>2. g[T \ {x}] =< h[T \ {x}]
    BY <1>5
  <2>3. g[T \ {x}] \in Int /\ h[T \ {x}] \in Int /\ s[x] =< r[x] /\ s[x] \in Int /\ r[x] \in Int
    BY <1>3
  <2> QED
    BY <2>1, <2>2, <2>3
<1>6. SUBSET DOMAIN s \subseteq Good
  <2> HIDE DEF Good
  <2> QED BY <1>4, <1>5, SetInduction
<1> QED
  BY <1>1, <1>2, <1>6

\* A sum of natural numbers, over part of its terms and over all of them.
LEMMA SumIsNat ==
    ASSUME NEW s, IsFiniteSet(DOMAIN s), \A i \in DOMAIN s : s[i] \in Nat,
           NEW g, SumsBy(g, s)
    PROVE  \A T \in SUBSET DOMAIN s : g[T] \in Nat
<1> DEFINE Good == {T \in SUBSET DOMAIN s : g[T] \in Nat}
<1>1. {} \in Good
  BY DEF SumsBy
<1>2. \A T \in SUBSET DOMAIN s : T # {} =>
         (T \ {CHOOSE x \in T : TRUE} \in Good => T \in Good)
  BY DEF SumsBy
<1>3. SUBSET DOMAIN s \subseteq Good
  <2> HIDE DEF Good
  <2> QED BY <1>1, <1>2, SetInduction
<1> QED
  BY <1>3

LEMMA TotalIsNat ==
    ASSUME NEW s, IsFiniteSet(DOMAIN s), \A i \in DOMAIN s : s[i] \in Nat
    PROVE  Total(s) \in Nat
BY TotalFolds, SumIsNat

\* The mean of the squares is at least the square of the mean.
LEMMA SquareStep ==
    ASSUME NEW n \in Nat, NEW q \in Int, NEW g \in Int, NEW x \in Int, n * q >= g * g,
           n = 0 => q = 0 /\ g = 0
    PROVE  (n + 1) * (x * x + q) >= (x + g) * (x + g)
<1>1. CASE n = 0
  BY <1>1
<1>2. CASE n > 0
  <2> DEFINE d == g - n * x
             w == n * x * x + q - 2 * x * g
  <2>1. d * d >= 0
    <3>1. d \in Int OBVIOUS
    <3> HIDE DEF d
    <3> QED BY <3>1
  <2>2. n * w = n * q - g * g + d * d
    OBVIOUS
  <2>3. n * w >= 0
    BY <2>1, <2>2
  <2>4. w >= 0
    <3>1. w \in Int OBVIOUS
    <3> HIDE DEF w
    <3> QED BY <1>2, <2>3, <3>1
  <2>5. (n + 1) * (x * x + q) = (x + g) * (x + g) + (n * q - g * g) + w
    OBVIOUS
  <2> QED
    BY <2>4, <2>5
<1> QED
  BY <1>1, <1>2

LEMMA SquaresExceed ==
    ASSUME NEW s, NEW r, IsFiniteSet(DOMAIN s), DOMAIN r = DOMAIN s,
           \A i \in DOMAIN s : s[i] \in Int /\ r[i] = s[i] * s[i]
    PROVE  Cardinality(DOMAIN s) * Total(r) >= Total(s) * Total(s)
<1>1. PICK g : SumsBy(g, s) /\ Total(s) = g[DOMAIN s]
  BY TotalFolds
<1>2. PICK h : SumsBy(h, r) /\ Total(r) = h[DOMAIN s]
  BY TotalFolds
<1>3. \A T \in SUBSET DOMAIN s : g[T] \in Int /\ h[T] \in Int
  <2>1. \A i \in DOMAIN s : r[i] \in Int
    OBVIOUS
  <2> QED
    BY <1>1, <1>2, <2>1, SumIsInt
<1> DEFINE Good == {T \in SUBSET DOMAIN s : Cardinality(T) * h[T] >= g[T] * g[T]}
<1>4. {} \in Good
  BY <1>1, <1>2, FS_EmptySet DEF SumsBy
<1>5. ASSUME NEW T \in SUBSET DOMAIN s, T # {}, T \ {CHOOSE x \in T : TRUE} \in Good
      PROVE  T \in Good
  <2> PICK x \in T : x = CHOOSE y \in T : TRUE
    BY <1>5
  <2> DEFINE U == T \ {x}
             n == Cardinality(U)
  <2>1. g[T] = s[x] + g[U] /\ h[T] = r[x] + h[U]
    BY <1>1, <1>2, <1>5 DEF SumsBy
  <2>2. IsFiniteSet(T) /\ IsFiniteSet(U) /\ n \in Nat /\ Cardinality(T) = n + 1
    <3>1. IsFiniteSet(T) /\ Cardinality(T) \in Nat
      BY FS_Subset, FS_CardinalityType
    <3>2. IsFiniteSet(U) /\ n = Cardinality(T) - 1
      BY <3>1, FS_RemoveElement
    <3>3. n \in Nat
      BY <3>2, FS_CardinalityType
    <3> HIDE DEF n
    <3> QED BY <3>1, <3>2, <3>3
  <2>3. n = 0 => h[U] = 0 /\ g[U] = 0
    <3>1. n = 0 => U = {}
      BY <2>2, FS_EmptySet
    <3> QED
      BY <3>1, <1>1, <1>2 DEF SumsBy
  <2>4. n * h[U] >= g[U] * g[U]
    BY <1>5
  <2>5. g[U] \in Int /\ h[U] \in Int /\ s[x] \in Int /\ r[x] = s[x] * s[x]
    BY <1>3
  <2> HIDE DEF n, U
  <2>6. (n + 1) * (s[x] * s[x] + h[U]) >= (s[x] + g[U]) * (s[x] + g[U])
    BY <2>2, <2>3, <2>4, <2>5, SquareStep
  <2> QED
    BY <2>1, <2>2, <2>5, <2>6
<1>6. SUBSET DOMAIN s \subseteq Good
  <2> HIDE DEF Good
  <2> QED BY <1>4, <1>5, SetInduction
<1> QED
  BY <1>1, <1>2, <1>6

LEMMA MaxIs ==
    ASSUME NEW S, IsFiniteSet(S), S # {}, S \subseteq Int
    PROVE  Max(S) \in S /\ Max(S) \in Int /\ \A x \in S : x =< Max(S)
<1> DEFINE Good == {T \in SUBSET S : T # {} => \E m \in T : \A x \in T : m >= x}
<1>1. {} \in Good
  OBVIOUS
<1>2. ASSUME NEW T \in SUBSET S, T # {}, T \ {CHOOSE x \in T : TRUE} \in Good
      PROVE  T \in Good
  <2> PICK x \in T : x = CHOOSE y \in T : TRUE
    BY <1>2
  <2>1. CASE T \ {x} = {}
    <3>1. T = {x} /\ x \in Int
      BY <2>1
    <3>2. \A y \in T : y = x
      BY <3>1
    <3>3. x >= x
      BY <3>1
    <3>4. x \in T /\ \A y \in T : x >= y
      BY <3>2, <3>3, Zenon
    <3> QED
      BY <3>4, Zenon
  <2>2. ASSUME NEW m \in T \ {x}, \A y \in T \ {x} : m >= y PROVE T \in Good
    <3>1. m \in Int /\ x \in Int
      OBVIOUS
    <3>2. CASE m >= x
      BY <2>2, <3>1, <3>2
    <3>3. CASE x > m
      BY <2>2, <3>1, <3>3
    <3> QED
      BY <3>1, <3>2, <3>3
  <2> QED
    BY <1>2, <2>1, <2>2
<1>3. SUBSET S \subseteq Good
  <2> HIDE DEF Good
  <2> QED BY <1>1, <1>2, SetInduction
<1>4. \E m \in S : \A x \in S : m >= x
  BY <1>3
<1>5. Max(S) \in S /\ \A x \in S : Max(S) >= x
  BY <1>4 DEF Max
<1> QED
  BY <1>5

LEMMA MinIs ==
    ASSUME NEW S, IsFiniteSet(S), S # {}, S \subseteq Int
    PROVE  Min(S) \in S /\ Min(S) \in Int /\ \A x \in S : Min(S) =< x
<1> DEFINE Good == {T \in SUBSET S : T # {} => \E m \in T : \A x \in T : m =< x}
<1>1. {} \in Good
  OBVIOUS
<1>2. ASSUME NEW T \in SUBSET S, T # {}, T \ {CHOOSE x \in T : TRUE} \in Good
      PROVE  T \in Good
  <2> PICK x \in T : x = CHOOSE y \in T : TRUE
    BY <1>2
  <2>1. CASE T \ {x} = {}
    <3>1. T = {x} /\ x \in Int
      BY <2>1
    <3>2. \A y \in T : y = x
      BY <3>1
    <3>3. x =< x
      BY <3>1
    <3>4. x \in T /\ \A y \in T : x =< y
      BY <3>2, <3>3, Zenon
    <3> QED
      BY <3>4, Zenon
  <2>2. ASSUME NEW m \in T \ {x}, \A y \in T \ {x} : m =< y PROVE T \in Good
    <3>1. m \in Int /\ x \in Int
      OBVIOUS
    <3>2. CASE m =< x
      BY <2>2, <3>1, <3>2
    <3>3. CASE x < m
      BY <2>2, <3>1, <3>3
    <3> QED
      BY <3>1, <3>2, <3>3
  <2> QED
    BY <1>2, <2>1, <2>2
<1>3. SUBSET S \subseteq Good
  <2> HIDE DEF Good
  <2> QED BY <1>1, <1>2, SetInduction
<1>4. \E m \in S : \A x \in S : m =< x
  BY <1>3
<1>5. Min(S) \in S /\ \A x \in S : Min(S) =< x
  BY <1>4 DEF Min
<1> QED
  BY <1>5

LEMMA MaxOfTwo ==
    ASSUME NEW a \in Int, NEW b \in Int
    PROVE  /\ Max({a, b}) \in {a, b} /\ Max({a, b}) \in Int
           /\ Max({a, b}) >= a /\ Max({a, b}) >= b
           /\ Min({a, b}) \in {a, b} /\ Min({a, b}) \in Int
           /\ Min({a, b}) =< a /\ Min({a, b}) =< b
<1>1. \E m \in {a, b} : \A x \in {a, b} : m >= x
  OBVIOUS
<1>2. \E m \in {a, b} : \A x \in {a, b} : m =< x
  OBVIOUS
<1>3. Max({a, b}) \in {a, b} /\ \A x \in {a, b} : Max({a, b}) >= x
  BY <1>1 DEF Max
<1>4. Min({a, b}) \in {a, b} /\ \A x \in {a, b} : Min({a, b}) =< x
  BY <1>2 DEF Min
<1> QED
  BY <1>3, <1>4

LEMMA MaxWithZero ==
    ASSUME NEW x \in Int
    PROVE  Max({0, x}) \in Nat /\ Max({0, x}) >= x
<1> PICK z \in Int : z = 0
  OBVIOUS
<1>1. Max({z, x}) \in Int /\ Max({z, x}) >= z /\ Max({z, x}) >= x
  BY MaxOfTwo
<1> QED
  BY <1>1

LEMMA PowerIsNat ==
    ASSUME NEW k \in Nat
    PROVE  2 ^ k \in Nat
<1>1. IsFiniteSet(1..k) /\ Cardinality(1..k) = k
  <2>1. 1 \in Int /\ k \in Int
    OBVIOUS
  <2>2. Cardinality(1..k) = (IF 1 > k THEN 0 ELSE k - 1 + 1)
    BY <2>1, FS_Interval
  <2> QED
    BY <2>1, <2>2, FS_Interval
<1>2. Cardinality(SUBSET (1..k)) = 2 ^ k /\ IsFiniteSet(SUBSET (1..k))
  BY <1>1, FS_SUBSET
<1> QED
  BY <1>2, FS_CardinalityType

\* The whole square root exists.
LEMMA RootIs ==
    ASSUME NEW x \in Nat
    PROVE  ISqrt(x) \in Nat
<1> DEFINE T == {r \in Nat : (r + 1) * (r + 1) > x}
<1>1. x \in T
  <2>1. (x + 1) * (x + 1) = x * x + 2 * x + 1 /\ x * x >= 0
    OBVIOUS
  <2> QED
    BY <2>1
<1>2. PICK m \in T : \A r \in T : m =< r
  BY <1>1, LeastNat
<1>3. m * m =< x
  <2>1. CASE m = 0
    BY <2>1
  <2>2. CASE m # 0
    <3>1. m - 1 \in Nat /\ m - 1 \notin T
      BY <1>2, <2>2
    <3>2. ~(((m - 1) + 1) * ((m - 1) + 1) > x)
      BY <3>1
    <3>3. (m - 1) + 1 = m /\ m * m \in Int
      BY <3>1
    <3> QED
      BY <3>2, <3>3
  <2> QED
    BY <2>1, <2>2
<1>4. m =< x
  BY <1>1, <1>2
<1>5. m \in 0..x /\ m * m =< x /\ (m + 1) * (m + 1) > x
  BY <1>2, <1>3, <1>4
<1>6. ISqrt(x) \in 0..x
  BY <1>5 DEF ISqrt
<1> QED
  BY <1>6

-----------------------------------------------------------------------------
(***************************************************************************)
(* Candles, and the measures taken on them.                                *)
(***************************************************************************)

\* Candles as a buffer holds them: the close lies between the low and the high.
Sound ==
    {c \in [time : Int, open : Int, close : Int, spread : Nat \ {0}, high : Int, low : Int] :
        c.low =< c.close /\ c.close =< c.high}

LEMMA SoundIs ==
    ASSUME NEW c \in Sound
    PROVE  /\ c.time \in Int /\ c.open \in Int /\ c.close \in Int /\ c.high \in Int
           /\ c.low \in Int /\ c.spread \in Nat /\ c.spread > 0 /\ c.spread \in Int
           /\ c.low =< c.close /\ c.close =< c.high
BY DEF Sound

LEMMA ImageFinite ==
    ASSUME NEW f, IsFiniteSet(DOMAIN f)
    PROVE  /\ IsFiniteSet({f[i] : i \in DOMAIN f})
           /\ Cardinality({f[i] : i \in DOMAIN f}) =< Cardinality(DOMAIN f)
<1> DEFINE D == DOMAIN f
           R == {f[i] : i \in D}
           h == [i \in D |-> f[i]]
<1>1. h \in Surjection(D, R)
  BY DEF Surjection
<1>2. IsFiniteSet(D)
  OBVIOUS
<1> HIDE DEF h, R, D
<1>3. IsFiniteSet(R) /\ Cardinality(R) =< Cardinality(D)
  BY <1>1, <1>2, FS_Surjection
<1> QED
  BY <1>3 DEF R, D

LEMMA SequenceFinite ==
    ASSUME NEW S, NEW s \in Seq(S)
    PROVE  /\ IsFiniteSet(DOMAIN s) /\ DOMAIN s = 1..Len(s) /\ Len(s) \in Nat
           /\ Cardinality(DOMAIN s) = Len(s)
           /\ s # <<>> => Len(s) > 0 /\ Len(s) \in DOMAIN s /\ 1 \in DOMAIN s
           /\ \A i \in DOMAIN s : s[i] \in S
<1>1. Len(s) \in Nat /\ DOMAIN s = 1..Len(s)
  OBVIOUS
<1>2. IsFiniteSet(1..Len(s)) /\ Cardinality(1..Len(s)) = Len(s)
  <2>1. 1 \in Int /\ Len(s) \in Int
    BY <1>1
  <2>2. Cardinality(1..Len(s)) = (IF 1 > Len(s) THEN 0 ELSE Len(s) - 1 + 1)
    BY <2>1, FS_Interval
  <2> QED
    BY <1>1, <2>1, <2>2, FS_Interval
<1>3. s # <<>> => Len(s) > 0
  BY <1>1
<1> QED
  BY <1>1, <1>2, <1>3

LEMMA ExtremesAre ==
    ASSUME NEW s \in Seq(Int), s # <<>>
    PROVE  /\ Highest(s) \in Int /\ \A i \in DOMAIN s : s[i] =< Highest(s)
           /\ Lowest(s) \in Int /\ \A i \in DOMAIN s : Lowest(s) =< s[i]
           /\ \E i \in DOMAIN s : s[i] = Highest(s)
           /\ \E i \in DOMAIN s : s[i] = Lowest(s)
<1> DEFINE R == {s[i] : i \in DOMAIN s}
<1>1. IsFiniteSet(R) /\ R # {} /\ R \subseteq Int /\ \A i \in DOMAIN s : s[i] \in R
  <2>1. IsFiniteSet(DOMAIN s) /\ 1 \in DOMAIN s /\ \A i \in DOMAIN s : s[i] \in Int
    BY SequenceFinite
  <2>2. IsFiniteSet({s[i] : i \in DOMAIN s})
    BY <2>1, ImageFinite
  <2> QED BY <2>1, <2>2
<1>2. Highest(s) = Max(R) /\ Lowest(s) = Min(R)
  BY DEF Highest, Lowest
<1>3. \A x \in R : \E i \in DOMAIN s : s[i] = x
  OBVIOUS
<1> HIDE DEF R
<1>4. Max(R) \in R /\ Max(R) \in Int /\ \A x \in R : x =< Max(R)
  BY <1>1, MaxIs
<1>5. Min(R) \in R /\ Min(R) \in Int /\ \A x \in R : Min(R) =< x
  BY <1>1, MinIs
<1> QED
  BY <1>1, <1>2, <1>3, <1>4, <1>5

LEMMA LastNIs ==
    ASSUME NEW S, NEW s \in Seq(S), NEW n \in Nat \ {0}
    PROVE  /\ LastN(s, n) \in Seq(S)
           /\ Len(LastN(s, n)) = IF Len(s) > n THEN n ELSE Len(s)
           /\ s # <<>> => /\ LastN(s, n) # <<>>
                          /\ LastN(s, n)[Len(LastN(s, n))] = s[Len(s)]
<1> DEFINE from == IF Len(s) > n THEN Len(s) - n + 1 ELSE 1
           t == SubSeq(s, from, Len(s))
<1>1. Len(s) \in Nat /\ from \in Int /\ from >= 1 /\ Len(s) \in Int
      /\ from =< Len(s) + 1
      /\ (Len(s) > 0 => from =< Len(s))
      /\ (Len(s) - from + 1 = IF Len(s) > n THEN n ELSE Len(s))
  OBVIOUS
<1>2. \A i \in from..Len(s) : s[i] \in S
  BY <1>1
<1> HIDE DEF from
<1>3. /\ t \in Seq(S)
      /\ Len(t) = IF from =< Len(s) THEN Len(s) - from + 1 ELSE 0
      /\ \A i \in 1..Len(s) - from + 1 : t[i] = s[from + i - 1]
  BY <1>1, <1>2, SubSeqProperties
<1>4. Len(t) = Len(s) - from + 1
  BY <1>1, <1>3
<1>5. s # <<>> => Len(s) > 0
  OBVIOUS
<1>6. s # <<>> => t # <<>> /\ t[Len(t)] = s[Len(s)]
  <2> SUFFICES ASSUME s # <<>> PROVE t # <<>> /\ t[Len(t)] = s[Len(s)]
    OBVIOUS
  <2>1. Len(t) > 0 /\ Len(t) \in 1..Len(s) - from + 1 /\ from + Len(t) - 1 = Len(s)
    BY <1>1, <1>4, <1>5
  <2>2. t[Len(t)] = s[from + Len(t) - 1]
    BY <1>3, <2>1
  <2>3. t # <<>>
    BY <1>3, <2>1
  <2> QED
    BY <2>1, <2>2, <2>3
<1>7. LastN(s, n) = t
  BY DEF LastN, from
<1> HIDE DEF t
<1> QED
  BY <1>1, <1>3, <1>4, <1>6, <1>7

LEMMA AbsIs ==
    ASSUME NEW x \in Int
    PROVE  Abs(x) \in Nat /\ Abs(x) >= x /\ Abs(x) >= -x
BY DEF Abs

LEMMA MaxOfThree ==
    ASSUME NEW a \in Int, NEW b \in Int, NEW c \in Int
    PROVE  /\ Max({a, b, c}) \in Int
           /\ Max({a, b, c}) >= a /\ Max({a, b, c}) >= b /\ Max({a, b, c}) >= c
<1>1. IsFiniteSet({a, b, c})
  <2>1. IsFiniteSet({a})
    BY FS_Singleton
  <2>2. IsFiniteSet({a} \cup {b})
    BY <2>1, FS_AddElement
  <2>3. IsFiniteSet(({a} \cup {b}) \cup {c})
    BY <2>2, FS_AddElement
  <2>4. ({a} \cup {b}) \cup {c} = {a, b, c}
    OBVIOUS
  <2> QED
    BY <2>3, <2>4
<1>2. {a, b, c} # {} /\ {a, b, c} \subseteq Int
  OBVIOUS
<1>3. PICK S : S = {a, b, c}
  OBVIOUS
<1>4. Max(S) \in Int /\ \A x \in S : x =< Max(S)
  BY <1>1, <1>2, <1>3, MaxIs
<1>5. a \in S /\ b \in S /\ c \in S
  BY <1>3
<1>6. a =< Max(S) /\ b =< Max(S) /\ c =< Max(S)
  BY <1>4, <1>5
<1>7. Max(S) >= a /\ Max(S) >= b /\ Max(S) >= c
  BY <1>4, <1>6
<1> QED
  BY <1>3, <1>4, <1>7

LEMMA QuotientIsNat ==
    ASSUME NEW x \in Nat, NEW n \in Nat \ {0}
    PROVE  x \div n \in Nat
OBVIOUS

LEMMA TenthsIs ==
    ASSUME NEW k \in Int, NEW x \in Int
    PROVE  Tenths(k, x) \in Int /\ (k \in Nat /\ x \in Nat => Tenths(k, x) \in Nat)
<1>1. k * x \in Int /\ (k \in Nat /\ x \in Nat => k * x \in Nat)
  OBVIOUS
<1> QED
  BY <1>1 DEF Tenths

LEMMA TrueRangeIs ==
    ASSUME NEW b \in Sound, NEW c \in Sound
    PROVE  TrueRange(b, c) \in Nat
<1>1. c.high - c.low \in Int /\ c.high - b.close \in Int /\ c.low - b.close \in Int
      /\ c.high - c.low >= 0
  BY SoundIs
<1>2. Abs(c.high - b.close) \in Int /\ Abs(c.low - b.close) \in Int
  BY <1>1, AbsIs
<1>3. TrueRange(b, c) \in Int /\ TrueRange(b, c) >= c.high - c.low
  BY <1>1, <1>2, MaxOfThree DEF TrueRange
<1> QED
  BY <1>1, <1>3

LEMMA AtrIs ==
    ASSUME NEW s \in Seq(Sound), NEW p \in Nat \ {0}
    PROVE  Atr(s, p) \in Nat
<1> DEFINE I == (Len(s) - p + 1)..Len(s)
           ranges == [i \in I |-> TrueRange(s[i - 1], s[i])]
<1>1. CASE Len(s) =< p
  BY <1>1 DEF Atr
<1>2. CASE Len(s) > p
  <2>1. IsFiniteSet(I)
    <3>1. Len(s) - p + 1 \in Int /\ Len(s) \in Int
      OBVIOUS
    <3> QED BY <3>1, FS_Interval
  <2>2. \A i \in I : s[i - 1] \in Sound /\ s[i] \in Sound
    BY <1>2
  <2>3. \A i \in I : ranges[i] \in Nat
    BY <2>2, TrueRangeIs
  <2>4. Total(ranges) \in Nat
    <3>1. DOMAIN ranges = I
      OBVIOUS
    <3> HIDE DEF ranges, I
    <3> QED BY <2>1, <2>3, <3>1, TotalIsNat
  <2>5. Atr(s, p) = Total(ranges) \div p
    BY <1>2 DEF Atr
  <2> HIDE DEF ranges
  <2> QED BY <2>4, <2>5, QuotientIsNat
<1>3. Len(s) \in Nat
  OBVIOUS
<1> QED
  BY <1>1, <1>2, <1>3

LEMMA StepsAre ==
    ASSUME NEW s \in Seq(Int)
    PROVE  /\ Steps(s) \in Seq(Int)
           /\ Len(Steps(s)) = IF Len(s) = 0 THEN 0 ELSE Len(s) - 1
<1>1. PICK n \in Nat : n = IF Len(s) = 0 THEN 0 ELSE Len(s) - 1
  OBVIOUS
<1>2. 1..(Len(s) - 1) = 1..n
  BY <1>1
<1>3. \A i \in 1..n : s[i + 1] - s[i] \in Int
  BY <1>1
<1>4. Steps(s) = [i \in 1..n |-> s[i + 1] - s[i]]
  BY <1>2 DEF Steps
<1>5. Steps(s) \in [1..n -> Int]
  BY <1>3, <1>4
<1> QED
  BY <1>1, <1>4, <1>5

LEMMA AdverseNoiseIs ==
    ASSUME NEW s \in Seq(Int), NEW w \in Nat \ {0}
    PROVE  AdverseNoise(s, w) \in Nat
<1> DEFINE last == LastN(s, w + 1)
<1>1. last \in Seq(Int)
  <2>1. w + 1 \in Nat \ {0}
    OBVIOUS
  <2> QED BY <2>1, LastNIs
<1> DEFINE steps == Steps(last)
           n == Len(steps)
           falls == [i \in 1..n |-> Max({0, -steps[i]})]
           squares == [i \in 1..n |-> falls[i] * falls[i]]
           sum == Total(falls)
           sumSq == Total(squares)
<1>2. steps \in Seq(Int) /\ n \in Nat
  <2> HIDE DEF last
  <2> QED BY <1>1, StepsAre
<1>3. CASE n =< 0
  <2> HIDE DEF steps, falls
  <2> QED BY <1>2, <1>3 DEF AdverseNoise, steps
<1>4. CASE n > 0
  <2>1. \A i \in 1..n : falls[i] \in Nat
    <3> TAKE i \in 1..n
    <3>1. -steps[i] \in Int
      <4> HIDE DEF steps
      <4> QED BY <1>2
    <3>2. Max({0, -steps[i]}) \in Int /\ Max({0, -steps[i]}) >= 0
      <4> PICK x \in Int : x = -steps[i]
        BY <3>1
      <4>1. Max({0, x}) \in Int /\ Max({0, x}) >= 0
        BY MaxWithZero
      <4> HIDE DEF steps
      <4> QED BY <4>1
    <3>3. falls[i] = Max({0, -steps[i]})
      OBVIOUS
    <3> HIDE DEF falls, steps
    <3> QED BY <3>2, <3>3
  <2>2. IsFiniteSet(1..n) /\ Cardinality(1..n) = n
    <3> HIDE DEF n, steps
    <3>1. 1 \in Int /\ n \in Int
      BY <1>2 DEF n
    <3>2. Cardinality(1..n) = (IF 1 > n THEN 0 ELSE n - 1 + 1)
      BY <3>1, FS_Interval
    <3> QED
      BY <1>4, <3>1, <3>2, FS_Interval
  <2>3. DOMAIN falls = 1..n /\ DOMAIN squares = 1..n
        /\ \A i \in 1..n : squares[i] = falls[i] * falls[i]
    OBVIOUS
  <2>4. sum \in Nat
    <3> HIDE DEF n, falls
    <3> QED BY <2>1, <2>2, <2>3, TotalIsNat
  <2>5. n * sumSq >= sum * sum /\ sumSq \in Nat
    <3> HIDE DEF n, falls, squares
    <3>1. \A i \in 1..n : falls[i] \in Int /\ squares[i] \in Nat
      BY <2>1, <2>3
    <3>2. Cardinality(1..n) * sumSq >= sum * sum
      BY <2>2, <2>3, <3>1, SquaresExceed
    <3>3. sumSq \in Nat
      BY <2>2, <2>3, <3>1, TotalIsNat
    <3> QED
      BY <2>2, <3>2, <3>3
  <2>6. n * sumSq - sum * sum \in Nat
    <3> HIDE DEF n, sum, sumSq
    <3>1. n \in Nat
      BY <1>2 DEF n
    <3> QED BY <2>4, <2>5, <3>1
  <2>7. ISqrt(n * sumSq - sum * sum) \in Nat
    <3> HIDE DEF n, sum, sumSq
    <3> QED BY <2>6, RootIs
  <2>8. AdverseNoise(s, w) = (sum + 2 * ISqrt(n * sumSq - sum * sum)) \div n
    <3>1. ~(n =< 0)
      <4> HIDE DEF n
      <4> QED BY <1>4, <1>2 DEF n
    <3> QED
      BY <3>1 DEF AdverseNoise
  <2> HIDE DEF n, sum, sumSq
  <2>9. n \in Nat \ {0} /\ sum + 2 * ISqrt(n * sumSq - sum * sum) \in Nat
    BY <1>2, <1>4, <2>4, <2>7 DEF n
  <2> QED
    BY <2>8, <2>9, QuotientIsNat
<1> QED
  <2> HIDE DEF n
  <2> QED BY <1>2, <1>3, <1>4 DEF n

-----------------------------------------------------------------------------
(***************************************************************************)
(* Noise, slopes and series.                                               *)
(***************************************************************************)

LEMMA OverInterval ==
    ASSUME NEW n \in Nat, NEW f, DOMAIN f = 1..n
    PROVE  /\ (\A i \in 1..n : f[i] \in Int) => Total(f) \in Int
           /\ (\A i \in 1..n : f[i] \in Nat) => Total(f) \in Nat
<1>1. IsFiniteSet(1..n)
  <2>1. 1 \in Int /\ n \in Int
    OBVIOUS
  <2> QED BY <2>1, FS_Interval
<1> QED
  BY <1>1, TotalIsInt, TotalIsNat

LEMMA SlopeIs ==
    ASSUME NEW s \in Seq(Int), s # <<>>
    PROVE  SlopeNum(s) \in Int /\ Scatter(s) \in Int
<1> DEFINE n == Len(s)
           off == [i \in 1..n |-> s[i] - s[1]]
           lever == [i \in 1..n |-> (i - 1) * (s[i] - s[1])]
           square == [i \in 1..n |-> (s[i] - s[1]) * (s[i] - s[1])]
<1>1. n \in Nat /\ n \in Int /\ \A i \in 1..n : s[i] - s[1] \in Int
  BY SequenceFinite
<1>2. \A i \in 1..n : off[i] \in Int /\ lever[i] \in Int /\ square[i] \in Int
  BY <1>1
<1>3. Total(off) \in Int /\ Total(lever) \in Int /\ Total(square) \in Int
  <2>1. DOMAIN off = 1..n /\ DOMAIN lever = 1..n /\ DOMAIN square = 1..n
    OBVIOUS
  <2> HIDE DEF off, lever, square, n
  <2> QED BY <1>1, <1>2, <2>1, OverInterval
<1>4. SlopeNum(s) = n * Total(lever) - ((n * (n - 1)) \div 2) * Total(off)
  BY DEF SlopeNum
<1>5. Scatter(s) = n * Total(square) - Total(off) * Total(off)
  BY DEF Scatter
<1>6. (n * (n - 1)) \div 2 \in Int
  <2>1. n * (n - 1) \in Int
    BY <1>1
  <2> QED BY <2>1
<1> HIDE DEF off, lever, square, n
<1> QED
  BY <1>1, <1>3, <1>4, <1>5, <1>6

LEMMA SlopeDenIs ==
    ASSUME NEW s \in Seq(Int), Len(s) >= 2
    PROVE  SlopeDen(s) \in Nat \ {0}
<1> PICK n \in Nat : n = Len(s)
  OBVIOUS
<1> PICK q \in Nat : q = n * n
  OBVIOUS
<1>1. q >= 4
  BY SMT
<1>2. q * (q - 1) >= 12
  BY <1>1
<1>3. (q * (q - 1)) \div 12 \in Nat \ {0}
  <2>1. PICK x \in Nat : x = q * (q - 1)
    BY <1>2
  <2> QED BY <1>2, <2>1
<1>4. n * n * (n * n - 1) = q * (q - 1)
  OBVIOUS
<1> QED
  BY <1>3, <1>4 DEF SlopeDen

LEMMA BandNoiseIs ==
    ASSUME NEW s \in Seq(Int)
    PROVE  BandNoise(s) \in Nat
<1>1. CASE Len(s) < 3
  BY <1>1 DEF BandNoise
<1>2. CASE Len(s) >= 3
  <2> DEFINE spread == Scatter(s) - (SlopeNum(s) * SlopeNum(s)) \div SlopeDen(s)
  <2>1. SlopeNum(s) \in Int /\ Scatter(s) \in Int /\ SlopeDen(s) \in Nat \ {0}
    <3>1. s # <<>>
      BY <1>2
    <3> QED BY <1>2, <3>1, SlopeIs, SlopeDenIs
  <2>2. spread \in Int
    <3>1. PICK x \in Int : x = SlopeNum(s) * SlopeNum(s)
      BY <2>1
    <3>2. x \div SlopeDen(s) \in Int
      BY <2>1
    <3> QED BY <2>1, <3>1, <3>2
  <2>3. Max({0, spread}) \in Nat
    <3> HIDE DEF spread
    <3> QED BY <2>2, MaxWithZero
  <2>4. ISqrt(Max({0, spread})) \in Nat
    <3> HIDE DEF spread
    <3> QED BY <2>3, RootIs
  <2>5. Len(s) \in Nat \ {0}
    BY <1>2
  <2>6. BandNoise(s) = ISqrt(Max({0, spread})) \div Len(s)
    BY <1>2, <2>5 DEF BandNoise
  <2> HIDE DEF spread
  <2> QED BY <2>4, <2>5, <2>6, QuotientIsNat
<1>3. Len(s) \in Nat
  OBVIOUS
<1> QED
  BY <1>1, <1>2, <1>3

LEMMA PathIs ==
    ASSUME NEW s \in Seq(Int), s # <<>>
    PROVE  Path(s) \in Nat /\ Net(s) \in Nat
<1> PICK n \in Nat : n = Len(s) - 1
  OBVIOUS
<1> DEFINE f == [i \in 1..n |-> Abs(s[i + 1] - s[i])]
<1>1. \A i \in 1..n : f[i] \in Nat
  <2> TAKE i \in 1..n
  <2>1. s[i + 1] - s[i] \in Int
    OBVIOUS
  <2> QED BY <2>1, AbsIs
<1>2. Path(s) = Total(f)
  BY DEF Path
<1>3. s[Len(s)] - s[1] \in Int
  OBVIOUS
<1>4. Total(f) \in Nat
  <2>1. DOMAIN f = 1..n
    OBVIOUS
  <2> HIDE DEF f
  <2> QED BY <1>1, <2>1, OverInterval
<1> QED
  BY <1>2, <1>3, <1>4, AbsIs DEF Net

\* Series of prices that are read off the candles.
LEMMA SeriesAre ==
    ASSUME NEW s \in Seq(Sound), NEW sign \in {1, -1}
    PROVE  /\ Closes(s) \in Seq(Int) /\ Len(Closes(s)) = Len(s)
           /\ Mids(s) \in Seq(Int) /\ Len(Mids(s)) = Len(s)
           /\ Favourable(s, sign) \in Seq(Int) /\ Len(Favourable(s, sign)) = Len(s)
           /\ [i \in DOMAIN s |-> Adverse(s[i], sign)] \in Seq(Int)
           /\ [i \in DOMAIN s |-> sign * Adverse(s[i], sign)] \in Seq(Int)
           /\ [i \in DOMAIN s |-> s[i].low] \in Seq(Int)
           /\ [i \in DOMAIN s |-> s[i].high] \in Seq(Int)
<1> PICK n \in Nat : n = Len(s)
  OBVIOUS
<1>1. DOMAIN s = 1..n /\ \A i \in 1..n : s[i] \in Sound
  OBVIOUS
<1>2. \A i \in 1..n : /\ s[i].close \in Int /\ 2 * s[i].close + s[i].spread \in Int
                      /\ sign * CloseOut(s[i], sign) \in Int
                      /\ Adverse(s[i], sign) \in Int /\ sign * Adverse(s[i], sign) \in Int
                      /\ s[i].low \in Int /\ s[i].high \in Int
  BY <1>1, SoundIs DEF CloseOut, Adverse
<1>3. \A f : DOMAIN f = 1..n /\ (\A i \in 1..n : f[i] \in Int) /\ f = [i \in 1..n |-> f[i]]
              => f \in Seq(Int) /\ Len(f) = n
  <2> TAKE f
  <2> HAVE DOMAIN f = 1..n /\ (\A i \in 1..n : f[i] \in Int) /\ f = [i \in 1..n |-> f[i]]
  <2>1. f \in [1..n -> Int]
    OBVIOUS
  <2> QED BY <2>1
<1>4. Closes(s) \in Seq(Int) /\ Len(Closes(s)) = n
  BY <1>1, <1>2, <1>3 DEF Closes
<1>5. Mids(s) \in Seq(Int) /\ Len(Mids(s)) = n
  BY <1>1, <1>2, <1>3 DEF Mids
<1>6. Favourable(s, sign) \in Seq(Int) /\ Len(Favourable(s, sign)) = n
  BY <1>1, <1>2, <1>3 DEF Favourable
<1>7. [i \in DOMAIN s |-> Adverse(s[i], sign)] \in Seq(Int)
  BY <1>1, <1>2, <1>3
<1>8. [i \in DOMAIN s |-> sign * Adverse(s[i], sign)] \in Seq(Int)
  BY <1>1, <1>2, <1>3
<1>9. [i \in DOMAIN s |-> s[i].low] \in Seq(Int)
  BY <1>1, <1>2, <1>3
<1>10. [i \in DOMAIN s |-> s[i].high] \in Seq(Int)
  BY <1>1, <1>2, <1>3
<1> QED
  BY <1>4, <1>5, <1>6, <1>7, <1>8, <1>9, <1>10

LEMMA WeightIs ==
    ASSUME NEW i \in Nat \ {0}
    PROVE  Weight(i) \in Nat
<1>1. Windows.halfLife \in Nat \ {0}
  BY WindowsAssumption
<1>2. (i - 1) \div Windows.halfLife \in Nat
  <2>1. i - 1 \in Nat
    OBVIOUS
  <2> QED BY <1>1, <2>1, QuotientIsNat
<1>3. PICK k \in Nat : k = (i - 1) \div Windows.halfLife
  BY <1>2
<1>4. Weight(i) = 2 ^ k
  BY <1>3 DEF Weight
<1> QED
  BY <1>4, PowerIsNat

LEMMA SupportIs ==
    ASSUME NEW s \in Seq(Int), s # <<>>
    PROVE  WeightedSupport(s) \in Int
<1> DEFINE w(I) == Total([i \in I |-> Weight(i)])
           upTo(l) == {i \in DOMAIN s : s[i] =< l}
           R == {s[i] : i \in DOMAIN s}
           L == {l \in R : 5 * w(upTo(l)) >= w(DOMAIN s)}
<1>1. IsFiniteSet(R) /\ R \subseteq Int /\ Highest(s) \in R
      /\ \A i \in DOMAIN s : s[i] =< Highest(s)
  <2>1. IsFiniteSet(DOMAIN s) /\ \A i \in DOMAIN s : s[i] \in Int
    BY SequenceFinite
  <2>2. IsFiniteSet(R)
    BY <2>1, ImageFinite
  <2>3. /\ \E i \in DOMAIN s : s[i] = Highest(s)
        /\ \A i \in DOMAIN s : s[i] =< Highest(s)
    BY ExtremesAre
  <2>4. R \subseteq Int /\ Highest(s) \in R
    BY <2>1, <2>3
  <2> QED BY <2>2, <2>3, <2>4
<1>2. upTo(Highest(s)) = DOMAIN s
  BY <1>1
<1>3. w(DOMAIN s) \in Nat
  <2> DEFINE f == [i \in DOMAIN s |-> Weight(i)]
  <2>1. \A i \in DOMAIN s : f[i] \in Nat
    BY SequenceFinite, WeightIs
  <2>2. DOMAIN f = DOMAIN s /\ IsFiniteSet(DOMAIN s)
    BY SequenceFinite
  <2>3. Total(f) \in Nat
    <3> HIDE DEF f
    <3> QED BY <2>1, <2>2, TotalIsNat
  <2> QED BY <2>3
<1>4. Highest(s) \in L
  <2>1. 5 * w(DOMAIN s) >= w(DOMAIN s)
    <3> HIDE DEF w
    <3> QED BY <1>3
  <2> HIDE DEF w, upTo, R
  <2> QED BY <1>1, <1>2, <2>1
<1>5. IsFiniteSet(L) /\ L # {} /\ L \subseteq Int
  <2>1. L \subseteq R
    OBVIOUS
  <2> HIDE DEF L, R
  <2> QED BY <1>1, <1>4, <2>1, FS_Subset
<1>6. WeightedSupport(s) = Min(L)
  BY DEF WeightedSupport
<1>7. Min(L) \in Int
  <2> HIDE DEF L
  <2> QED BY <1>5, MinIs
<1> QED
  BY <1>6, <1>7

-----------------------------------------------------------------------------
(***************************************************************************)
(* The stop policies: a position is opened with its stop behind the price. *)
(***************************************************************************)

LEMMA WindowsAre ==
    \A w \in {"atr", "noise", "confirm", "drop", "ticks", "review", "hour",
              "long", "speed", "halfLife"} : Windows[w] \in Nat \ {0}
BY WindowsAssumption

LEMMA AtrOfIs ==
    ASSUME NEW s \in Seq(Sound)
    PROVE  AtrOf(s) \in Nat
BY WindowsAre, AtrIs DEF AtrOf

LEMMA SpreadIs ==
    ASSUME NEW s \in Seq(Sound)
    PROVE  Spread(s) \in Nat /\ (s # <<>> => Spread(s) > 0 /\ Spread(s) = s[Len(s)].spread)
<1>1. CASE s = <<>>
  BY <1>1 DEF Spread
<1>2. CASE s # <<>>
  <2>1. s[Len(s)] \in Sound
    BY <1>2, SequenceFinite
  <2> QED BY <1>2, <2>1, SoundIs DEF Spread
<1> QED
  BY <1>1, <1>2

LEMMA BoundedIs ==
    ASSUME NEW d \in Int, NEW floor \in Int, NEW cap \in Int
    PROVE  Bounded(d, floor, cap) \in Int /\ Bounded(d, floor, cap) >= floor
<1> PICK far : far = Max({d, floor})
  OBVIOUS
<1> PICK near : near = Max({cap, floor})
  OBVIOUS
<1>1. far \in Int /\ far >= floor /\ near \in Int /\ near >= floor
  BY MaxOfTwo
<1>2. Min({far, near}) \in {far, near}
  BY <1>1, MaxOfTwo
<1>3. Bounded(d, floor, cap) = IF cap = 0 THEN far ELSE Min({far, near})
  BY DEF Bounded
<1> QED
  BY <1>1, <1>2, <1>3

LEMMA NoiseFloorIs ==
    ASSUME NEW s \in Seq(Sound)
    PROVE  NoiseFloor(s) \in Int
<1> PICK m : m = Mids(s)
  OBVIOUS
<1>1. m \in Seq(Int)
  <2>1. 1 \in {1, -1}
    OBVIOUS
  <2> QED BY <2>1, SeriesAre
<1>2. CASE Len(m) < 3
  BY <1>2 DEF NoiseFloor
<1>3. CASE Len(m) >= 3
  <2>1. m # <<>>
    BY <1>1, <1>3
  <2>2. Path(m) \in Nat /\ Net(m) \in Nat
    BY <1>1, <2>1, PathIs
  <2>3. PICK straight \in Int : straight = IF Path(m) = 0 THEN 0 ELSE (10 * Net(m)) \div Path(m)
    <3>1. Path(m) # 0 => (10 * Net(m)) \div Path(m) \in Int
      <4>1. 10 * Net(m) \in Nat
        BY <2>2
      <4> QED BY <2>2, <4>1
    <3> QED BY <3>1
  <2>4. 20 - (15 * straight) \div 10 \in Int
    OBVIOUS
  <2>5. Tenths(20 - (15 * straight) \div 10, BandNoise(m)) \in Int
    BY <1>1, <2>4, BandNoiseIs, TenthsIs
  <2>6. NoiseFloor(s) = Tenths(20 - (15 * straight) \div 10, BandNoise(m)) \div 2
    BY <1>1, <1>3, <2>3 DEF NoiseFloor
  <2>7. \A x \in Int : x \div 2 \in Int
    OBVIOUS
  <2> QED BY <2>5, <2>6, <2>7
<1> QED
  BY <1>1, <1>2, <1>3

LEMMA QuietFloorIs ==
    ASSUME NEW s \in Seq(Sound), s # <<>>
    PROVE  QuietFloor(s) \in Int /\ QuietFloor(s) > 0
<1> PICK a : a = AtrOf(s) \div 2
  OBVIOUS
<1> PICK b : b = 2 * Spread(s)
  OBVIOUS
<1>1. a \in Int /\ b \in Int /\ b > 0
  <2>1. a \in Int
    BY AtrOfIs
  <2>2. b \in Int /\ b > 0
    BY SpreadIs
  <2> QED BY <2>1, <2>2
<1>2. Max({a, b}) \in Int /\ Max({a, b}) >= b
  BY <1>1, MaxOfTwo
<1> QED
  BY <1>1, <1>2 DEF QuietFloor

LEMMA FlatIs ==
    ASSUME NEW s \in Seq(Sound)
    PROVE  FlatDistance(s) \in Int /\ (AtrOf(s) > 0 => FlatDistance(s) > 0)
<1> PICK a \in Nat : a = AtrOf(s)
  BY AtrOfIs
<1>1. FlatDistance(s) = (25 * a) \div 10
  BY DEF FlatDistance, Tenths
<1> QED
  BY <1>1

LEMMA SupportDistanceIs ==
    ASSUME NEW s \in Seq(Sound), s # <<>>, NEW entry \in Int
    PROVE  SupportDistance(s, entry) \in Int /\ SupportDistance(s, entry) > 0
<1> PICK lows : lows = [i \in DOMAIN s |-> s[i].low]
  OBVIOUS
<1> PICK w : w = LastN(lows, Windows.hour)
  OBVIOUS
<1>1. lows \in Seq(Int) /\ lows # <<>>
  <2>1. 1 \in {1, -1}
    OBVIOUS
  <2>2. lows \in Seq(Int)
    BY <2>1, SeriesAre
  <2>3. DOMAIN lows = DOMAIN s /\ 1 \in DOMAIN s
    BY SequenceFinite
  <2> QED BY <2>2, <2>3
<1>2. w \in Seq(Int) /\ w # <<>>
  BY <1>1, LastNIs, WindowsAre
<1>3. WeightedSupport(w) \in Int
  BY <1>2, SupportIs
<1>4. AtrOf(s) \in Nat /\ Spread(s) \in Nat /\ Spread(s) > 0
  BY AtrOfIs, SpreadIs
<1> PICK d : d = entry - WeightedSupport(w) + AtrOf(s) \div 2
  OBVIOUS
<1> PICK t : t = Tenths(25, AtrOf(s))
  OBVIOUS
<1> PICK b : b = 2 * Spread(s)
  OBVIOUS
<1>5. d \in Int /\ t \in Int /\ b \in Int /\ b > 0 /\ 4 * AtrOf(s) \in Int
  <2>1. AtrOf(s) \div 2 \in Int
    BY <1>4
  <2>2. d \in Int
    BY <1>3, <2>1
  <2>3. t \in Int
    BY <1>4, TenthsIs
  <2> QED BY <1>4, <2>2, <2>3
<1>6. Max({t, b}) \in Int /\ Max({t, b}) >= b
  BY <1>5, MaxOfTwo
<1>7. SupportDistance(s, entry) = Bounded(d, Max({t, b}), 4 * AtrOf(s))
  BY DEF SupportDistance
<1>8. Bounded(d, Max({t, b}), 4 * AtrOf(s)) \in Int
      /\ Bounded(d, Max({t, b}), 4 * AtrOf(s)) >= Max({t, b})
  BY <1>5, <1>6, BoundedIs
<1> QED
  BY <1>5, <1>6, <1>7, <1>8

LEMMA RegressionDistanceIs ==
    ASSUME NEW s \in Seq(Sound), s # <<>>
    PROVE  RegressionDistance(s) \in Int /\ RegressionDistance(s) > 0
<1> PICK closes : closes = LastN(Closes(s), Windows.hour)
  OBVIOUS
<1>1. closes \in Seq(Int)
  <2>1. 1 \in {1, -1}
    OBVIOUS
  <2> QED BY <2>1, SeriesAre, LastNIs, WindowsAre
<1> PICK choppy : choppy = IF Len(closes) < 2 \/ Path(closes) = 0 THEN 10
                           ELSE 10 - (10 * Net(closes)) \div Path(closes)
  OBVIOUS
<1>2. choppy \in Int
  <2>1. CASE Len(closes) < 2 \/ Path(closes) = 0
    BY <2>1
  <2>2. CASE ~(Len(closes) < 2 \/ Path(closes) = 0)
    <3>1. closes # <<>>
      BY <1>1, <2>2
    <3>2. Path(closes) \in Nat \ {0} /\ Net(closes) \in Nat
      BY <1>1, <2>2, <3>1, PathIs
    <3>3. (10 * Net(closes)) \div Path(closes) \in Int
      <4>1. 10 * Net(closes) \in Nat
        BY <3>2
      <4> QED BY <3>2, <4>1
    <3> QED BY <2>2, <3>3
  <2> QED BY <2>1, <2>2
<1> PICK d : d = Tenths(10 + choppy, Tenths(25, BandNoise(closes)))
  OBVIOUS
<1> PICK b : b = 2 * Spread(s)
  OBVIOUS
<1>3. d \in Int
  <2>1. BandNoise(closes) \in Int
    BY <1>1, BandNoiseIs
  <2>2. Tenths(25, BandNoise(closes)) \in Int
    BY <2>1, TenthsIs
  <2>3. 10 + choppy \in Int
    BY <1>2
  <2> QED BY <2>2, <2>3, TenthsIs
<1>4. b \in Int /\ b > 0 /\ AtrOf(s) \in Int
  BY AtrOfIs, SpreadIs
<1>5. Max({b, AtrOf(s)}) \in Int /\ Max({b, AtrOf(s)}) >= b
  BY <1>4, MaxOfTwo
<1>6. RegressionDistance(s) = Bounded(d, Max({b, AtrOf(s)}), 0)
  BY DEF RegressionDistance
<1> PICK z \in Int : z = 0
  OBVIOUS
<1>7. Bounded(d, Max({b, AtrOf(s)}), z) \in Int
      /\ Bounded(d, Max({b, AtrOf(s)}), z) >= Max({b, AtrOf(s)})
  BY <1>3, <1>5, BoundedIs
<1> QED
  BY <1>4, <1>5, <1>6, <1>7

LEMMA BeyondIs ==
    ASSUME NEW ref \in Int, NEW ex \in SUBSET Int, NEW sign \in {1, -1}, NEW cushion \in Int
    PROVE  BeyondExtreme(ref, ex, sign, cushion) \in Int
<1>1. ex # {} => (CHOOSE l \in ex : TRUE) \in Int
  OBVIOUS
<1> PICK l : l = CHOOSE x \in ex : TRUE
  OBVIOUS
<1>2. ex # {} => sign * (ref - l) + cushion \in Int
  BY <1>1
<1> QED
  BY <1>2 DEF BeyondExtreme

LEMMA WindowExtremeIs ==
    ASSUME NEW s \in Seq(Sound), NEW sign \in {1, -1}
    PROVE  WindowExtreme(s, sign) \in SUBSET Int
<1> PICK f : f = [i \in DOMAIN s |-> sign * Adverse(s[i], sign)]
  OBVIOUS
<1>1. CASE s = <<>>
  BY <1>1 DEF WindowExtreme
<1>2. CASE s # <<>>
  <2>1. f \in Seq(Int)
    BY SeriesAre
  <2>2. f # <<>>
    <3>1. DOMAIN f = DOMAIN s /\ 1 \in DOMAIN s
      BY <1>2, SequenceFinite
    <3> QED BY <3>1
  <2>3. Lowest(f) \in Int
    BY <2>1, <2>2, ExtremesAre
  <2>4. WindowExtreme(s, sign) = {sign * Lowest(f)}
    BY <1>2 DEF WindowExtreme
  <2> QED BY <2>3, <2>4
<1> QED
  BY <1>1, <1>2

\* The two policies whose floor is the noise of the hour or a quiet market's.
LEMMA FloorIs ==
    ASSUME NEW s \in Seq(Sound), s # <<>>, NEW d \in Int, NEW w \in Seq(Sound)
    PROVE  LET D == Bounded(d, Max({NoiseFloor(w), QuietFloor(s)}), 0)
           IN D \in Int /\ D > 0
<1> PICK a : a = NoiseFloor(w)
  OBVIOUS
<1> PICK b : b = QuietFloor(s)
  OBVIOUS
<1> PICK z \in Int : z = 0
  OBVIOUS
<1>1. a \in Int /\ b \in Int /\ b > 0
  BY NoiseFloorIs, QuietFloorIs
<1>2. Max({a, b}) \in Int /\ Max({a, b}) >= b
  BY <1>1, MaxOfTwo
<1>3. Bounded(d, Max({a, b}), z) \in Int /\ Bounded(d, Max({a, b}), z) >= Max({a, b})
  BY <1>2, BoundedIs
<1> QED
  BY <1>1, <1>2, <1>3

LEMMA HourLowIs ==
    ASSUME NEW s \in Seq(Sound), s # <<>>, NEW ref \in Int, NEW sign \in {1, -1}
    PROVE  HourLowDistance(s, ref, sign) \in Int /\ HourLowDistance(s, ref, sign) > 0
<1> PICK w : w = LastN(s, Windows.hour)
  OBVIOUS
<1>1. w \in Seq(Sound)
  BY LastNIs, WindowsAre
<1> PICK z \in Int : z = 0
  OBVIOUS
<1> PICK d : d = BeyondExtreme(ref, WindowExtreme(w, sign), sign, z)
  OBVIOUS
<1>2. d \in Int
  BY <1>1, WindowExtremeIs, BeyondIs
<1>3. HourLowDistance(s, ref, sign) = Bounded(d, Max({NoiseFloor(w), QuietFloor(s)}), 0)
  BY DEF HourLowDistance
<1> QED
  BY <1>1, <1>2, <1>3, FloorIs

LEMMA ShapeDistanceIs ==
    ASSUME NEW s \in Seq(Sound), s # <<>>, NEW ref \in Int, NEW sign \in {1, -1},
           NEW ex \in SUBSET Int
    PROVE  ShapeDistance(s, ref, sign, ex) \in Int /\ ShapeDistance(s, ref, sign, ex) > 0
<1> PICK w : w = LastN(s, Windows.hour)
  OBVIOUS
<1>1. w \in Seq(Sound)
  BY LastNIs, WindowsAre
<1> PICK level : level = ShapeExtreme(Shape(w), s, sign, ex)
  OBVIOUS
<1>2. level \in SUBSET Int
  <2>1. \A n \in Nat \ {0} : WindowExtreme(LastN(s, n), sign) \in SUBSET Int
    BY LastNIs, WindowExtremeIs
  <2>2. Windows.hour \in Nat \ {0} /\ Windows.long \in Nat \ {0}
    BY WindowsAre
  <2> QED BY <2>1, <2>2 DEF ShapeExtreme
<1>3. Tenths(3, AtrOf(s)) \in Int
  <2>1. AtrOf(s) \in Int /\ 3 \in Int
    BY AtrOfIs
  <2> QED BY <2>1, TenthsIs
<1> PICK d : d = BeyondExtreme(ref, level, sign, Tenths(3, AtrOf(s)))
  OBVIOUS
<1>4. d \in Int
  BY <1>2, <1>3, BeyondIs
<1>5. ShapeDistance(s, ref, sign, ex) = Bounded(d, Max({NoiseFloor(w), QuietFloor(s)}), 0)
  BY DEF ShapeDistance
<1> QED
  BY <1>1, <1>4, <1>5, FloorIs

LEMMA SpeedIs ==
    ASSUME NEW s \in Seq(Sound), s # <<>>, NEW sign \in {1, -1}
    PROVE  SpeedPercent(s, sign) \in Int
<1> PICK m : m = Mids(LastN(s, Windows.speed))
  OBVIOUS
<1>1. m \in Seq(Int)
  <2>1. LastN(s, Windows.speed) \in Seq(Sound)
    BY LastNIs, WindowsAre
  <2> QED BY <2>1, SeriesAre
<1>2. CASE Len(m) < 2 \/ AtrOf(s) = 0
  BY <1>2 DEF SpeedPercent
<1>3. CASE ~(Len(m) < 2 \/ AtrOf(s) = 0)
  <2>1. Len(m) >= 2 /\ m # <<>> /\ AtrOf(s) \in Nat \ {0}
    BY <1>1, <1>3, AtrOfIs
  <2>2. SlopeNum(m) \in Int /\ SlopeDen(m) \in Nat \ {0}
    BY <1>1, <2>1, SlopeIs, SlopeDenIs
  <2>3. PICK x \in Int : x = 100 * sign * SlopeNum(m) * (Len(m) - 1)
    <3>1. Len(m) - 1 \in Int
      BY <1>1
    <3>2. 100 * sign \in Int
      OBVIOUS
    <3>3. 100 * sign * SlopeNum(m) \in Int
      BY <2>2, <3>2
    <3>4. 100 * sign * SlopeNum(m) * (Len(m) - 1) \in Int
      BY <3>1, <3>3
    <3> QED BY <3>4
  <2>4. PICK y \in Nat \ {0} : y = 2 * SlopeDen(m) * AtrOf(s)
    <3>1. 2 * SlopeDen(m) \in Nat \ {0}
      BY <2>2
    <3>2. \A p, q \in Nat \ {0} : p * q \in Nat \ {0}
      OBVIOUS
    <3>3. 2 * SlopeDen(m) * AtrOf(s) \in Nat \ {0}
      BY <2>1, <3>1, <3>2
    <3> QED BY <3>3
  <2>5. SpeedPercent(s, sign) = x \div y
    BY <1>3, <2>3, <2>4 DEF SpeedPercent
  <2> QED BY <2>5
<1> QED
  BY <1>2, <1>3

LEMMA StructureIs ==
    ASSUME NEW s \in Seq(Sound), s # <<>>, NEW ref \in Int, NEW sign \in {1, -1}
    PROVE  StructureDistance(s, ref, sign) \in Int
<1> PICK w : w = LastN(s, Windows.hour)
  OBVIOUS
<1>1. w \in Seq(Sound) /\ w # <<>>
  BY LastNIs, WindowsAre
<1> PICK f : f = [i \in DOMAIN w |-> Adverse(w[i], sign)]
  OBVIOUS
<1>2. f \in Seq(Int) /\ f # <<>>
  <2>1. f \in Seq(Int)
    BY <1>1, SeriesAre
  <2>2. DOMAIN f = DOMAIN w /\ 1 \in DOMAIN w
    BY <1>1, SequenceFinite
  <2> QED BY <2>1, <2>2
<1> PICK g : g = [i \in DOMAIN f |-> -f[i]]
  OBVIOUS
<1>3. g \in Seq(Int) /\ g # <<>>
  <2>1. DOMAIN f = 1..Len(f) /\ 1 \in DOMAIN f /\ Len(f) \in Nat
    BY <1>2, SequenceFinite
  <2>2. \A i \in DOMAIN f : -f[i] \in Int
    BY <1>2
  <2>3. DOMAIN g = DOMAIN f
    OBVIOUS
  <2>4. g \in [DOMAIN f -> Int]
    BY <2>2
  <2>5. \A n \in Nat : \A h : h \in [1..n -> Int] => h \in Seq(Int)
    OBVIOUS
  <2>6. g \in Seq(Int)
    BY <2>1, <2>4, <2>5
  <2> QED BY <2>1, <2>3, <2>6
<1>4. WeightedSupport(f) \in Int /\ WeightedResistance(f) \in Int
  <2>1. WeightedSupport(f) \in Int /\ WeightedSupport(g) \in Int
    BY <1>2, <1>3, SupportIs
  <2> QED BY <2>1 DEF WeightedResistance
<1>5. PICK level \in Int : level = IF sign < 0 THEN WeightedResistance(f) ELSE WeightedSupport(f)
  BY <1>4
<1>6. PICK b \in Int : b = sign * (ref - level) + AtrOf(s) \div 2
  <2>1. AtrOf(s) \div 2 \in Int
    BY AtrOfIs
  <2> QED BY <2>1
<1>7. PICK a \in Int : a = Tenths(25, AtrOf(s))
  <2>1. AtrOf(s) \in Int /\ 25 \in Int
    BY AtrOfIs
  <2> QED BY <2>1, TenthsIs
<1>8. StructureDistance(s, ref, sign) = Max({a} \cup {b})
  BY <1>1, <1>5, <1>6, <1>7 DEF StructureDistance
<1>9. {a} \cup {b} = {a, b}
  OBVIOUS
<1>10. Max({a, b}) \in Int
  BY MaxOfTwo
<1> QED
  BY <1>8, <1>9, <1>10

LEMMA LinearSpeedIs ==
    ASSUME NEW s \in Seq(Sound), s # <<>>, NEW ref \in Int, NEW sign \in {1, -1}
    PROVE  LinearSpeedDistance(s, ref, sign) \in Int /\ LinearSpeedDistance(s, ref, sign) > 0
<1>1. AtrOf(s) \in Nat /\ Spread(s) \in Nat /\ Spread(s) > 0
  BY AtrOfIs, SpreadIs
<1>2. PICK p \in Int : p = (100 * (SpeedPercent(s, sign) - 50)) \div 150
  <2>1. 100 * (SpeedPercent(s, sign) - 50) \in Int
    BY SpeedIs
  <2> QED BY <2>1
<1>3. PICK q \in Int : q = Max({0, p})
  BY MaxWithZero
<1>4. PICK blend \in Int : blend = Min({100, q})
  <2> PICK h \in Int : h = 100
    OBVIOUS
  <2>1. Min({h, q}) \in Int
    BY MaxOfTwo
  <2> QED BY <2>1
<1>5. PICK x \in Int : x = (blend * AtrOf(s) + (100 - blend) * StructureDistance(s, ref, sign))
                              \div 100
  <2>1. StructureDistance(s, ref, sign) \in Int
    BY StructureIs
  <2>2. blend * AtrOf(s) \in Int /\ (100 - blend) * StructureDistance(s, ref, sign) \in Int
    BY <1>1, <2>1
  <2>3. blend * AtrOf(s) + (100 - blend) * StructureDistance(s, ref, sign) \in Int
    BY <2>2
  <2> QED BY <2>3
<1>6. PICK a \in Int : a = 2 * Spread(s)
  BY <1>1
<1>7. PICK b \in Int : b = (3 * AtrOf(s)) \div 4
  <2>1. 3 * AtrOf(s) \in Int
    BY <1>1
  <2> QED BY <2>1
<1>8. Max({a, b}) \in Int /\ Max({a, b}) >= a
  BY MaxOfTwo
<1>9. 4 * AtrOf(s) \in Int
  BY <1>1
<1>10. LinearSpeedDistance(s, ref, sign) = Bounded(x, Max({a, b}), 4 * AtrOf(s))
  BY <1>2, <1>3, <1>4, <1>5, <1>6, <1>7 DEF LinearSpeedDistance
<1>11. Bounded(x, Max({a, b}), 4 * AtrOf(s)) \in Int
       /\ Bounded(x, Max({a, b}), 4 * AtrOf(s)) >= Max({a, b})
  BY <1>8, <1>9, BoundedIs
<1> QED
  BY <1>1, <1>6, <1>8, <1>10, <1>11

\* Every policy puts the stop behind the price it would be closed at, the flat one
\* if the market has moved at all.
LEMMA StopIsBehind ==
    ASSUME NEW policy \in Policies, NEW s \in Seq(Sound), s # <<>>, NEW sign \in {1, -1},
           NEW ex \in SUBSET Int, AtrOf(s) > 0
    PROVE  LET last  == s[Len(s)]
               level == StopLevel(policy, s, last.close, sign, ex)
           IN level \in Int /\ sign * (CloseOut(last, sign) - level) > 0
<1> PICK last : last = s[Len(s)]
  OBVIOUS
<1> PICK ref : ref = CloseOut(last, sign)
  OBVIOUS
<1> PICK d : d = Distance(policy, s, last.close, sign, ex)
  OBVIOUS
<1>1. last \in Sound
  BY SequenceFinite
<1>2. ref \in Int /\ last.close \in Int
  BY <1>1, SoundIs DEF CloseOut
<1>3. Reference(s, last.close, sign) = ref
  BY DEF Reference, CloseOut
<1>4. d \in Int /\ d > 0
  <2>1. CASE policy = "hourlow"
    BY <1>2, <1>3, <2>1, HourLowIs DEF Distance
  <2>2. CASE policy = "linearspeed"
    BY <1>2, <1>3, <2>2, LinearSpeedIs DEF Distance
  <2>3. CASE policy = "shape"
    BY <1>2, <1>3, <2>3, ShapeDistanceIs DEF Distance
  <2>4. CASE policy = "support" /\ sign > 0
    BY <1>2, <2>4, SupportDistanceIs DEF Distance
  <2>5. CASE policy = "regression" /\ sign > 0
    BY <2>5, RegressionDistanceIs DEF Distance
  <2>6. CASE policy = "atr" \/ (policy \in {"support", "regression"} /\ ~(sign > 0))
    <3>1. d = FlatDistance(s)
      BY <2>6 DEF Distance
    <3> QED BY <3>1, FlatIs
  <2> QED
    BY <2>1, <2>2, <2>3, <2>4, <2>5, <2>6 DEF Policies
<1>5. StopLevel(policy, s, last.close, sign, ex) = ref - sign * d
  BY <1>3 DEF StopLevel
<1>6. ref - sign * d \in Int /\ sign * (ref - (ref - sign * d)) > 0
  BY <1>2, <1>4
<1> QED
  BY <1>5, <1>6

-----------------------------------------------------------------------------
(***************************************************************************)
(* Recursive functions over an interval.                                   *)
(***************************************************************************)

\* A recursive function over b..n whose every value is computed from the one
\* before it exists, and what holds of its first value and passes from each
\* value to the next holds of them all.
RunsBy(f, a, b, n, st) == \A i \in b..n : f[i] = IF i = b THEN a ELSE st[i][f[i - 1]]

LEMMA RecursionExists ==
    ASSUME NEW V, NEW a \in V, NEW b \in Nat, NEW n \in Nat, b =< n,
           NEW st \in [(b + 1)..n -> [V -> V]]
    PROVE  \E f \in [b..n -> V] : RunsBy(f, a, b, n, st)
<1> DEFINE runs(m, f) == \A i \in b..m : f[i] = IF i = b THEN a ELSE st[i][f[i - 1]]
           bad == {m \in b..n : ~ \E f \in [b..m -> V] : runs(m, f)}
<1>1. SUFFICES ASSUME bad # {} PROVE FALSE
  <2>1. n \in b..n
    OBVIOUS
  <2> QED BY <1>1, <2>1 DEF RunsBy
<1>2. PICK m \in bad : \A k \in bad : m =< k
  <2>1. bad \subseteq Nat
    OBVIOUS
  <2> QED BY <1>1, <2>1, LeastNat
<1>3. CASE m = b
  <2> DEFINE f == [i \in b..b |-> a]
  <2>1. f \in [b..b -> V] /\ runs(b, f)
    OBVIOUS
  <2> QED BY <1>2, <1>3, <2>1
<1>4. CASE m > b
  <2>1. m \in (b + 1)..n /\ m - 1 \in b..n /\ m - 1 \notin bad
    <3>1. m \in b..n
      BY <1>2
    <3>2. m \in (b + 1)..n /\ m - 1 \in b..n /\ m - 1 < m
      BY <3>1, <1>4
    <3>3. m - 1 \in bad => m =< m - 1
      BY <1>2
    <3> QED BY <3>2, <3>3
  <2>2. PICK f \in [b..(m - 1) -> V] : runs(m - 1, f)
    BY <2>1
  <2> DEFINE g == [i \in b..m |-> IF i = m THEN st[m][f[m - 1]] ELSE f[i]]
  <2>3. f[m - 1] \in V
    BY <2>1, <2>2
  <2>4. st[m][f[m - 1]] \in V
    BY <2>1, <2>3
  <2>5. g \in [b..m -> V]
    BY <2>1, <2>2, <2>4
  <2>6. \A i \in b..m : g[i] = IF i = b THEN a ELSE st[i][g[i - 1]]
    <3> SUFFICES ASSUME NEW i \in b..m PROVE g[i] = IF i = b THEN a ELSE st[i][g[i - 1]]
      OBVIOUS
    <3>1. CASE i = m
      <4>1. g[i] = st[m][f[m - 1]] /\ g[i - 1] = f[m - 1] /\ i # b
        BY <2>1, <3>1
      <4> QED BY <3>1, <4>1
    <3>2. CASE i # m
      <4>1. i \in b..(m - 1) /\ g[i] = f[i]
        BY <2>1, <3>2
      <4>2. i # b => g[i - 1] = f[i - 1]
        BY <2>1, <4>1
      <4>3. f[i] = IF i = b THEN a ELSE st[i][f[i - 1]]
        BY <2>2, <4>1
      <4> QED BY <4>1, <4>2, <4>3
    <3> QED BY <3>1, <3>2
  <2> QED BY <1>2, <2>5, <2>6
<1>5. m \in b..n
  BY <1>2
<1> QED
  BY <1>5, <1>3, <1>4

LEMMA RecursionHolds ==
    ASSUME NEW V, NEW b \in Nat, NEW n \in Nat, NEW k, k[b] \in V,
           \A i \in (b + 1)..n : k[i - 1] \in V => k[i] \in V
    PROVE  \A i \in b..n : k[i] \in V
<1> DEFINE bad == {i \in b..n : k[i] \notin V}
<1>1. SUFFICES ASSUME bad # {} PROVE FALSE
  OBVIOUS
<1>2. PICK m \in bad : \A i \in bad : m =< i
  <2>1. bad \subseteq Nat
    OBVIOUS
  <2> QED BY <1>1, <2>1, LeastNat
<1>3. m \in (b + 1)..n /\ m - 1 \in b..n
  BY <1>2
<1>4. k[m - 1] \in V
  BY <1>2, <1>3
<1> QED
  BY <1>2, <1>3, <1>4

\* The candles since the open are candles of the buffer.
LEMMA SinceOpenIs ==
    ASSUME NEW s \in Seq(Sound), NEW p
    PROVE  SinceOpen(s, p) \in Seq(Sound)
<1> DEFINE V == Seq(Sound)
           keep(i, v) == IF p.since = 0 \/ s[i].time >= p.since THEN Append(v, s[i]) ELSE v
           rec(f) == [i \in 0..Len(s) |-> IF i = 0 THEN <<>> ELSE keep(i, f[i - 1])]
           st == [i \in (0 + 1)..Len(s) |-> [v \in V |-> keep(i, v)]]
<1> PICK n \in Nat : n = Len(s)
  OBVIOUS
<1>1. \A i \in 1..n, v \in V : keep(i, v) \in V
  OBVIOUS
<1>2. <<>> \in V
  OBVIOUS
<1> HIDE DEF keep, V
<1>3. st \in [(0 + 1)..n -> [V -> V]]
  BY <1>1
<1>4. PICK f \in [0..n -> V] : RunsBy(f, <<>>, 0, n, st)
  <2> HIDE DEF st
  <2>1. \A a \in V, b \in Nat : \A t \in [(b + 1)..n -> [V -> V]] :
           b =< n => \E f \in [b..n -> V] : RunsBy(f, a, b, n, t)
    <3> TAKE a \in V, b \in Nat
    <3> TAKE t \in [(b + 1)..n -> [V -> V]]
    <3> QED BY RecursionExists
  <2> QED BY <1>2, <1>3, <2>1
<1>5. f = rec(f)
  <2>1. \A i \in 0..n : f[i] = IF i = 0 THEN <<>> ELSE keep(i, f[i - 1])
    <3> SUFFICES ASSUME NEW i \in 0..n, i # 0 PROVE f[i] = keep(i, f[i - 1])
      BY <1>4 DEF RunsBy
    <3>1. i \in 1..n /\ i - 1 \in 0..n
      OBVIOUS
    <3>2. f[i] = st[i][f[i - 1]] /\ f[i - 1] \in V
      BY <1>4, <3>1 DEF RunsBy
    <3> QED BY <3>1, <3>2
  <2> HIDE DEF st
  <2>2. DOMAIN f = 0..n
    OBVIOUS
  <2> QED BY <2>1, <2>2
<1> DEFINE k == CHOOSE h : h = rec(h)
<1>6. k = rec(k)
  <2> HIDE DEF rec
  <2> QED BY <1>5
<1>7. SinceOpen(s, p) = k[n]
  BY DEF SinceOpen, keep
<1> HIDE DEF k
<1>8. k[0] \in V
  <2>1. 0 \in 0..Len(s)
    OBVIOUS
  <2> QED BY <1>2, <1>6, <2>1
<1>9. \A i \in 1..n : k[i - 1] \in V => k[i] \in V
  <2> SUFFICES ASSUME NEW i \in 1..n, k[i - 1] \in V PROVE k[i] \in V
    OBVIOUS
  <2>1. i \in 0..Len(s) /\ i # 0
    OBVIOUS
  <2>2. k[i] = keep(i, k[i - 1])
    BY <1>6, <2>1
  <2> QED BY <1>1, <2>2
<1> HIDE DEF rec, st
<1>10. k[n] \in V
  <2>1. n \in 0..n
    OBVIOUS
  <2>2. \A b \in Nat : /\ k[b] \in V
                       /\ \A i \in (b + 1)..n : k[i - 1] \in V => k[i] \in V
                       => \A i \in b..n : k[i] \in V
    <3> TAKE b \in Nat
    <3> QED BY RecursionHolds
  <2> QED BY <1>8, <1>9, <2>1, <2>2
<1> QED
  BY <1>7, <1>10 DEF V

-----------------------------------------------------------------------------
(***************************************************************************)
(* The stop updaters, one by one: what they propose is fair.               *)
(***************************************************************************)

\* What an updater is called with.
Contexts ==
    [price : Int, zero : Int, margin : Int, follower : Int, atr : Nat, spread : Nat \ {0},
     epp : Int, mind : Nat, sign : {1, -1}, group : SUBSET Int, candles : Seq(Sound)]

\* Levels short of the price, and those of them that tighten the stop.
Behind(x, L) ==
    /\ IsFiniteSet(L)
    /\ \A l \in L : l \in Int /\ x.sign * (x.price - l) > 0

Fair(x, L) ==
    /\ Behind(x, L)
    /\ \A l \in L : x.follower > 0 => x.sign * (l - x.follower) > 0

LEMMA ContextIs ==
    ASSUME NEW x \in Contexts
    PROVE  /\ x.price \in Int /\ x.zero \in Int /\ x.margin \in Int /\ x.follower \in Int
           /\ x.atr \in Nat /\ x.spread \in Nat /\ x.spread > 0 /\ x.epp \in Int /\ x.mind \in Nat
           /\ x.sign \in {1, -1} /\ x.sign \in Int /\ x.candles \in Seq(Sound)
BY DEF Contexts

LEMMA EmptyFair ==
    ASSUME NEW x
    PROVE  Behind(x, {}) /\ Fair(x, {})
BY FS_EmptySet DEF Behind, Fair

LEMMA SubsetFair ==
    ASSUME NEW x, NEW L, NEW K \in SUBSET L
    PROVE  (Behind(x, L) => Behind(x, K)) /\ (Fair(x, L) => Fair(x, K))
<1>1. IsFiniteSet(L) => IsFiniteSet(K)
  BY FS_Subset
<1> QED BY <1>1 DEF Behind, Fair

LEMMA UnionFair ==
    ASSUME NEW x, NEW L, NEW K
    PROVE  /\ Behind(x, L) /\ Behind(x, K) => Behind(x, L \cup K)
           /\ Fair(x, L) /\ Fair(x, K) => Fair(x, L \cup K)
<1>1. IsFiniteSet(L) /\ IsFiniteSet(K) => IsFiniteSet(L \cup K)
  BY FS_Union
<1> QED BY <1>1 DEF Behind, Fair

LEMMA OneBehind ==
    ASSUME NEW x, NEW l \in Int, x.sign * (x.price - l) > 0
    PROVE  Behind(x, {l})
<1>1. IsFiniteSet({l})
  BY FS_Singleton
<1> QED BY <1>1 DEF Behind

\* The guard every updater repeats.
LEMMA TighteningFair ==
    ASSUME NEW x, NEW L, Behind(x, L)
    PROVE  Fair(x, Tightening(x, L))
<1>1. Tightening(x, L) \in SUBSET L
  BY DEF Tightening
<1>2. Behind(x, Tightening(x, L))
  BY <1>1, SubsetFair
<1> QED BY <1>2 DEF Fair, Tightening, Beyond

LEMMA PickedFair ==
    ASSUME NEW x, NEW L
    PROVE  /\ Behind(x, L) => Behind(x, Furthest(x, L))
           /\ Fair(x, L) => Fair(x, Furthest(x, L))
<1>1. Furthest(x, L) \in SUBSET L
  BY DEF Furthest
<1> QED BY <1>1, SubsetFair

LEMMA NoiseIs ==
    ASSUME NEW x \in Contexts
    PROVE  /\ Noise(x) \in Nat
           /\ FavourableCloses(x) \in Seq(Int) /\ Len(FavourableCloses(x)) = Len(x.candles)
<1>1. x.candles \in Seq(Sound) /\ x.sign \in {1, -1}
  BY ContextIs
<1>2. Favourable(x.candles, x.sign) \in Seq(Int)
      /\ Len(Favourable(x.candles, x.sign)) = Len(x.candles)
  BY <1>1, SeriesAre
<1>3. Windows.noise \in Nat \ {0}
  BY WindowsAre
<1>4. AdverseNoise(Favourable(x.candles, x.sign), Windows.noise) \in Nat
  BY <1>2, <1>3, AdverseNoiseIs
<1> QED
  BY <1>2, <1>4 DEF Noise, FavourableCloses

\* Zone 1.
LEMMA TrendCutFair ==
    ASSUME NEW x \in Contexts
    PROVE  Fair(x, TrendCut(x))
<1> DEFINE risk == -Gain(x, x.follower)
           cut == Offset(x, x.zero, -(risk \div 2))
           close == Offset(x, x.price, -x.spread)
           L == {l \in Nearest(x, {cut, close}) : Beyond(x, l, x.follower)}
<1>1. cut \in Int /\ close \in Int
  <2>1. risk \in Int
    BY ContextIs DEF Gain
  <2>2. risk \div 2 \in Int
    <3> HIDE DEF risk
    <3> QED BY <2>1
  <2> HIDE DEF risk
  <2> QED BY <2>2, ContextIs DEF Offset
<1> HIDE DEF cut
<1>2. IsFiniteSet({cut, close})
  <2>1. IsFiniteSet({cut}) /\ IsFiniteSet({close})
    BY FS_Singleton
  <2>2. IsFiniteSet({cut} \cup {close}) /\ {cut} \cup {close} = {cut, close}
    BY <2>1, FS_Union
  <2> QED BY <2>2
<1>3. L \in SUBSET {cut, close} /\ \A l \in L : /\ Gain(x, l) =< Gain(x, close)
                                               /\ Beyond(x, l, x.follower)
  BY DEF Nearest
<1>4. \A l \in L : x.sign * (x.price - l) > 0
  <2> SUFFICES ASSUME NEW l \in L PROVE x.sign * (x.price - l) > 0
    OBVIOUS
  <2>1. l \in Int /\ x.sign * (l - x.zero) =< x.sign * ((x.price + x.sign * (-x.spread)) - x.zero)
    BY <1>1, <1>3 DEF Gain, Offset
  <2> HIDE DEF L
  <2>2. CASE x.sign = 1
    BY <2>1, <2>2, ContextIs
  <2>3. CASE x.sign = -1
    BY <2>1, <2>3, ContextIs
  <2> QED BY <2>2, <2>3, ContextIs
<1>5. Fair(x, L)
  <2>1. IsFiniteSet(L)
    BY <1>2, <1>3, FS_Subset
  <2>2. \A l \in L : l \in Int
    BY <1>1, <1>3
  <2>3. \A l \in L : x.sign * (l - x.follower) > 0
    BY <1>3 DEF Beyond
  <2> HIDE DEF L
  <2> QED BY <1>4, <2>1, <2>2, <2>3 DEF Fair, Behind
<1>6. TrendCut(x) = {} \/ TrendCut(x) = L
  BY DEF TrendCut, When, cut
<1> QED
  BY <1>5, <1>6, EmptyFair

LEMMA TimedLiftFair ==
    ASSUME NEW x \in Contexts
    PROVE  Fair(x, TimedLift(x))
<1> DEFINE window == ReviewWindow(x.candles)
           support == x.sign * Min({x.sign * Adverse(x.candles[i], x.sign) : i \in window})
           cushion == Max({Noise(x), x.atr \div 2, x.spread})
           lifted == Offset(x, support, -cushion)
           safety == Max({2 * Noise(x), x.atr, 2 * x.spread, x.mind})
           guard == /\ x.follower > 0 /\ Gain(x, x.follower) < 0
                    /\ x.candles # <<>> /\ window # {}
           L == {l \in {lifted} : /\ Gain(x, l) < 0
                                  /\ 4 * x.sign * (l - x.follower) > x.atr
                                  /\ x.sign * (x.price - l) >= safety}
<1>1. TimedLift(x) = IF guard THEN L ELSE {}
  BY DEF TimedLift, When
<1>2. SUFFICES ASSUME guard PROVE Fair(x, L)
  BY <1>1, EmptyFair
<1>3. window \subseteq DOMAIN x.candles
  BY DEF ReviewWindow
<1>4. support \in Int
  <2> DEFINE f == [i \in window |-> x.sign * Adverse(x.candles[i], x.sign)]
             R == {f[i] : i \in DOMAIN f}
  <2>1. IsFiniteSet(window)
    <3>1. IsFiniteSet(DOMAIN x.candles)
      BY ContextIs, SequenceFinite
    <3> QED BY <1>3, <3>1, FS_Subset
  <2>2. \A i \in window : f[i] \in Int
    <3> SUFFICES ASSUME NEW i \in window PROVE f[i] \in Int
      OBVIOUS
    <3>1. x.candles[i] \in Sound
      BY <1>3, ContextIs
    <3>2. Adverse(x.candles[i], x.sign) \in Int
      BY <3>1, SoundIs, ContextIs DEF Adverse
    <3> QED BY <3>2, ContextIs
  <2>3. R = {x.sign * Adverse(x.candles[i], x.sign) : i \in window}
    OBVIOUS
  <2>4. DOMAIN f = window
    OBVIOUS
  <2> HIDE DEF f
  <2>5. IsFiniteSet(R)
    BY <2>1, <2>4, ImageFinite
  <2>6. R # {} /\ R \subseteq Int
    BY <1>2, <2>2, <2>4
  <2>7. Min(R) \in Int
    <3> HIDE DEF R
    <3> QED BY <2>5, <2>6, MinIs
  <2> HIDE DEF R
  <2> PICK m \in Int : m = Min({x.sign * Adverse(x.candles[i], x.sign) : i \in window})
    BY <2>3, <2>7
  <2>8. support = x.sign * m
    OBVIOUS
  <2> HIDE DEF support
  <2> QED BY <2>8, ContextIs
<1> HIDE DEF support
<1>5. cushion \in Int
  <2> PICK a \in Int : a = x.atr \div 2
    BY ContextIs
  <2> PICK b \in Int : b = Noise(x)
    BY NoiseIs
  <2> PICK c \in Int : c = x.spread
    BY ContextIs
  <2>1. Max({b, a, c}) \in Int
    BY MaxOfThree
  <2> QED BY <2>1
<1> HIDE DEF cushion
<1>6. lifted \in Int
  BY <1>4, <1>5, ContextIs DEF Offset
<1> HIDE DEF lifted
<1>7. safety \in Int /\ safety > 0
  <2> PICK a \in Int : a = x.atr
    BY ContextIs
  <2> PICK b \in Int : b = 2 * Noise(x)
    BY NoiseIs
  <2> PICK c \in Int : c = 2 * x.spread /\ c > 0
    BY ContextIs
  <2> PICK d \in Int : d = x.mind
    BY ContextIs
  <2>1. IsFiniteSet({b}) /\ IsFiniteSet({a}) /\ IsFiniteSet({c}) /\ IsFiniteSet({d})
    BY FS_Singleton
  <2>2. IsFiniteSet({b} \cup {a}) /\ IsFiniteSet({c} \cup {d})
    BY <2>1, FS_Union
  <2>3. IsFiniteSet(({b} \cup {a}) \cup ({c} \cup {d}))
    BY <2>2, FS_Union
  <2>4. ({b} \cup {a}) \cup ({c} \cup {d}) = {b, a, c, d}
    OBVIOUS
  <2>5. Max({b, a, c, d}) \in Int /\ c =< Max({b, a, c, d})
    <3> PICK S : S = {b, a, c, d}
      OBVIOUS
    <3>1. IsFiniteSet(S) /\ S # {} /\ S \subseteq Int /\ c \in S
      BY <2>3, <2>4
    <3>2. Max(S) \in Int /\ c =< Max(S)
      BY <3>1, MaxIs
    <3> QED BY <3>2
  <2> QED BY <2>5
<1> HIDE DEF safety
<1>8. \A l \in L : /\ l \in Int /\ x.sign * (x.price - l) > 0
                   /\ x.sign * (l - x.follower) > 0
  <2> SUFFICES ASSUME NEW l \in L
               PROVE  l \in Int /\ x.sign * (x.price - l) > 0 /\ x.sign * (l - x.follower) > 0
    OBVIOUS
  <2>1. l \in Int /\ 4 * x.sign * (l - x.follower) > x.atr /\ x.sign * (x.price - l) >= safety
    BY <1>6
  <2>2. x.sign * (x.price - l) > 0
    BY <1>7, <2>1, ContextIs
  <2>3. CASE x.sign = 1
    BY <2>1, <2>2, <2>3, ContextIs
  <2>4. CASE x.sign = -1
    BY <2>1, <2>2, <2>4, ContextIs
  <2> QED BY <2>3, <2>4, ContextIs
<1>9. IsFiniteSet(L)
  <2>1. IsFiniteSet({lifted}) /\ L \in SUBSET {lifted}
    BY FS_Singleton
  <2> QED BY <2>1, FS_Subset
<1> HIDE DEF L
<1> QED
  BY <1>8, <1>9 DEF Fair, Behind

\* Zone 2.
LEMMA LockLevelBehind ==
    ASSUME NEW x \in Contexts
    PROVE  Behind(x, LockLevel(x))
<1> DEFINE closes == FavourableCloses(x)
           zero == x.sign * x.zero
           swing == Lowest(LastN(closes, Windows.confirm))
           target == Max({zero + Tenths(6, swing - zero), zero + x.spread})
           guard == /\ Len(closes) >= Windows.confirm
                    /\ swing - 2 * Noise(x) > zero
                    /\ target < x.sign * x.price
<1>1. LockLevel(x) = IF guard THEN {x.sign * target} ELSE {}
  BY DEF LockLevel, When
<1>2. SUFFICES ASSUME guard PROVE Behind(x, {x.sign * target})
  BY <1>1, EmptyFair
<1>3. zero \in Int
  BY ContextIs
<1>4. swing \in Int
  <2> PICK c \in Seq(Int) : c = closes
    BY NoiseIs
  <2>1. Windows.confirm \in Nat \ {0} /\ Len(c) >= Windows.confirm
    BY <1>2, WindowsAre
  <2>2. c # <<>>
    BY <2>1
  <2>3. LastN(c, Windows.confirm) \in Seq(Int) /\ LastN(c, Windows.confirm) # <<>>
    BY <2>1, <2>2, LastNIs
  <2>4. Lowest(LastN(c, Windows.confirm)) \in Int
    BY <2>3, ExtremesAre
  <2> QED BY <2>4
<1> HIDE DEF swing
<1>5. target \in Int
  <2> PICK t \in Int : t = zero + Tenths(6, swing - zero)
    <3>1. swing - zero \in Int /\ 6 \in Int
      BY <1>3, <1>4
    <3>2. Tenths(6, swing - zero) \in Int
      BY <3>1, TenthsIs
    <3> QED BY <1>3, <3>2
  <2> PICK u \in Int : u = zero + x.spread
    BY <1>3, ContextIs
  <2>1. Max({t, u}) \in Int
    BY MaxOfTwo
  <2> QED BY <2>1
<1> HIDE DEF target
<1>6. x.sign * target \in Int /\ x.sign * (x.price - x.sign * target) > 0
  <2>1. target < x.sign * x.price
    BY <1>2
  <2>2. CASE x.sign = 1
    BY <1>5, <2>1, <2>2, ContextIs
  <2>3. CASE x.sign = -1
    BY <1>5, <2>1, <2>3, ContextIs
  <2> QED BY <2>2, <2>3, ContextIs
<1> QED
  BY <1>6, OneBehind

LEMMA BreakevenLockFair ==
    ASSUME NEW x \in Contexts
    PROVE  Fair(x, BreakevenLock(x))
BY LockLevelBehind, TighteningFair DEF BreakevenLock

LEMMA BehindPriceIs ==
    ASSUME NEW x, NEW L, IsFiniteSet(L), L \subseteq Int
    PROVE  Behind(x, BehindPrice(x, L))
<1>1. BehindPrice(x, L) \in SUBSET L
  BY DEF BehindPrice
<1>2. IsFiniteSet(BehindPrice(x, L))
  BY <1>1, FS_Subset
<1> QED BY <1>1, <1>2 DEF Behind, BehindPrice, Beyond

LEMMA BreakevenSafeFair ==
    ASSUME NEW x \in Contexts
    PROVE  Fair(x, BreakevenSafe(x))
<1> DEFINE guard == /\ Gain(x, x.follower) =< 0
                    /\ RisingStreak(x, 2) /\ ~LastBarAdverse(x)
           a == When(x.epp > 0, {GainTarget \div x.epp})
           b == When(PriceRange(x) > 0, {(RangePercent * PriceRange(x)) \div 100})
           near == Nearest(x, SafeLevels(x))
<1>1. BreakevenSafe(x) = IF guard THEN Tightening(x, BehindPrice(x, near)) ELSE {}
  BY DEF BreakevenSafe, When
<1>2. SUFFICES ASSUME guard PROVE Fair(x, Tightening(x, BehindPrice(x, near)))
  BY <1>1, EmptyFair
<1>3. PriceRange(x) \in Int
  <2>1. x.candles \in Seq(Sound) /\ Len(x.candles) > 2 /\ 1 \in {1, -1}
    BY <1>2, ContextIs DEF RisingStreak
  <2> PICK f : f = [i \in DOMAIN x.candles |-> x.candles[i].high]
    OBVIOUS
  <2> PICK g : g = [i \in DOMAIN x.candles |-> x.candles[i].low]
    OBVIOUS
  <2>2. f \in Seq(Int) /\ g \in Seq(Int)
    BY <2>1, SeriesAre
  <2>3. f # <<>> /\ g # <<>>
    <3>1. 1 \in DOMAIN x.candles
      BY <2>1
    <3>2. DOMAIN f = DOMAIN x.candles /\ DOMAIN g = DOMAIN x.candles
      OBVIOUS
    <3> QED BY <3>1, <3>2
  <2>4. Highest(f) \in Int /\ Lowest(g) \in Int
    BY <2>2, <2>3, ExtremesAre
  <2> QED BY <2>4 DEF PriceRange
<1>4. IsFiniteSet(a) /\ a \subseteq Int /\ IsFiniteSet(b) /\ b \subseteq Int
  <2>1. GainTarget \in Int /\ RangePercent \in Int
    BY LockAssumption
  <2>2. x.epp > 0 => GainTarget \div x.epp \in Int
    BY <2>1, ContextIs
  <2>3. (RangePercent * PriceRange(x)) \div 100 \in Int
    BY <1>3, <2>1
  <2>4. a = {} \/ (x.epp > 0 /\ a = {GainTarget \div x.epp})
    BY DEF When
  <2> PICK r \in Int : r = (RangePercent * PriceRange(x)) \div 100
    BY <2>3
  <2>5. b = {} \/ b = {r}
    BY DEF When
  <2> HIDE DEF a, b
  <2>6. IsFiniteSet(a)
    BY <2>4, FS_EmptySet, FS_Singleton
  <2>7. IsFiniteSet(b)
    <3>1. IsFiniteSet({r}) /\ IsFiniteSet({})
      BY FS_EmptySet, FS_Singleton
    <3> QED BY <2>5, <3>1
  <2> QED BY <2>2, <2>4, <2>5, <2>6, <2>7
<1>5. IsFiniteSet(SafeLevels(x)) /\ SafeLevels(x) \subseteq Int
  <2> DEFINE S == a \cup b
             f == [d \in S |-> Offset(x, x.zero, d)]
  <2>1. SafeLevels(x) = {f[d] : d \in DOMAIN f}
    BY DEF SafeLevels
  <2>2. IsFiniteSet(S) /\ S \subseteq Int
    <3> HIDE DEF a, b
    <3> QED BY <1>4, FS_Union
  <2> HIDE DEF S
  <2>3. \A d \in S : f[d] \in Int
    BY <2>2, ContextIs DEF Offset
  <2>4. DOMAIN f = S
    OBVIOUS
  <2> HIDE DEF f
  <2> QED BY <2>1, <2>2, <2>3, <2>4, ImageFinite
<1>6. near \in SUBSET SafeLevels(x)
  BY DEF Nearest
<1>7. IsFiniteSet(near) /\ near \subseteq Int
  BY <1>5, <1>6, FS_Subset
<1> HIDE DEF near
<1> QED
  BY <1>7, BehindPriceIs, TighteningFair

LEMMA CushionIs ==
    ASSUME NEW x \in Contexts, NEW d \in Int, d > 0
    PROVE  Behind(x, {Offset(x, x.price, -d)})
<1> PICK l \in Int : l = Offset(x, x.price, -d)
  BY ContextIs DEF Offset
<1>1. x.sign * (x.price - l) > 0
  <2>1. l = x.price + x.sign * (-d)
    BY DEF Offset
  <2>2. CASE x.sign = 1
    BY <2>1, <2>2, ContextIs
  <2>3. CASE x.sign = -1
    BY <2>1, <2>3, ContextIs
  <2> QED BY <2>2, <2>3, ContextIs
<1> QED
  BY <1>1, OneBehind

LEMMA LimitLooseFair ==
    ASSUME NEW x \in Contexts
    PROVE  Fair(x, LimitLoose(x))
<1> PICK a \in Int : a = 2 * Noise(x)
  BY NoiseIs
<1> PICK b \in Int : b = x.mind
  BY ContextIs
<1> PICK c \in Int : c = Max({a, b})
  BY MaxOfTwo
<1>1. LimitLoose(x) = IF c > 0 THEN Tightening(x, {Offset(x, x.price, -c)}) ELSE {}
  BY DEF LimitLoose, When
<1>2. c > 0 => Fair(x, Tightening(x, {Offset(x, x.price, -c)}))
  BY CushionIs, TighteningFair
<1> QED
  BY <1>1, <1>2, EmptyFair

\* Zone 3.
LEMMA BreakevenHalfFair ==
    ASSUME NEW x \in Contexts
    PROVE  Fair(x, BreakevenHalf(x))
<1> PICK l \in Int : l = x.zero + (x.margin - x.zero) \div 2
  BY ContextIs
<1>1. BreakevenHalf(x) \in {{}, Tightening(x, BehindPrice(x, {l}))}
  BY DEF BreakevenHalf, When
<1>2. IsFiniteSet({l}) /\ {l} \subseteq Int
  BY FS_Singleton
<1>3. Fair(x, Tightening(x, BehindPrice(x, {l})))
  BY <1>2, BehindPriceIs, TighteningFair
<1> QED
  BY <1>1, <1>3, EmptyFair

\* Zone 4.
LEMMA ChandelierBehind ==
    ASSUME NEW x \in Contexts, NEW k \in Int
    PROVE  Behind(x, Chandelier(x, k))
<1> PICK a \in Int : a = Tenths(k, x.atr)
  <2> PICK z \in Int : z = x.atr
    BY ContextIs
  <2>1. Tenths(k, z) \in Int
    BY TenthsIs
  <2> QED BY <2>1
<1> PICK b \in Int : b = 2 * x.spread /\ b > 0
  BY ContextIs
<1> PICK c \in Int : c = 2 * Noise(x)
  BY NoiseIs
<1> PICK d \in Int : d = TrailingDistance(x, k) /\ d > 0
  <2>1. TrailingDistance(x, k) = Max({a, b, c})
    BY DEF TrailingDistance
  <2>2. Max({a, b, c}) \in Int /\ Max({a, b, c}) >= b
    BY MaxOfThree
  <2>3. Max({a, b, c}) > 0
    <3> PICK m \in Int : m = Max({a, b, c})
      BY <2>2
    <3>1. m >= b
      BY <2>2
    <3>2. m > 0
      BY <3>1
    <3> QED BY <3>2
  <2> QED BY <2>1, <2>2, <2>3
<1>1. Chandelier(x, k) \in SUBSET {Offset(x, x.price, -d)}
  BY DEF Chandelier
<1>2. Behind(x, {Offset(x, x.price, -d)})
  BY CushionIs
<1> QED
  BY <1>1, <1>2, SubsetFair

LEMMA RatchetFair ==
    ASSUME NEW x \in Contexts, NEW k \in Int
    PROVE  Fair(x, Ratchet(x, k))
<1> PICK L : L = Chandelier(x, k) \cup LockLevel(x)
  OBVIOUS
<1>1. Behind(x, L)
  BY ChandelierBehind, LockLevelBehind, UnionFair
<1>2. Fair(x, Tightening(x, Furthest(x, L)))
  BY <1>1, PickedFair, TighteningFair
<1>3. Ratchet(x, k) \in {{}, Tightening(x, Furthest(x, L))}
  BY DEF Ratchet, When
<1> QED
  BY <1>2, <1>3, EmptyFair

LEMMA TrailingRatchetFair ==
    ASSUME NEW x \in Contexts
    PROVE  Fair(x, TrailingRatchet(x))
<1>1. 25 \in Int
  OBVIOUS
<1> QED
  BY <1>1, RatchetFair DEF TrailingRatchet

LEMMA PeakIs ==
    ASSUME NEW x \in Contexts
    PROVE  /\ PeakGain(x) \in Int
           /\ PeakGain(x) # 0 => x.atr > 0
<1> DEFINE peak == Highest(FavourableCloses(x)) - x.sign * x.zero
<1>1. PeakGain(x) = IF x.candles # <<>> /\ x.atr > 0 /\ peak >= x.atr THEN peak ELSE 0
  BY DEF PeakGain
<1>2. x.candles # <<>> => peak \in Int
  <2> SUFFICES ASSUME x.candles # <<>> PROVE peak \in Int
    OBVIOUS
  <2> PICK c \in Seq(Int) : c = FavourableCloses(x) /\ Len(c) = Len(x.candles)
    BY NoiseIs
  <2>1. c # <<>>
    <3>1. Len(x.candles) # 0
      BY ContextIs
    <3> QED BY <3>1
  <2>2. Highest(c) \in Int
    BY <2>1, ExtremesAre
  <2> QED BY <2>2, ContextIs
<1> HIDE DEF peak
<1> QED
  BY <1>1, <1>2, ContextIs

LEMMA NarrowedIs ==
    ASSUME NEW x \in Contexts
    PROVE  NarrowedWidth(x) \in Int
<1> PICK p \in Int : p = PeakGain(x) /\ (p # 0 => x.atr > 0)
  BY PeakIs
<1>1. CASE p = 0
  BY <1>1 DEF NarrowedWidth
<1>2. CASE p # 0
  <2> PICK a \in Nat : a = x.atr /\ a > 0
    BY <1>2, ContextIs
  <2> PICK q \in Int : q = 25 - (5 * (p - a)) \div (2 * a)
    <3> PICK u \in Int : u = 5 * (p - a)
      OBVIOUS
    <3> PICK v \in Nat : v = 2 * a /\ v > 0
      OBVIOUS
    <3>1. u \div v \in Int
      OBVIOUS
    <3> QED BY <3>1
  <2> PICK w \in Int : w = 12
    OBVIOUS
  <2>1. Max({w, q}) \in Int
    BY MaxOfTwo
  <2> QED BY <1>2, <2>1 DEF NarrowedWidth
<1> QED
  BY <1>1, <1>2

LEMMA GiveBackBehind ==
    ASSUME NEW x \in Contexts
    PROVE  Behind(x, GiveBack(x))
<1> PICK l \in Int : l = Offset(x, x.zero, PeakGain(x) \div 2)
  <2> PICK h \in Int : h = PeakGain(x) \div 2
    BY PeakIs
  <2>1. Offset(x, x.zero, h) \in Int
    BY ContextIs DEF Offset
  <2> QED BY <2>1
<1>1. IsFiniteSet({l}) /\ {l} \subseteq Int
  BY FS_Singleton
<1>2. Behind(x, BehindPrice(x, {l}))
  BY <1>1, BehindPriceIs
<1>3. GiveBack(x) \in SUBSET BehindPrice(x, {l})
  BY DEF GiveBack
<1> QED
  BY <1>2, <1>3, SubsetFair

LEMMA TrailingRatchetMoreFair ==
    ASSUME NEW x \in Contexts
    PROVE  Fair(x, TrailingRatchetMore(x))
<1> PICK k \in Int : k = NarrowedWidth(x)
  BY NarrowedIs
<1> PICK L : L = Ratchet(x, k) \cup GiveBack(x)
  OBVIOUS
<1>1. Behind(x, Ratchet(x, k))
  BY RatchetFair DEF Fair
<1>2. Behind(x, L)
  BY <1>1, GiveBackBehind, UnionFair
<1>3. Fair(x, Tightening(x, Furthest(x, L)))
  BY <1>2, PickedFair, TighteningFair
<1> QED
  BY <1>3 DEF TrailingRatchetMore

\* Every stop updater, in whatever zone it is called.
LEMMA ProposalFair ==
    ASSUME NEW x \in Contexts, Fair(x, x.group),
           NEW u \in StartUpdaters \cup BandUpdaters \cup SecureUpdaters \cup ProfitUpdaters
    PROVE  Fair(x, Proposal(u, x))
BY TrendCutFair, TimedLiftFair, BreakevenLockFair, BreakevenSafeFair, LimitLooseFair,
   BreakevenHalfFair, TrailingRatchetFair, TrailingRatchetMoreFair, EmptyFair
   DEF Proposal, StartUpdaters, BandUpdaters, SecureUpdaters, ProfitUpdaters

LEMMA NewStopFair ==
    ASSUME NEW x \in Contexts, Fair(x, x.group), NEW p, NEW profile_,
           profile_.start \in StartUpdaters, profile_.band \in BandUpdaters,
           profile_.secure \in SecureUpdaters, profile_.profit \in ProfitUpdaters
    PROVE  /\ Fair(x, OwnProposal(profile_, p, x))
           /\ Fair(x, NewStop(profile_, p, x))
<1> PICK z : z = Zone(p, x.price, x.margin)
  OBVIOUS
<1>1. z \in {"start", "band", "secure", "profit"}
  BY DEF Zone
<1>2. ZoneUpdater(profile_, z) \in
        StartUpdaters \cup BandUpdaters \cup SecureUpdaters \cup ProfitUpdaters
  BY <1>1 DEF ZoneUpdater
<1>3. Fair(x, OwnProposal(profile_, p, x))
  BY <1>2, ProposalFair DEF OwnProposal
<1> PICK own : own = OwnProposal(profile_, p, x)
  OBVIOUS
<1>4. Fair(x, Furthest(x, own \cup x.group))
  BY <1>3, UnionFair, PickedFair
<1> QED
  BY <1>3, <1>4 DEF NewStop, WithGroup

-----------------------------------------------------------------------------
(***************************************************************************)
(* The day's candles, and the positions.                                   *)
(***************************************************************************)

Buffers == Seq(Sound) \ {<<>>}

LEMMA CandleAtIs ==
    ASSUME NEW time \in Int, NEW close \in Int, NEW h \in CandleShapes
    PROVE  CandleAt(time, close, h) \in Sound
<1> PICK o \in Int : o = close + h.gap
  BY DEF CandleShapes
<1> PICK c \in Int : c = o + h.body
  BY DEF CandleShapes
<1>1. h.up \in Nat /\ h.down \in Nat /\ SpreadWidth \in Nat /\ SpreadWidth > 0
  BY DayAssumption DEF CandleShapes
<1>2. Max({o, c}) \in Int /\ Max({o, c}) >= c /\ Min({o, c}) \in Int /\ Min({o, c}) =< c
  BY MaxOfTwo
<1> PICK a \in Int : a = Max({o, c}) + h.up
  BY <1>1, <1>2
<1> PICK b \in Int : b = Min({o, c}) - h.down
  BY <1>1, <1>2
<1>3. a >= c /\ b =< c
  BY <1>1, <1>2
<1>4. CandleAt(time, close, h) = [time |-> time, open |-> o, close |-> c, spread |-> SpreadWidth,
                                  high |-> a, low |-> b]
  BY DEF CandleAt
<1> QED
  BY <1>1, <1>3, <1>4 DEF Sound

LEMMA LastIs ==
    ASSUME NEW s \in Buffers
    PROVE  /\ s \in Seq(Sound) /\ s # <<>> /\ s[Len(s)] \in Sound
           /\ LastCandle(s) = s[Len(s)]
           /\ LastClose(s) = s[Len(s)].close /\ LastClose(s) \in Int
<1>1. s \in Seq(Sound) /\ s # <<>>
  BY DEF Buffers
<1>2. s[Len(s)] \in Sound
  BY <1>1, SequenceFinite
<1> QED
  BY <1>1, <1>2, SoundIs DEF LastCandle, LastClose

\* A buffer takes a candle and forgets the oldest one.
LEMMA PushedIs ==
    ASSUME NEW s \in Seq(Sound), NEW c \in Sound
    PROVE  /\ LastN(Append(s, c), MaxBuffer) \in Buffers
           /\ LastCandle(LastN(Append(s, c), MaxBuffer)) = c
<1> PICK t : t = Append(s, c)
  OBVIOUS
<1>1. t \in Seq(Sound) /\ t # <<>> /\ t[Len(t)] = c
  OBVIOUS
<1>2. MaxBuffer \in Nat \ {0}
  BY DayAssumption
<1>3. /\ LastN(t, MaxBuffer) \in Seq(Sound) /\ LastN(t, MaxBuffer) # <<>>
      /\ LastN(t, MaxBuffer)[Len(LastN(t, MaxBuffer))] = c
  BY <1>1, <1>2, LastNIs
<1> QED
  BY <1>3 DEF Buffers, LastCandle

LEMMA WarmedIs ==
    Warmed \in Buffers
<1> DEFINE V == Buffers
           keep(i, v) == Append(v, CandleAt(i, LastClose(v), Opening[i]))
           first == <<CandleAt(1, FirstClose, Opening[1])>>
           rec(f) == [i \in 1..Len(Opening) |-> IF i = 1 THEN first ELSE keep(i, f[i - 1])]
           st == [i \in (1 + 1)..Len(Opening) |-> [v \in V |-> keep(i, v)]]
<1> PICK n \in Nat : n = Len(Opening) /\ n >= 1
  BY DayAssumption
<1>1. \A i \in 1..n : Opening[i] \in CandleShapes
  BY DayAssumption
<1>2. \A i \in 1..n, v \in V : keep(i, v) \in V
  <2> SUFFICES ASSUME NEW i \in 1..n, NEW v \in V PROVE keep(i, v) \in V
    OBVIOUS
  <2>1. v \in Seq(Sound) /\ LastClose(v) \in Int
    BY LastIs
  <2> PICK c : c = CandleAt(i, LastClose(v), Opening[i])
    OBVIOUS
  <2>2. c \in Sound
    <3>1. i \in Int /\ Opening[i] \in CandleShapes
      BY <1>1
    <3> QED BY <2>1, <3>1, CandleAtIs
  <2>3. Append(v, c) \in Seq(Sound) /\ Append(v, c) # <<>>
    BY <2>1, <2>2
  <2> QED BY <2>3 DEF Buffers
<1>3. first \in V
  <2>1. 1 \in Int /\ FirstClose \in Int /\ Opening[1] \in CandleShapes
    BY <1>1, DayAssumption
  <2> PICK c \in Sound : c = CandleAt(1, FirstClose, Opening[1])
    BY <2>1, CandleAtIs
  <2>2. <<c>> \in Seq(Sound) /\ <<c>> # <<>>
    OBVIOUS
  <2> QED BY <2>2 DEF Buffers
<1> HIDE DEF keep, V, first
<1>4. st \in [(1 + 1)..n -> [V -> V]]
  BY <1>2
<1>5. PICK f \in [1..n -> V] : RunsBy(f, first, 1, n, st)
  <2> HIDE DEF st
  <2>1. \A a \in V, b \in Nat : \A t \in [(b + 1)..n -> [V -> V]] :
           b =< n => \E f \in [b..n -> V] : RunsBy(f, a, b, n, t)
    <3> TAKE a \in V, b \in Nat
    <3> TAKE t \in [(b + 1)..n -> [V -> V]]
    <3> QED BY RecursionExists
  <2> QED BY <1>3, <1>4, <2>1
<1>6. f = rec(f)
  <2>1. \A i \in 1..n : f[i] = IF i = 1 THEN first ELSE keep(i, f[i - 1])
    <3> SUFFICES ASSUME NEW i \in 1..n, i # 1 PROVE f[i] = keep(i, f[i - 1])
      BY <1>5 DEF RunsBy
    <3>1. i \in (1 + 1)..n /\ i - 1 \in 1..n
      OBVIOUS
    <3>2. f[i] = st[i][f[i - 1]] /\ f[i - 1] \in V
      BY <1>5, <3>1 DEF RunsBy
    <3> QED BY <3>1, <3>2
  <2> HIDE DEF st
  <2>2. DOMAIN f = 1..n
    OBVIOUS
  <2> QED BY <2>1, <2>2
<1> DEFINE k == CHOOSE h : h = rec(h)
<1>7. k = rec(k)
  <2> HIDE DEF rec
  <2> QED BY <1>6
<1>8. Warmed = LastN(k[n], MaxBuffer)
  BY DEF Warmed, keep, first
<1> HIDE DEF k
<1>9. k[1] \in V
  <2>1. 1 \in 1..Len(Opening)
    OBVIOUS
  <2> QED BY <1>3, <1>7, <2>1
<1>10. \A i \in (1 + 1)..n : k[i - 1] \in V => k[i] \in V
  <2> SUFFICES ASSUME NEW i \in (1 + 1)..n, k[i - 1] \in V PROVE k[i] \in V
    OBVIOUS
  <2>1. i \in 1..Len(Opening) /\ i # 1
    OBVIOUS
  <2>2. k[i] = keep(i, k[i - 1])
    BY <1>7, <2>1
  <2> QED BY <1>2, <2>1, <2>2
<1> HIDE DEF rec, st
<1>11. k[n] \in V
  <2>1. n \in 1..n
    OBVIOUS
  <2>2. \A b \in Nat : /\ k[b] \in V
                       /\ \A i \in (b + 1)..n : k[i - 1] \in V => k[i] \in V
                       => \A i \in b..n : k[i] \in V
    <3> TAKE b \in Nat
    <3> QED BY RecursionHolds
  <2> QED BY <1>9, <1>10, <2>1, <2>2
<1>12. k[n] \in Seq(Sound) /\ k[n] # <<>> /\ MaxBuffer \in Nat \ {0}
  BY <1>11, DayAssumption DEF Buffers, V
<1>13. LastN(k[n], MaxBuffer) \in Seq(Sound) /\ LastN(k[n], MaxBuffer) # <<>>
  BY <1>12, LastNIs
<1> QED
  BY <1>8, <1>13 DEF Buffers

-----------------------------------------------------------------------------
Trades ==
    [sign : {1, -1}, open : Int, zero : Int, margin : Int, follower : Int, loose : Int,
     epp : {1}, mind : Nat, since : Int, opened : Int, updates : Int]

LEMMA TradeIs ==
    ASSUME NEW p \in Trades
    PROVE  /\ p.sign \in {1, -1} /\ p.sign \in Int /\ p.open \in Int /\ p.zero \in Int
           /\ p.margin \in Int /\ p.follower \in Int /\ p.loose \in Int /\ p.epp = 1
           /\ p.mind \in Nat /\ p.opened \in Int
BY DEF Trades

LEMMA CloseOutIs ==
    ASSUME NEW s \in Buffers, NEW sign \in {1, -1}
    PROVE  /\ CloseOut(LastCandle(s), sign) \in Int /\ Adverse(LastCandle(s), sign) \in Int
           /\ CloseOutPrice(LastClose(s), Spread(s), sign) = CloseOut(LastCandle(s), sign)
           /\ sign * (CloseOut(LastCandle(s), sign) - Adverse(LastCandle(s), sign)) >= 0
<1> PICK c \in Sound : c = LastCandle(s)
  BY LastIs
<1>1. c.close \in Int /\ c.high \in Int /\ c.low \in Int /\ c.spread \in Int
      /\ c.low =< c.close /\ c.close =< c.high
  BY SoundIs
<1>2. Spread(s) = c.spread /\ LastClose(s) = c.close
  BY LastIs, SpreadIs
<1> QED
  BY <1>1, <1>2 DEF CloseOut, Adverse, CloseOutPrice

LEMMA ContextOf ==
    ASSUME NEW p \in Trades, NEW s \in Buffers, NEW price \in Int, NEW group \in SUBSET Int
    PROVE  Context(p, price, s, group) \in Contexts
<1>1. s \in Seq(Sound) /\ s # <<>>
  BY LastIs
<1> PICK a \in Nat : a = AtrOf(s)
  BY <1>1, AtrOfIs
<1> PICK w \in Nat : w = Spread(s) /\ w > 0
  BY <1>1, SpreadIs
<1> PICK m \in Int : m = MarginOf(p, a)
  <2> PICK t \in Int : t = Tenths(15, a)
    <3>1. 15 \in Int /\ a \in Int
      OBVIOUS
    <3>2. Tenths(15, a) \in Int
      BY <3>1, TenthsIs
    <3> QED BY <3>2
  <2> QED BY TradeIs DEF MarginOf, NoiseMargin
<1> PICK q \in Seq(Sound) : q = SinceOpen(s, p)
  BY <1>1, SinceOpenIs
<1>2. Context(p, price, s, group) =
        [price |-> price, zero |-> p.zero, margin |-> m, follower |-> p.follower, atr |-> a,
         spread |-> w, epp |-> p.epp, mind |-> p.mind, sign |-> p.sign, group |-> group,
         candles |-> q]
  BY DEF Context
<1>3. /\ p.zero \in Int /\ p.follower \in Int /\ p.epp \in Int /\ p.mind \in Nat
      /\ p.sign \in {1, -1} /\ w \in Nat \ {0}
  BY TradeIs
<1> QED
  BY <1>2, <1>3 DEF Contexts

-----------------------------------------------------------------------------
(***************************************************************************)
(* What a position's profile decides.                                      *)
(***************************************************************************)

\* What a new stop of the position p must be, on its buffer s.
Sensible(p, s, L) ==
    /\ IsFiniteSet(L)
    /\ \A l \in L : /\ l \in Int
                    /\ p.sign * (CloseOut(LastCandle(s), p.sign) - l) > 0
                    /\ p.follower > 0 => p.sign * (l - p.follower) > 0

Profiled(f) ==
    /\ f.start \in StartUpdaters /\ f.band \in BandUpdaters
    /\ f.secure \in SecureUpdaters /\ f.profit \in ProfitUpdaters

LEMMA MemberIs ==
    ASSUME NEW p \in Trades, NEW s \in Buffers
    PROVE  LET m == GroupMember(p, LastClose(s), s)
           IN /\ m.price = CloseOut(LastCandle(s), p.sign) /\ m.sign = p.sign
              /\ m.follower = p.follower /\ m.open = p.open /\ m.epp = 1 /\ m.mind = p.mind
              /\ m.noise \in Nat /\ m.slip \in Int
              /\ Candidate(m) \in Int
<1> PICK noise \in Nat : noise = AdverseNoise(Favourable(s, p.sign), Windows.noise)
  <2>1. p.sign \in {1, -1} /\ s \in Seq(Sound)
    BY TradeIs, LastIs
  <2>2. Favourable(s, p.sign) \in Seq(Int) /\ Windows.noise \in Nat \ {0}
    BY <2>1, SeriesAre, WindowsAre
  <2> QED BY <2>2, AdverseNoiseIs
<1> PICK price \in Int : price = CloseOut(LastCandle(s), p.sign)
                         /\ price = CloseOutPrice(LastClose(s), Spread(s), p.sign)
  BY TradeIs, CloseOutIs
<1> PICK w \in Nat : w = Spread(s)
  BY LastIs, SpreadIs
<1> PICK md \in Nat : md = p.mind
  BY TradeIs
<1> PICK c \in Int : c = Max({noise, md})
  <2>1. noise \in Int /\ md \in Int
    OBVIOUS
  <2>2. Max({noise, md}) \in Int
    BY <2>1, MaxOfTwo
  <2> QED BY <2>2
<1> PICK slip \in Int : slip = (w + c) \div 2
  OBVIOUS
<1> PICK m : m = GroupMember(p, LastClose(s), s)
  OBVIOUS
<1>1. m = [price |-> price, noise |-> noise, mind |-> md, sign |-> p.sign, open |-> p.open,
           follower |-> p.follower, epp |-> p.epp, slip |-> slip]
  BY DEF GroupMember
<1>2. Candidate(m) = price - p.sign * c
  BY <1>1 DEF Candidate
<1>3. Candidate(m) \in Int
  BY <1>2, TradeIs
<1> QED
  BY <1>1, <1>3, TradeIs

\* A level of the plan is a member's candidate, and that candidate tightens.
LEMMA PlanIs ==
    ASSUME NEW members, NEW e, e \in DOMAIN GroupPlan(members)
    PROVE  /\ e \in DOMAIN members
           /\ GroupPlan(members)[e] = Candidate(members[e]) /\ Tightens(members[e])
<1> DEFINE movable == {i \in Priceable(members) : Tightens(members[i])}
<1>1. GroupPlan(members) = <<>> \/ GroupPlan(members) = [i \in movable |-> Candidate(members[i])]
  BY DEF GroupPlan
<1>2. DOMAIN GroupPlan(members) # {}
  OBVIOUS
<1>3. DOMAIN <<>> = {}
  OBVIOUS
<1>4. GroupPlan(members) = [i \in movable |-> Candidate(members[i])]
  BY <1>1, <1>2, <1>3
<1>5. e \in movable
  BY <1>4
<1> QED
  BY <1>4, <1>5 DEF Priceable

LEMMA GroupLevelIs ==
    ASSUME NEW book, NEW bufs, NEW e \in DOMAIN book, book[e] \in Trades, bufs[e] \in Buffers
    PROVE  Sensible(book[e], bufs[e], GroupLevel(GroupPlan(Members(book, bufs)), e))
<1> PICK p \in Trades : p = book[e]
  OBVIOUS
<1> PICK s \in Buffers : s = bufs[e]
  OBVIOUS
<1> PICK plan : plan = GroupPlan(Members(book, bufs))
  OBVIOUS
<1>1. Members(book, bufs)[e] = GroupMember(p, LastClose(s), s)
  BY DEF Members
<1> PICK m : m = GroupMember(p, LastClose(s), s)
  OBVIOUS
<1>2. CASE e \in DOMAIN plan
  <2> PICK l : l = plan[e]
    OBVIOUS
  <2>1. l = Candidate(m) /\ Tightens(m)
    BY <1>1, <1>2, PlanIs
  <2>2. m.price = CloseOut(LastCandle(s), p.sign) /\ m.sign = p.sign /\ m.follower = p.follower
        /\ Candidate(m) \in Int
    BY MemberIs
  <2>3. /\ l \in Int /\ p.sign * (CloseOut(LastCandle(s), p.sign) - l) > 0
        /\ p.follower > 0 => p.sign * (l - p.follower) > 0
    BY <2>1, <2>2 DEF Tightens
  <2>4. GroupLevel(plan, e) = {l}
    BY <1>2 DEF GroupLevel
  <2>5. IsFiniteSet({l})
    BY FS_Singleton
  <2>6. Sensible(p, s, {l})
    BY <2>3, <2>5 DEF Sensible
  <2> QED BY <2>4, <2>6
<1>3. CASE e \notin DOMAIN plan
  <2>1. GroupLevel(plan, e) = {}
    BY <1>3 DEF GroupLevel
  <2>2. Sensible(p, s, {})
    BY FS_EmptySet DEF Sensible
  <2> QED BY <2>1, <2>2
<1> QED
  BY <1>2, <1>3

\* What a position's updaters propose is sensible.
LEMMA NewStopIs ==
    ASSUME NEW p \in Trades, NEW s \in Buffers, NEW f, Profiled(f),
           NEW group, Sensible(p, s, group)
    PROVE  LET x == Context(p, CloseOutPrice(LastClose(s), Spread(s), p.sign), s, group)
           IN /\ Sensible(p, s, OwnProposal(f, p, x))
              /\ Sensible(p, s, NewStop(f, p, x))
<1> PICK price \in Int : price = CloseOut(LastCandle(s), p.sign)
                         /\ price = CloseOutPrice(LastClose(s), Spread(s), p.sign)
  BY TradeIs, CloseOutIs
<1> PICK x : x = Context(p, price, s, group)
  OBVIOUS
<1>1. group \in SUBSET Int
  BY DEF Sensible
<1>2. x \in Contexts
  BY <1>1, ContextOf
<1>3. x.price = price /\ x.sign = p.sign /\ x.follower = p.follower /\ x.group = group
  BY DEF Context
<1>4. \A L : Fair(x, L) <=> Sensible(p, s, L)
  BY <1>3 DEF Fair, Behind, Sensible
<1>5. Fair(x, x.group)
  BY <1>3, <1>4
<1>6. Fair(x, OwnProposal(f, p, x)) /\ Fair(x, NewStop(f, p, x))
  BY <1>2, <1>5, NewStopFair DEF Profiled
<1> QED
  BY <1>4, <1>6

LEMMA EvaluateIs ==
    ASSUME NEW p \in Trades, NEW s \in Buffers, NEW f, Profiled(f),
           NEW group, Sensible(p, s, group), NEW closeHour \in BOOLEAN
    PROVE  LET d == Evaluate(f, p, LastClose(s), s, closeHour, group)
           IN /\ Sensible(p, s, d.stop)
              /\ d.close = {} /\ p.follower > 0 =>
                   p.sign * (CloseOut(LastCandle(s), p.sign) - p.follower) > 0
<1> PICK price \in Int : price = CloseOut(LastCandle(s), p.sign)
                         /\ price = CloseOutPrice(LastClose(s), Spread(s), p.sign)
  BY TradeIs, CloseOutIs
<1> PICK x : x = Context(p, price, s, group)
  OBVIOUS
<1> PICK d : d = Evaluate(f, p, LastClose(s), s, closeHour, group)
  OBVIOUS
<1> DEFINE hit == p.follower > 0 /\ p.sign * (price - p.follower) =< 0
<1>1. d = IF closeHour THEN [Hold EXCEPT !.close = {"end_of_day"}]
          ELSE IF s = <<>> THEN Hold
          ELSE IF hit THEN [Hold EXCEPT !.close = {"stop"}]
          ELSE IF AtrOf(s) = 0 THEN Hold
          ELSE [Hold EXCEPT !.stop = NewStop(f, p, x)]
  BY DEF Evaluate
<1>2. Sensible(p, s, {}) /\ Sensible(p, s, NewStop(f, p, x))
  <2>1. Sensible(p, s, {})
    BY FS_EmptySet DEF Sensible
  <2> QED BY <2>1, NewStopIs
<1>3. s # <<>>
  BY LastIs
<1>4. d.stop = {} \/ d.stop = NewStop(f, p, x)
  BY <1>1 DEF Hold
<1>5. d.close = {} => ~closeHour /\ ~hit
  <2>1. CASE closeHour
    BY <1>1, <2>1 DEF Hold
  <2>2. CASE ~closeHour /\ hit
    BY <1>1, <1>3, <2>2 DEF Hold
  <2> QED BY <2>1, <2>2
<1>6. d.close = {} /\ p.follower > 0 => p.sign * (price - p.follower) > 0
  <2> PICK y \in Int : y = p.sign * (price - p.follower)
    BY TradeIs
  <2> QED BY <1>5
<1> QED
  BY <1>2, <1>4, <1>6

-----------------------------------------------------------------------------
(***************************************************************************)
(* What is invariantly true of a day, and what monitoring does.            *)
(***************************************************************************)

LEMMA DaysAre ==
    ASSUME NEW d \in Days
    PROVE  /\ d.mode \in {"replay", "live"} /\ d.shapes \subseteq CandleShapes
           /\ IsFiniteSet(d.epics) /\ d.strategy.target \in Nat /\ d.strategy.cooldown \in Nat
           /\ d.strategy.rule \in Rules /\ d.profile.policy \in Policies
           /\ Profiled(d.profile)
BY DayAssumption DEF Profiled

(***************************************************************************)
(* What a day is made of.                                                  *)
(***************************************************************************)
DayTyped ==
    /\ day \in Days
    /\ minute \in Int
    /\ buffers \in [Epics -> Buffers]
    /\ extremes \in [Epics -> [low : Int, high : Int]]
    /\ trades \in [DOMAIN trades -> Trades]
    /\ DOMAIN trades \subseteq Epics
    /\ \A e \in DOMAIN trades : trades[e].opened =< minute

\* What monitoring makes of the position p, on the buffer s: the stop it may
\* be given, what it means that it is kept, and, in a replay, the levels it
\* may be closed at.
Settled(p, s, printed, o) ==
    /\ Sensible(p, s, o.stop)
    /\ o.close = {} /\ (IF mode = "live" THEN p.follower > 0 ELSE printed) =>
         p.sign * (CloseOut(LastCandle(s), p.sign) - p.follower) > 0
    /\ mode = "replay" =>
         \A r \in o.close : r.level \in Int /\ p.sign * (r.level - p.follower) >= 0

LEMMA EmptySensible ==
    ASSUME NEW p, NEW s
    PROVE  Sensible(p, s, {})
BY FS_EmptySet DEF Sensible

LEMMA ReplayedIs ==
    ASSUME NEW p \in Trades, NEW s \in Buffers, NEW d, Sensible(p, s, d.stop)
    PROVE  LET o == Replayed(p, LastCandle(s), d)
           IN /\ Sensible(p, s, o.stop)
              /\ o.close = {} => p.sign * (CloseOut(LastCandle(s), p.sign) - p.follower) > 0
              /\ \A r \in o.close : r.level \in Int /\ p.sign * (r.level - p.follower) >= 0
<1> PICK c \in Int : c = CloseOut(LastCandle(s), p.sign)
  BY TradeIs, CloseOutIs
<1> PICK a \in Int : a = Adverse(LastCandle(s), p.sign)
  BY TradeIs, CloseOutIs
<1>1. p.sign * (c - a) >= 0
  BY TradeIs, CloseOutIs
<1> PICK filled : filled = StopFilled(p, LastCandle(s))
  OBVIOUS
<1> PICK o : o = Replayed(p, LastCandle(s), d)
  OBVIOUS
<1>2. CASE p.sign * (a - p.follower) =< 0
  <2>1. StopFilled(p, LastCandle(s))
    BY <1>2 DEF StopFilled
  <2> PICK x : x = [level |-> p.follower,
                    reason |-> IF p.updates > 0 THEN "follower" ELSE "stop"]
    OBVIOUS
  <2>2. o = [close |-> {x}, stop |-> {}] /\ x.level = p.follower
    BY <2>1 DEF Replayed
  <2>3. o.stop = {} /\ o.close # {} /\ \A r \in o.close : r.level = p.follower
    BY <2>2
  <2>4. \A r \in o.close : r.level \in Int /\ p.sign * (r.level - p.follower) >= 0
    BY <2>3, TradeIs
  <2> QED BY <2>3, <2>4, EmptySensible
<1>3. CASE ~(p.sign * (a - p.follower) =< 0)
  <2>1. ~StopFilled(p, LastCandle(s))
    BY <1>3 DEF StopFilled
  <2>2. o = [close |-> {[level |-> c, reason |-> r] : r \in d.close}, stop |-> d.stop]
    BY <2>1 DEF Replayed
  <2>3. p.sign * (c - p.follower) > 0
    <3>1. CASE p.sign = 1
      BY <1>1, <1>3, <3>1, TradeIs
    <3>2. CASE p.sign = -1
      BY <1>1, <1>3, <3>2, TradeIs
    <3> QED BY <3>1, <3>2, TradeIs
  <2>4. o.stop = d.stop /\ \A r \in o.close : r.level = c
    BY <2>2
  <2> QED BY <2>3, <2>4, TradeIs
<1> QED
  BY <1>2, <1>3

LEMMA OutcomeIs ==
    ASSUME DayTyped, NEW p \in Trades, NEW s \in Buffers, NEW d, Sensible(p, s, d.stop),
           d.close = {} /\ p.follower > 0 =>
             p.sign * (CloseOut(LastCandle(s), p.sign) - p.follower) > 0,
           NEW printed \in BOOLEAN
    PROVE  Settled(p, s, printed, Outcome(p, LastCandle(s), d, printed))
<1> PICK o : o = Outcome(p, LastCandle(s), d, printed)
  OBVIOUS
<1>1. mode = "live" \/ mode = "replay"
  BY DaysAre DEF DayTyped, mode
<1>2. CASE mode = "live"
  <2>1. o = Managed(p, LastCandle(s), d) /\ mode # "replay"
    BY <1>2 DEF Outcome
  <2>2. o.stop \in SUBSET d.stop /\ (o.close = {} => d.close = {})
    <3> PICK K : K = {l \in d.stop : p.follower > 0 => p.sign * (l - p.follower) > 0}
      OBVIOUS
    <3> PICK R : R = {[level |-> CloseOut(LastCandle(s), p.sign), reason |-> r] : r \in d.close}
      OBVIOUS
    <3>1. o = [close |-> R, stop |-> K]
      BY <2>1 DEF Managed
    <3>2. R = {} => d.close = {}
      OBVIOUS
    <3>3. K \in SUBSET d.stop
      OBVIOUS
    <3> QED BY <3>1, <3>2, <3>3
  <2>3. Sensible(p, s, o.stop)
    <3>1. IsFiniteSet(o.stop)
      BY <2>2, FS_Subset DEF Sensible
    <3> QED BY <2>2, <3>1 DEF Sensible
  <2> QED BY <1>2, <2>1, <2>2, <2>3 DEF Settled
<1>3. CASE mode = "replay" /\ printed
  <2>1. o = Replayed(p, LastCandle(s), d)
    BY <1>3 DEF Outcome
  <2> QED BY <1>3, <2>1, ReplayedIs DEF Settled
<1>4. CASE mode = "replay" /\ ~printed
  <2>1. o = Hold
    BY <1>4 DEF Outcome
  <2>2. o.stop = {} /\ o.close = {}
    BY <2>1 DEF Hold
  <2> QED BY <1>4, <2>2, EmptySensible DEF Settled
<1> QED
  BY <1>1, <1>2, <1>3, <1>4

\* The same of every position of the book.
LEMMA OutcomesAre ==
    ASSUME DayTyped, NEW bufs \in [Epics -> Buffers], NEW arrived, NEW e \in DOMAIN trades
    PROVE  Settled(trades[e], bufs[e], e \in arrived,
                   Outcomes(bufs, arrived, Plan(bufs))[e])
<1> PICK p \in Trades : p = trades[e]
  BY DEF DayTyped
<1>1. e \in Epics
  BY DEF DayTyped
<1> PICK s \in Buffers : s = bufs[e]
  BY <1>1
<1> PICK group : group = GroupLevel(Plan(bufs), e)
  OBVIOUS
<1>2. Sensible(p, s, group)
  <2>1. CASE GroupAware(profile)
    <3>1. Plan(bufs) = GroupPlan(Members(trades, bufs))
      BY <2>1 DEF Plan
    <3> QED BY <3>1, GroupLevelIs
  <2>2. CASE ~GroupAware(profile)
    <3>1. Plan(bufs) = <<>> /\ DOMAIN <<>> = {}
      BY <2>2 DEF Plan
    <3>2. group = {}
      BY <3>1 DEF GroupLevel
    <3> QED BY <3>2, EmptySensible
  <2> QED BY <2>1, <2>2
<1>3. Profiled(profile) /\ AtClose \in BOOLEAN
  BY DaysAre DEF DayTyped, profile, AtClose
<1> PICK d : d = Evaluate(profile, p, LastClose(s), s, AtClose, group)
  OBVIOUS
<1>4. /\ Sensible(p, s, d.stop)
      /\ d.close = {} /\ p.follower > 0 =>
           p.sign * (CloseOut(LastCandle(s), p.sign) - p.follower) > 0
  BY <1>2, <1>3, EvaluateIs
<1>5. Outcomes(bufs, arrived, Plan(bufs))[e] = Outcome(p, LastCandle(s), d, e \in arrived)
  BY DEF Outcomes
<1>6. (e \in arrived) \in BOOLEAN
  OBVIOUS
<1>7. Settled(p, s, e \in arrived, Outcome(p, LastCandle(s), d, e \in arrived))
  BY <1>4, <1>6, OutcomeIs
<1> QED
  BY <1>5, <1>7

-----------------------------------------------------------------------------
(***************************************************************************)
(* Opening: the first stop, and the filter of repeated bets.               *)
(***************************************************************************)

\* The first stop: the policy's, in a live session no nearer than the broker
\* allows.
LEMMA FirstStopIs ==
    ASSUME NEW c \in Sound, NEW sign \in {1, -1}, NEW plan, plan.stop \in Int,
           sign * (CloseOut(c, sign) - plan.stop) > 0
    PROVE  /\ FirstStop(c, sign, plan) \in Int
           /\ sign * (CloseOut(c, sign) - FirstStop(c, sign, plan)) > 0
<1> PICK cl \in Int, w \in Int : cl = c.close /\ w = c.spread
  BY SoundIs
<1> PICK stop \in Int : stop = plan.stop
  OBVIOUS
<1>1. CASE mode = "live"
  <2> PICK d \in Int : d = sign * (cl - stop)
    OBVIOUS
  <2>1. MinStop \in Int
    BY DayAssumption
  <2>2. Max({d, MinStop}) \in Int /\ Max({d, MinStop}) >= d
    BY <2>1, MaxOfTwo
  <2>3. FirstStop(c, sign, plan) = cl - sign * Max({d, MinStop})
    BY <1>1 DEF FirstStop
  <2> PICK m \in Int : m = Max({d, MinStop})
    BY <2>2
  <2>4. m >= d
    BY <2>2
  <2>5. CASE sign = 1
    <3>1. CloseOut(c, sign) = cl
      BY <2>5 DEF CloseOut
    <3>2. d = cl - stop /\ cl - stop > 0
      BY <2>5, <3>1
    <3>3. FirstStop(c, sign, plan) = cl - m
      BY <2>3, <2>5
    <3> QED BY <2>4, <2>5, <3>1, <3>2, <3>3
  <2>6. CASE sign = -1
    <3>1. CloseOut(c, sign) = cl + w
      BY <2>6 DEF CloseOut
    <3>2. d = stop - cl /\ stop - (cl + w) > 0
      BY <2>6, <3>1
    <3>3. FirstStop(c, sign, plan) = cl + m
      BY <2>3, <2>6
    <3> QED BY <2>4, <2>6, <3>1, <3>2, <3>3
  <2> QED BY <2>5, <2>6
<1>2. CASE mode # "live"
  BY <1>2 DEF FirstStop
<1> QED
  BY <1>1, <1>2

\* A position about to open: its references are numbers, and its stop is short
\* of the price it would be closed at.
LEMMA OpenedIs ==
    ASSUME DayTyped, NEW bufs \in [Epics -> Buffers],
           NEW seen \in [Epics -> [low : Int, high : Int]],
           NEW e \in Epics, NEW sign \in {1, -1}, AtrOf(bufs[e]) > 0
    PROVE  LET p == Opened(e, sign, bufs, seen)
           IN /\ p \in Trades /\ p.opened = minute + 1 /\ p.loose = p.follower
              /\ p.sign = sign
              /\ sign * (CloseOut(LastCandle(bufs[e]), sign) - p.follower) > 0
<1> PICK s \in Buffers : s = bufs[e]
  OBVIOUS
<1> PICK c \in Sound : c = LastCandle(s) /\ c = s[Len(s)]
  BY LastIs
<1>1. s \in Seq(Sound) /\ s # <<>> /\ LastClose(s) = c.close /\ AtrOf(s) > 0
  BY LastIs
<1>2. c.close \in Int /\ c.spread \in Int /\ minute \in Int
  BY SoundIs DEF DayTyped
<1> PICK open \in Int : open = IF sign < 0 THEN c.close ELSE c.close + c.spread
  BY <1>2
<1> PICK mind \in Nat : mind = IF mode = "live" THEN MinStop ELSE 0
  BY DayAssumption
<1> PICK since \in Int : since = IF mode = "live" THEN minute + 2 ELSE 0
  BY <1>2
<1> PICK now \in Int : now = minute + 1
  BY <1>2
<1> PICK ex \in SUBSET Int : ex = DayExtreme(e, sign, seen)
  <2>1. seen[e].low \in Int /\ seen[e].high \in Int
    OBVIOUS
  <2> QED BY <2>1 DEF DayExtreme
<1> PICK plan : plan = InitialPlan(profile, s, LastClose(s), sign, ex)
  OBVIOUS
<1>3. plan.zero \in Int
  BY <1>1, <1>2 DEF InitialPlan
<1>4. plan.margin \in Int
  <2>1. plan.margin = plan.zero + sign * NoiseMargin(AtrOf(s))
    BY DEF InitialPlan
  <2>2. 15 \in Int /\ AtrOf(s) \in Int
    BY <1>1, AtrOfIs
  <2>3. NoiseMargin(AtrOf(s)) \in Int
    BY <2>2, TenthsIs DEF NoiseMargin
  <2> QED BY <1>3, <2>1, <2>3
<1>5. plan.stop \in Int /\ sign * (CloseOut(c, sign) - plan.stop) > 0
  <2> PICK policy \in Policies : policy = profile.policy
    BY DaysAre DEF DayTyped, profile
  <2>1. plan.stop = StopLevel(policy, s, s[Len(s)].close, sign, ex)
    BY <1>1 DEF InitialPlan
  <2>2. LET level == StopLevel(policy, s, s[Len(s)].close, sign, ex)
        IN level \in Int /\ sign * (CloseOut(s[Len(s)], sign) - level) > 0
    BY <1>1, StopIsBehind
  <2> QED BY <2>1, <2>2
<1> PICK first \in Int : first = FirstStop(c, sign, plan) /\ sign * (CloseOut(c, sign) - first) > 0
  BY <1>5, FirstStopIs
<1> PICK p : p = Opened(e, sign, bufs, seen)
  OBVIOUS
<1>6. p = Position(c, sign, plan, first)
  BY DEF Opened, Planned
<1>7. p = [sign |-> sign, open |-> open, zero |-> plan.zero, margin |-> plan.margin,
           follower |-> first, loose |-> first, epp |-> 1, mind |-> mind, since |-> since,
           opened |-> now, updates |-> 0]
  BY <1>6 DEF Position
<1>8. p \in Trades
  BY <1>3, <1>4, <1>7 DEF Trades
<1>9. p.opened = now /\ p.loose = first /\ p.follower = first /\ p.sign = sign
  BY <1>7
<1> QED
  BY <1>8, <1>9

\* No item of a ranking repeats the bet of one ranked before it.
Apart(v) == \A i, j \in DOMAIN v : i < j => ~SameBet(v[j], v[i])

\* What the filter leaves of a ranking is of the ranking, and apart.
LEMMA DeduplicateIs ==
    ASSUME NEW S, NEW r \in Seq(S)
    PROVE  Deduplicate(r) \in Seq(S) /\ Apart(Deduplicate(r))
<1> DEFINE V == {v \in Seq(S) : Apart(v)}
           keep(i, v) == IF \E j \in DOMAIN v : SameBet(r[i], v[j]) THEN v ELSE Append(v, r[i])
           rec(f) == [i \in 0..Len(r) |-> IF i = 0 THEN <<>> ELSE keep(i, f[i - 1])]
           st == [i \in (0 + 1)..Len(r) |-> [v \in V |-> keep(i, v)]]
<1> PICK n \in Nat : n = Len(r)
  OBVIOUS
<1>1. \A i \in 1..n, v \in V : keep(i, v) \in V
  <2> SUFFICES ASSUME NEW i \in 1..n, NEW v \in V PROVE keep(i, v) \in V
    OBVIOUS
  <2>1. r[i] \in S
    OBVIOUS
  <2>2. v \in Seq(S) /\ Apart(v)
    OBVIOUS
  <2> PICK w : w = Append(v, r[i])
    OBVIOUS
  <2>3. w \in Seq(S) /\ DOMAIN v = 1..Len(v) /\ DOMAIN w = 1..(Len(v) + 1)
        /\ w[Len(v) + 1] = r[i] /\ \A j \in DOMAIN v : w[j] = v[j]
    BY <2>1, <2>2
  <2>4. ASSUME ~\E j \in DOMAIN v : SameBet(r[i], v[j]) PROVE Apart(w)
    <3> SUFFICES ASSUME NEW j \in DOMAIN w, NEW k \in DOMAIN w, j < k
                 PROVE  ~SameBet(w[k], w[j])
      BY DEF Apart
    <3> PICK m \in Nat : m = Len(v)
      BY <2>2
    <3>1. j \in DOMAIN v /\ w[j] = v[j]
      BY <2>3
    <3>2. CASE k = m + 1
      BY <2>3, <2>4, <3>1, <3>2
    <3>3. CASE k # m + 1
      <4>1. k \in DOMAIN v /\ w[k] = v[k]
        BY <2>3, <3>3
      <4> QED BY <2>2, <3>1, <4>1 DEF Apart
    <3> QED BY <3>2, <3>3
  <2> QED BY <2>2, <2>3, <2>4
<1>2. <<>> \in V
  BY DEF Apart
<1> HIDE DEF keep, V
<1>3. st \in [(0 + 1)..n -> [V -> V]]
  BY <1>1
<1>4. PICK f \in [0..n -> V] : RunsBy(f, <<>>, 0, n, st)
  <2> HIDE DEF st
  <2>1. \A a \in V, b \in Nat : \A t \in [(b + 1)..n -> [V -> V]] :
           b =< n => \E f \in [b..n -> V] : RunsBy(f, a, b, n, t)
    <3> TAKE a \in V, b \in Nat
    <3> TAKE t \in [(b + 1)..n -> [V -> V]]
    <3> QED BY RecursionExists
  <2> QED BY <1>2, <1>3, <2>1
<1>5. f = rec(f)
  <2>1. \A i \in 0..n : f[i] = IF i = 0 THEN <<>> ELSE keep(i, f[i - 1])
    <3> SUFFICES ASSUME NEW i \in 0..n, i # 0 PROVE f[i] = keep(i, f[i - 1])
      BY <1>4 DEF RunsBy
    <3>1. i \in 1..n /\ i - 1 \in 0..n
      OBVIOUS
    <3>2. f[i] = st[i][f[i - 1]] /\ f[i - 1] \in V
      BY <1>4, <3>1 DEF RunsBy
    <3> QED BY <3>1, <3>2
  <2> HIDE DEF st
  <2>2. DOMAIN f = 0..n
    OBVIOUS
  <2> QED BY <2>1, <2>2
<1> DEFINE k == CHOOSE h : h = rec(h)
<1>6. k = rec(k)
  <2> HIDE DEF rec
  <2> QED BY <1>5
<1>7. Deduplicate(r) = k[n]
  BY DEF Deduplicate, keep
<1> HIDE DEF k
<1>8. k[0] \in V
  <2>1. 0 \in 0..Len(r)
    OBVIOUS
  <2> QED BY <1>2, <1>6, <2>1
<1>9. \A i \in (0 + 1)..n : k[i - 1] \in V => k[i] \in V
  <2> SUFFICES ASSUME NEW i \in (0 + 1)..n, k[i - 1] \in V PROVE k[i] \in V
    OBVIOUS
  <2>1. i \in 0..Len(r) /\ i # 0
    OBVIOUS
  <2>2. k[i] = keep(i, k[i - 1])
    BY <1>6, <2>1
  <2> QED BY <1>1, <2>2
<1> HIDE DEF rec, st
<1>10. k[n] \in V
  <2>1. n \in 0..n
    OBVIOUS
  <2>2. \A b \in Nat : /\ k[b] \in V
                       /\ \A i \in (b + 1)..n : k[i - 1] \in V => k[i] \in V
                       => \A i \in b..n : k[i] \in V
    <3> TAKE b \in Nat
    <3> QED BY RecursionHolds
  <2> QED BY <1>8, <1>9, <2>1, <2>2
<1> QED
  BY <1>7, <1>10 DEF V

-----------------------------------------------------------------------------
(***************************************************************************)
(* Opening: how much.                                                      *)
(***************************************************************************)

LEMMA ScoredAre ==
    ASSUME NEW rule, NEW e, NEW s, NEW d \in Directions(rule, e, s)
    PROVE  AtrOf(s) > 0
<1>1. Scored(s)
  BY DEF Directions
<1>2. Windows.atr = Knobs.atr
  BY DayAssumption
<1> QED
  BY <1>1, <1>2 DEF Scored, AtrOf

LEMMA IntentsAre ==
    ASSUME NEW E, IsFiniteSet(E), NEW bufs
    PROVE  /\ IsFiniteSet(Intents(E, bufs))
           /\ \A p \in Intents(E, bufs) :
                 p.epic \in E /\ p.sign \in {1, -1} /\ AtrOf(bufs[p.epic]) > 0
<1> DEFINE f == [x \in E \X {1, -1} |->
                   [epic |-> x[1], sign |-> x[2], sig |-> Signature(bufs[x[1]])]]
           R == {f[x] : x \in DOMAIN f}
           I == Intents(E, bufs)
<1>1. Signs \subseteq {1, -1}
  BY DEF Signs
<1>2. \A p \in I : \E e \in E, s \in {1, -1} :
         /\ s \in Directions(strategy.rule, e, bufs[e])
         /\ p = [epic |-> e, sign |-> s, sig |-> Signature(bufs[e])]
  BY <1>1 DEF Intents
<1>3. \A p \in I : p.epic \in E /\ p.sign \in {1, -1} /\ AtrOf(bufs[p.epic]) > 0
  <2> SUFFICES ASSUME NEW p \in I
               PROVE  p.epic \in E /\ p.sign \in {1, -1} /\ AtrOf(bufs[p.epic]) > 0
    OBVIOUS
  <2> PICK e \in E, s \in {1, -1} :
         /\ s \in Directions(strategy.rule, e, bufs[e])
         /\ p = [epic |-> e, sign |-> s, sig |-> Signature(bufs[e])]
    BY <1>2
  <2>1. AtrOf(bufs[e]) > 0
    BY ScoredAre
  <2>2. p.epic = e /\ p.sign = s
    OBVIOUS
  <2> QED BY <2>1, <2>2
<1>4. I \in SUBSET R
  <2> SUFFICES ASSUME NEW p \in I PROVE p \in R
    OBVIOUS
  <2> PICK e \in E, s \in {1, -1} : p = [epic |-> e, sign |-> s, sig |-> Signature(bufs[e])]
    BY <1>2
  <2>1. <<e, s>> \in E \X {1, -1}
    OBVIOUS
  <2>2. f[<<e, s>>] = p
    BY <2>1
  <2> QED BY <2>1, <2>2
<1>5. IsFiniteSet(R)
  <2>1. IsFiniteSet({1, -1})
    <3>1. IsFiniteSet({1}) /\ IsFiniteSet({-1})
      BY FS_Singleton
    <3>2. IsFiniteSet({1} \cup {-1}) /\ {1} \cup {-1} = {1, -1}
      BY <3>1, FS_Union
    <3> QED BY <3>2
  <2> PICK T : T = {1, -1}
    OBVIOUS
  <2>2. IsFiniteSet(E \X T)
    BY <2>1, FS_Product
  <2>3. DOMAIN f = E \X T
    OBVIOUS
  <2> HIDE DEF f
  <2> QED BY <2>2, <2>3, ImageFinite
<1>6. IsFiniteSet(I)
  <2> HIDE DEF R, I
  <2> QED BY <1>4, <1>5, FS_Subset
<1> QED
  BY <1>3, <1>6

LEMMA BasketsAre ==
    ASSUME NEW intents, IsFiniteSet(intents), NEW W, W \in Winners(intents) \cup Baskets(intents)
    PROVE  W \subseteq intents /\ IsFiniteSet(W)
<1>1. \A S \in Baskets(intents) : S \subseteq intents
  BY DEF Baskets
<1>2. \A S \in Baskets(intents) : \A r \in Rankings(S) : Range(Deduplicate(r)) \subseteq intents
  <2> SUFFICES ASSUME NEW S \in Baskets(intents), NEW r \in Rankings(S)
               PROVE  Range(Deduplicate(r)) \subseteq intents
    OBVIOUS
  <2>1. S \subseteq intents /\ IsFiniteSet(S)
    BY <1>1, FS_Subset
  <2> PICK n \in Nat : n = Cardinality(S)
    BY <2>1, FS_CardinalityType
  <2>2. r \in [1..n -> S]
    BY DEF Rankings
  <2>3. r \in Seq(S)
    BY <2>2
  <2>4. Deduplicate(r) \in Seq(S)
    BY <2>3, DeduplicateIs
  <2>5. \A i \in DOMAIN Deduplicate(r) : Deduplicate(r)[i] \in S
    BY <2>4, SequenceFinite
  <2> QED BY <2>1, <2>5 DEF Range
<1>3. W \subseteq intents
  BY <1>1, <1>2 DEF Winners
<1> QED
  BY <1>3, FS_Subset

LEMMA AsPicksAre ==
    ASSUME NEW S, IsFiniteSet(S)
    PROVE  /\ \A e \in DOMAIN AsPicks(S) : \E p \in S : p.epic = e /\ AsPicks(S)[e] = p.sign
           /\ IsFiniteSet(DOMAIN AsPicks(S)) /\ Cardinality(DOMAIN AsPicks(S)) =< Cardinality(S)
<1>1. DOMAIN AsPicks(S) = {p.epic : p \in S}
  BY DEF AsPicks
<1>2. \A e \in DOMAIN AsPicks(S) : \E p \in S : p.epic = e /\ AsPicks(S)[e] = p.sign
  <2> SUFFICES ASSUME NEW e \in DOMAIN AsPicks(S)
               PROVE  \E p \in S : p.epic = e /\ AsPicks(S)[e] = p.sign
    OBVIOUS
  <2> DEFINE q == CHOOSE p \in S : p.epic = e
  <2>1. q \in S /\ q.epic = e
    <3>1. \E p \in S : p.epic = e
      BY <1>1
    <3> QED BY <3>1
  <2>2. AsPicks(S)[e] = q.sign
    BY <1>1 DEF AsPicks
  <2> HIDE DEF q
  <2> QED BY <2>1, <2>2
<1>3. IsFiniteSet({p.epic : p \in S}) /\ Cardinality({p.epic : p \in S}) =< Cardinality(S)
  <2> DEFINE f == [p \in S |-> p.epic]
  <2>1. {f[p] : p \in DOMAIN f} = {p.epic : p \in S} /\ DOMAIN f = S
    OBVIOUS
  <2> HIDE DEF f
  <2>2. IsFiniteSet({f[p] : p \in DOMAIN f}) /\ Cardinality({f[p] : p \in DOMAIN f}) =< Cardinality(DOMAIN f)
    BY <2>1, ImageFinite
  <2> QED BY <2>1, <2>2
<1> QED
  BY <1>1, <1>2, <1>3

Admitted(picks, E, bufs, kept) ==
    /\ DOMAIN picks \subseteq E /\ IsFiniteSet(DOMAIN picks)
    /\ \A e \in DOMAIN picks : picks[e] \in {1, -1} /\ AtrOf(bufs[e]) > 0
    /\ strategy.ranker /\ picks # <<>> =>
         Slots(kept) > 0 /\ Cardinality(DOMAIN picks) =< Slots(kept)

\* What is opened, and, for a ranker, how much of it.
LEMMA PicksAre ==
    ASSUME NEW E, IsFiniteSet(E), NEW bufs, NEW kept, Slots(kept) \in Int,
           NEW picks \in Picks(kept, Intents(E, bufs))
    PROVE  Admitted(picks, E, bufs, kept)
<1> PICK intents : intents = Intents(E, bufs)
  OBVIOUS
<1>1. IsFiniteSet(intents)
      /\ \A p \in intents : p.epic \in E /\ p.sign \in {1, -1} /\ AtrOf(bufs[p.epic]) > 0
  BY IntentsAre
<1>2. \A S : S \in Winners(intents) \cup Baskets(intents) =>
         /\ DOMAIN AsPicks(S) \subseteq E /\ IsFiniteSet(DOMAIN AsPicks(S))
         /\ Cardinality(DOMAIN AsPicks(S)) =< Cardinality(S)
         /\ \A e \in DOMAIN AsPicks(S) : AsPicks(S)[e] \in {1, -1} /\ AtrOf(bufs[e]) > 0
  <2> TAKE S
  <2> HAVE S \in Winners(intents) \cup Baskets(intents)
  <2>1. S \subseteq intents /\ IsFiniteSet(S)
    BY <1>1, BasketsAre
  <2> QED BY <1>1, <2>1, AsPicksAre
<1>3. CASE strategy.ranker
  <2>1. picks \in RankerPicks(intents, Slots(kept))
    BY <1>3 DEF Picks
  <2>2. CASE Slots(kept) =< 0
    <3>1. picks = <<>>
      BY <2>1, <2>2 DEF RankerPicks
    <3>2. DOMAIN picks = {}
      BY <3>1
    <3> QED BY <3>1, <3>2, FS_EmptySet DEF Admitted
  <2>3. CASE ~(Slots(kept) =< 0)
    <3> PICK S \in Winners(intents) : Cardinality(S) =< Slots(kept) /\ picks = AsPicks(S)
      BY <2>1, <2>3 DEF RankerPicks
    <3>1. Cardinality(S) \in Nat /\ Cardinality(DOMAIN picks) \in Nat
      <4>1. IsFiniteSet(S)
        BY <1>1, BasketsAre
      <4>2. IsFiniteSet(DOMAIN picks)
        BY <1>2
      <4> QED BY <4>1, <4>2, FS_CardinalityType
    <3> QED BY <1>2, <2>3, <3>1 DEF Admitted
  <2> QED BY <2>2, <2>3
<1>4. CASE ~strategy.ranker
  <2>1. picks \in GatedPicks(intents)
    BY <1>4 DEF Picks
  <2> PICK S \in Baskets(intents) : picks = AsPicks(S)
    BY <2>1 DEF GatedPicks
  <2> QED BY <1>2, <1>4 DEF Admitted
<1> QED
  BY <1>3, <1>4

-----------------------------------------------------------------------------
(***************************************************************************)
(* A minute of the day.                                                    *)
(***************************************************************************)

\* What a minute of the day comes to: the epics that had a candle, the buffers
\* it leaves, what monitoring makes of every position, those it keeps, and the
\* epics it opens.
Played(arrived, bufs, out, kept, picks) ==
    /\ arrived \subseteq Epics
    /\ bufs \in [Epics -> Buffers]
    /\ \A e \in Epics \ arrived : bufs[e] = buffers[e]
    /\ kept = {e \in DOMAIN trades : out[e].close = {}}
    /\ \A e \in DOMAIN trades : Settled(trades[e], bufs[e], e \in arrived, out[e])
    /\ DOMAIN picks \subseteq Epics \ kept /\ IsFiniteSet(DOMAIN picks)
    /\ strategy.ranker /\ picks # <<>> =>
         Slots(kept) > 0 /\ Cardinality(DOMAIN picks) =< Slots(kept)
    /\ \E E \in SUBSET Epics : IsFiniteSet(E) /\ picks \in Picks(kept, Intents(E, bufs))

\* A position opened this minute.
Fresh(p, c) ==
    /\ p \in Trades /\ p.opened = minute + 1 /\ p.loose = p.follower
    /\ p.sign * (CloseOut(c, p.sign) - p.follower) > 0

Became(arrived, bufs, out, kept, picks) ==
    /\ day' = day /\ minute' = minute + 1 /\ over' = over
    /\ buffers' = bufs
    /\ extremes' \in [Epics -> [low : Int, high : Int]]
    /\ trades' \in [DOMAIN trades' -> Trades]
    /\ DOMAIN trades' = kept \cup DOMAIN picks
    /\ \A e \in kept : trades'[e] = Moved(trades[e], out[e].stop)
    /\ \A e \in DOMAIN picks : Fresh(trades'[e], LastCandle(bufs[e])) /\ trades'[e].sign = picks[e]
    /\ closed' = closed \cup UNION {{Result(trades[e], r) : r \in out[e].close}
                                      : e \in DOMAIN trades}
    /\ lastOpen' = IF picks = <<>> THEN lastOpen ELSE {minute + 1}

LEMMA MovedIs ==
    ASSUME NEW p \in Trades, NEW s, NEW L, Sensible(p, s, L)
    PROVE  LET q == Moved(p, L)
           IN /\ q \in Trades
              /\ q.sign = p.sign /\ q.loose = p.loose /\ q.opened = p.opened
              /\ (L = {} /\ q.follower = p.follower) \/ q.follower \in L
<1> PICK q : q = Moved(p, L)
  OBVIOUS
<1>1. CASE L = {}
  <2>1. q = p
    BY <1>1 DEF Moved
  <2> QED BY <1>1, <2>1
<1>2. CASE L # {}
  <2> PICK l \in L : l = CHOOSE k \in L : TRUE
    BY <1>2
  <2>1. l \in Int
    BY DEF Sensible
  <2>2. q = [p EXCEPT !.follower = l, !.updates = 1]
    BY <1>2 DEF Moved
  <2> PICK r : r = [p EXCEPT !.follower = l]
    OBVIOUS
  <2>3. r \in Trades /\ r.sign = p.sign /\ r.loose = p.loose /\ r.opened = p.opened
        /\ r.follower = l
    BY <2>1 DEF Trades
  <2> PICK one \in Int : one = 1
    OBVIOUS
  <2>4. q = [r EXCEPT !.updates = one]
    BY <2>2
  <2>5. q \in Trades
    BY <2>3, <2>4 DEF Trades
  <2>6. DOMAIN r = {"sign", "open", "zero", "margin", "follower", "loose", "epp", "mind", "since",
                    "opened", "updates"}
    BY <2>3 DEF Trades
  <2>7. q.sign = r.sign /\ q.loose = r.loose /\ q.opened = r.opened /\ q.follower = r.follower
    BY <2>4, <2>6
  <2> QED BY <2>3, <2>5, <2>7
<1> QED
  BY <1>1, <1>2

LEMMA IngestedIs ==
    ASSUME DayTyped, NEW shapes \in Arrivals
    PROVE  /\ DOMAIN shapes \subseteq Epics
           /\ Ingested(shapes) \in [Epics -> Buffers]
           /\ \A e \in Epics \ DOMAIN shapes : Ingested(shapes)[e] = buffers[e]
           /\ Widened(shapes) \in [Epics -> [low : Int, high : Int]]
<1>1. PICK E \in SUBSET Epics : shapes \in [E -> day.shapes]
  BY DEF Arrivals
<1>2. DOMAIN shapes = E /\ day.shapes \subseteq CandleShapes
  BY <1>1, DaysAre DEF DayTyped
<1>3. \A e \in E : NewCandle(e, shapes) \in Sound
  <2> SUFFICES ASSUME NEW e \in E PROVE NewCandle(e, shapes) \in Sound
    OBVIOUS
  <2> PICK h \in CandleShapes : h = shapes[e]
    BY <1>1, <1>2
  <2> PICK c \in Int : c = LastClose(buffers[e])
    BY LastIs DEF DayTyped
  <2> PICK t \in Int : t = minute + 1
    BY DEF DayTyped
  <2>1. CandleAt(t, c, h) \in Sound
    BY CandleAtIs
  <2> QED BY <2>1 DEF NewCandle
<1>4. \A e \in Epics : Ingested(shapes)[e] =
         IF e \in E THEN LastN(Append(buffers[e], NewCandle(e, shapes)), MaxBuffer) ELSE buffers[e]
  BY <1>2 DEF Ingested
<1>5. \A e \in Epics : Ingested(shapes)[e] \in Buffers
  <2> SUFFICES ASSUME NEW e \in Epics PROVE Ingested(shapes)[e] \in Buffers
    OBVIOUS
  <2>1. CASE e \in E
    <3>1. buffers[e] \in Seq(Sound)
      BY LastIs DEF DayTyped
    <3>2. LastN(Append(buffers[e], NewCandle(e, shapes)), MaxBuffer) \in Buffers
      BY <1>3, <2>1, <3>1, PushedIs
    <3> QED BY <1>4, <2>1, <3>2
  <2>2. CASE e \notin E
    BY <1>4, <2>2 DEF DayTyped
  <2> QED BY <2>1, <2>2
<1>6. Ingested(shapes) \in [Epics -> Buffers]
  BY <1>5 DEF Ingested
<1>7. \A e \in Epics : Widened(shapes)[e] \in [low : Int, high : Int]
  <2> SUFFICES ASSUME NEW e \in Epics PROVE Widened(shapes)[e] \in [low : Int, high : Int]
    OBVIOUS
  <2>1. CASE e \in E
    <3> PICK c \in Sound : c = NewCandle(e, shapes)
      BY <1>3, <2>1
    <3>1. c.low \in Int /\ Adverse(c, -1) \in Int
      BY SoundIs DEF Adverse
    <3> PICK a \in Int, b \in Int : a = extremes[e].low /\ b = extremes[e].high
      BY DEF DayTyped
    <3> PICK x \in Int, y \in Int : x = c.low /\ y = Adverse(c, -1)
      BY <3>1
    <3>2. Min({a, x}) \in Int /\ Max({b, y}) \in Int
      BY MaxOfTwo
    <3>3. Widened(shapes)[e] = [low |-> Min({a, x}), high |-> Max({b, y})]
      BY <1>2, <2>1 DEF Widened
    <3> QED BY <3>2, <3>3
  <2>2. CASE e \notin E
    BY <1>2, <2>2 DEF Widened, DayTyped
  <2> QED BY <2>1, <2>2
<1>8. Widened(shapes) \in [Epics -> [low : Int, high : Int]]
  BY <1>7 DEF Widened
<1> QED
  BY <1>2, <1>4, <1>6, <1>8

LEMMA BookIs ==
    ASSUME DayTyped, NEW kept \in SUBSET DOMAIN trades
    PROVE  /\ IsFiniteSet(Epics) /\ IsFiniteSet(kept) /\ IsFiniteSet(DOMAIN trades)
           /\ Cardinality(kept) \in Nat /\ Cardinality(DOMAIN trades) \in Nat
           /\ Cardinality(kept) =< Cardinality(DOMAIN trades)
           /\ strategy.target \in Nat /\ strategy.cooldown \in Nat
           /\ Slots(kept) \in Int /\ (Slots(kept) > 0 => Paced)
           /\ Slots(kept) > 0 => Slots(kept) =< strategy.target - Cardinality(kept)
           /\ Slots(kept) > 0 /\ strategy.flat => kept = {}
<1>1. IsFiniteSet(Epics) /\ strategy.target \in Nat /\ strategy.cooldown \in Nat
  BY DaysAre DEF DayTyped, Epics, strategy
<1>2. IsFiniteSet(DOMAIN trades) /\ IsFiniteSet(kept)
      /\ Cardinality(kept) =< Cardinality(DOMAIN trades)
  BY <1>1, FS_Subset DEF DayTyped
<1>3. Cardinality(kept) \in Nat /\ Cardinality(DOMAIN trades) \in Nat
  BY <1>2, FS_CardinalityType
<1> PICK n \in Int : n = strategy.target - Cardinality(kept)
  BY <1>1, <1>3
<1> PICK one \in Int : one = 1
  OBVIOUS
<1>4. Min({one, n}) \in Int /\ Min({one, n}) =< n
  BY MaxOfTwo
<1>5. Slots(kept) = IF (strategy.flat /\ kept # {}) \/ ~Paced THEN 0
                    ELSE IF strategy.cooldown > 0 THEN Min({one, n}) ELSE n
  BY DEF Slots
<1>6. Slots(kept) \in Int /\ (Slots(kept) > 0 => Slots(kept) =< n)
  BY <1>4, <1>5
<1>7. Slots(kept) > 0 => Paced /\ (strategy.flat => kept = {})
  BY <1>5
<1> QED
  BY <1>1, <1>2, <1>3, <1>6, <1>7

LEMMA MinuteIs ==
    ASSUME DayTyped, Minute
    PROVE  \E arrived, bufs, out, kept, picks :
             Played(arrived, bufs, out, kept, picks) /\ Became(arrived, bufs, out, kept, picks)
<1>1. PICK shapes \in Arrivals :
         /\ buffers' = Ingested(shapes)
         /\ extremes' = Widened(shapes)
         /\ \E out \in {Outcomes(buffers', DOMAIN shapes, Plan(buffers'))} :
              Step(DOMAIN shapes, buffers', extremes', out, Kept(out))
  BY DEF Minute
<1>2. minute' = minute + 1 /\ day' = day /\ over' = over
  BY DEF Minute
<1> PICK arrived : arrived = DOMAIN shapes
  OBVIOUS
<1> PICK bufs : bufs = Ingested(shapes)
  OBVIOUS
<1> PICK seen : seen = Widened(shapes)
  OBVIOUS
<1> PICK out : out = Outcomes(bufs, arrived, Plan(bufs))
  OBVIOUS
<1> PICK kept : kept = {e \in DOMAIN trades : out[e].close = {}}
  OBVIOUS
<1>3. Step(arrived, bufs, seen, out, kept)
  BY <1>1 DEF Kept
<1>4. PICK picks \in Picks(kept, Intents(Considered(kept, bufs, arrived), bufs)) :
        /\ trades' = [e \in kept \cup DOMAIN picks |->
                        IF e \in kept THEN Moved(trades[e], out[e].stop)
                        ELSE Opened(e, picks[e], bufs, seen)]
        /\ closed' = closed \cup UNION {{Result(trades[e], r) : r \in out[e].close}
                                         : e \in DOMAIN trades}
        /\ lastOpen' = IF picks = <<>> THEN lastOpen ELSE {minute + 1}
  BY <1>3 DEF Step
<1>5. /\ arrived \subseteq Epics /\ bufs \in [Epics -> Buffers]
      /\ \A e \in Epics \ arrived : bufs[e] = buffers[e]
      /\ seen \in [Epics -> [low : Int, high : Int]]
  BY IngestedIs
<1>6. \A e \in DOMAIN trades : Settled(trades[e], bufs[e], e \in arrived, out[e])
  BY <1>5, OutcomesAre
<1>7. kept \in SUBSET DOMAIN trades /\ kept \subseteq Epics
  BY DEF DayTyped
<1>8. Considered(kept, bufs, arrived) \subseteq Epics \ kept
  BY DEF Considered, Eligible
<1>9. /\ DOMAIN picks \subseteq Epics \ kept /\ IsFiniteSet(DOMAIN picks)
      /\ \A e \in DOMAIN picks : picks[e] \in {1, -1} /\ AtrOf(bufs[e]) > 0
      /\ strategy.ranker /\ picks # <<>> =>
           Slots(kept) > 0 /\ Cardinality(DOMAIN picks) =< Slots(kept)
      /\ \E E \in SUBSET Epics : IsFiniteSet(E) /\ picks \in Picks(kept, Intents(E, bufs))
  <2> PICK E : E = Considered(kept, bufs, arrived)
    OBVIOUS
  <2>1. IsFiniteSet(E) /\ Slots(kept) \in Int
    <3>1. IsFiniteSet(Epics) /\ Slots(kept) \in Int
      BY <1>7, BookIs
    <3>2. E \in SUBSET Epics
      BY <1>8
    <3> QED BY <3>1, <3>2, FS_Subset
  <2>5. E \in SUBSET Epics
    BY <1>8
  <2>2. \A q \in Picks(kept, Intents(E, bufs)) : Admitted(q, E, bufs, kept)
    BY <2>1, PicksAre
  <2>3. picks \in Picks(kept, Intents(E, bufs))
    BY <1>4
  <2>4. Admitted(picks, E, bufs, kept)
    BY <2>2, <2>3
  <2> QED BY <1>8, <2>1, <2>3, <2>4, <2>5 DEF Admitted
<1>10. Played(arrived, bufs, out, kept, picks)
  BY <1>5, <1>6, <1>9 DEF Played
<1>11. DOMAIN trades' = kept \cup DOMAIN picks
  BY <1>4
<1>12. \A e \in kept : trades'[e] = Moved(trades[e], out[e].stop) /\ trades'[e] \in Trades
  <2> SUFFICES ASSUME NEW e \in kept
               PROVE  trades'[e] = Moved(trades[e], out[e].stop) /\ trades'[e] \in Trades
    OBVIOUS
  <2>1. trades'[e] = Moved(trades[e], out[e].stop)
    BY <1>4
  <2>2. trades[e] \in Trades /\ Sensible(trades[e], bufs[e], out[e].stop)
    BY <1>6, <1>7 DEF DayTyped, Settled
  <2>3. Moved(trades[e], out[e].stop) \in Trades
    BY <2>2, MovedIs
  <2> QED BY <2>1, <2>3
<1>13. \A e \in DOMAIN picks : Fresh(trades'[e], LastCandle(bufs[e])) /\ trades'[e].sign = picks[e]
  <2> SUFFICES ASSUME NEW e \in DOMAIN picks
               PROVE  Fresh(trades'[e], LastCandle(bufs[e])) /\ trades'[e].sign = picks[e]
    OBVIOUS
  <2>1. e \in Epics /\ e \notin kept
    BY <1>9
  <2>2. trades'[e] = Opened(e, picks[e], bufs, seen)
    BY <1>4, <2>1
  <2> PICK sign \in {1, -1} : sign = picks[e]
    BY <1>9
  <2>3. AtrOf(bufs[e]) > 0
    BY <1>9
  <2> PICK p : p = Opened(e, sign, bufs, seen)
    OBVIOUS
  <2>4. /\ p \in Trades /\ p.opened = minute + 1 /\ p.loose = p.follower /\ p.sign = sign
        /\ sign * (CloseOut(LastCandle(bufs[e]), sign) - p.follower) > 0
    BY <1>5, <2>1, <2>3, OpenedIs
  <2>5. Fresh(p, LastCandle(bufs[e]))
    BY <2>4 DEF Fresh
  <2> QED BY <2>2, <2>4, <2>5
<1>14. trades' \in [DOMAIN trades' -> Trades]
  <2>1. \A e \in kept \cup DOMAIN picks : trades'[e] \in Trades
    BY <1>12, <1>13 DEF Fresh
  <2>2. trades' = [e \in kept \cup DOMAIN picks |-> trades'[e]]
    BY <1>4
  <2> QED BY <1>11, <2>1, <2>2
<1>15. Became(arrived, bufs, out, kept, picks)
  BY <1>1, <1>2, <1>4, <1>5, <1>11, <1>12, <1>13, <1>14 DEF Became
<1> QED
  BY <1>10, <1>15

-----------------------------------------------------------------------------
(***************************************************************************)
(* The stop never gives ground, and stays behind the price.                *)
(***************************************************************************)

\* Every open position has a stop.  The code reads one that is zero or less as
\* none ("follower > 0" guards every comparison with it).
StopsSet == \A e \in DOMAIN trades : trades[e].follower > 0
\* A replayed candle is compared with the stop whatever its sign.
LiveStopsSet == mode = "live" => StopsSet

LEMMA DayStarts ==
    ASSUME Init PROVE DayTyped
<1>1. day \in Days /\ minute = Len(Opening)
  BY DEF Init
<1>2. minute \in Int
  BY <1>1, DayAssumption
<1>3. buffers \in [Epics -> Buffers]
  BY WarmedIs DEF Init
<1>4. extremes \in [Epics -> [low : Int, high : Int]]
  <2> PICK s \in Seq(Sound) : s = Warmed /\ s # <<>>
    BY WarmedIs, LastIs
  <2> PICK f : f = [i \in DOMAIN s |-> s[i].low]
    OBVIOUS
  <2> PICK g : g = [i \in DOMAIN s |-> Adverse(s[i], -1)]
    OBVIOUS
  <2>1. f \in Seq(Int) /\ g \in Seq(Int)
    <3> PICK sign \in {1, -1} : sign = -1
      OBVIOUS
    <3>1. [i \in DOMAIN s |-> Adverse(s[i], sign)] \in Seq(Int)
          /\ [i \in DOMAIN s |-> s[i].low] \in Seq(Int)
      BY SeriesAre
    <3> QED BY <3>1
  <2>2. f # <<>> /\ g # <<>>
    <3>1. 1 \in DOMAIN s
      BY SequenceFinite
    <3>2. DOMAIN f = DOMAIN s /\ DOMAIN g = DOMAIN s
      OBVIOUS
    <3> QED BY <3>1, <3>2
  <2>3. Lowest(f) \in Int /\ Highest(g) \in Int
    BY <2>1, <2>2, ExtremesAre
  <2>4. extremes = [e \in Epics |-> [low |-> Lowest(f), high |-> Highest(g)]]
    BY DEF Init
  <2> QED BY <2>3, <2>4
<1>5. trades = <<>>
  BY DEF Init
<1>6. DOMAIN trades = {} /\ trades \in [{} -> Trades]
  BY <1>5
<1> QED
  BY <1>1, <1>2, <1>3, <1>4, <1>6 DEF DayTyped

LEMMA DayGoesOn ==
    ASSUME DayTyped, [Next]_vars PROVE DayTyped'
<1>1. CASE Minute
  <2> PICK arrived, bufs, out, kept, picks :
         Played(arrived, bufs, out, kept, picks) /\ Became(arrived, bufs, out, kept, picks)
    BY <1>1, MinuteIs
  <2>1. day' \in Days /\ minute' \in Int /\ Epics' = Epics
    BY DEF DayTyped, Became, Epics
  <2>2. buffers' \in [Epics' -> Buffers] /\ extremes' \in [Epics' -> [low : Int, high : Int]]
    BY <2>1 DEF Played, Became
  <2>3. trades' \in [DOMAIN trades' -> Trades] /\ DOMAIN trades' \subseteq Epics'
    BY <2>1 DEF Played, Became, DayTyped
  <2>4. \A e \in DOMAIN trades' : trades'[e].opened =< minute'
    <3> SUFFICES ASSUME NEW e \in DOMAIN trades' PROVE trades'[e].opened =< minute'
      OBVIOUS
    <3>1. minute' = minute + 1 /\ minute \in Int
      BY DEF DayTyped, Became
    <3>2. CASE e \in kept
      <4> PICK p \in Trades : p = trades[e] /\ p.opened =< minute
        BY <3>2 DEF Played, DayTyped
      <4>1. Sensible(p, bufs[e], out[e].stop)
        BY <3>2 DEF Played, Settled
      <4>2. trades'[e].opened = p.opened
        BY <3>2, <4>1, MovedIs DEF Became
      <4> QED BY <3>1, <4>2, TradeIs
    <3>3. CASE e \in DOMAIN picks
      BY <3>1, <3>3 DEF Became, Fresh
    <3> QED BY <3>2, <3>3 DEF Became
  <2> QED BY <2>1, <2>2, <2>3, <2>4 DEF DayTyped
<1>2. CASE EndOfDay
  <2>1. /\ day' = day /\ minute' = minute /\ buffers' = buffers /\ extremes' = extremes
        /\ trades' = <<>>
    BY <1>2 DEF EndOfDay
  <2>2. DOMAIN trades' = {} /\ trades' \in [{} -> Trades]
    BY <2>1
  <2> QED BY <2>1, <2>2 DEF DayTyped, Epics
<1>3. CASE UNCHANGED vars
  BY <1>3 DEF vars, DayTyped, Epics
<1> QED
  BY <1>1, <1>2, <1>3 DEF Next

\* The type invariant, which also says that the buffers are never empty, that
\* their candles are well formed, and that no position was opened later than now.
THEOREM DayHolds == Spec => []DayTyped
BY DayStarts, DayGoesOn, PTL DEF Spec

LEMMA StepTightens ==
    ASSUME DayTyped, StopsSet, Next
    PROVE  \A e \in Both : Same(e) =>
             trades[e].sign * (trades'[e].follower - trades[e].follower) >= 0
<1> SUFFICES ASSUME NEW e \in Both, Same(e)
             PROVE  trades[e].sign * (trades'[e].follower - trades[e].follower) >= 0
  OBVIOUS
<1>1. CASE Minute
  <2> PICK arrived, bufs, out, kept, picks :
         Played(arrived, bufs, out, kept, picks) /\ Became(arrived, bufs, out, kept, picks)
    BY <1>1, MinuteIs
  <2> PICK p \in Trades : p = trades[e] /\ p.opened =< minute /\ p.follower > 0
    BY DEF Both, DayTyped, StopsSet
  <2>1. e \in DOMAIN trades /\ e \in DOMAIN trades'
    BY DEF Both
  <2>2. CASE e \in kept
    <3> PICK L : L = out[e].stop
      OBVIOUS
    <3>1. Sensible(p, bufs[e], L)
      BY <2>1 DEF Played, Settled
    <3> PICK q : q = Moved(p, L)
      OBVIOUS
    <3>2. (L = {} /\ q.follower = p.follower) \/ q.follower \in L
      BY <3>1, MovedIs
    <3>3. p.sign * (q.follower - p.follower) >= 0
      <4>1. CASE q.follower = p.follower
        BY <4>1, TradeIs
      <4>2. CASE q.follower \in L
        <5> PICK l \in Int : l = q.follower /\ p.sign * (l - p.follower) > 0
          BY <3>1, <4>2 DEF Sensible
        <5> PICK y \in Int : y = p.sign * (l - p.follower)
          BY TradeIs
        <5>1. y >= 0
          OBVIOUS
        <5> QED BY <5>1
      <4> QED BY <3>2, <4>1, <4>2
    <3>4. trades'[e] = q
      BY <2>2 DEF Became
    <3> QED BY <3>3, <3>4
  <2>3. CASE e \notin kept
    <3>1. trades'[e].opened = minute + 1
      BY <2>1, <2>3 DEF Became, Fresh
    <3>2. p.opened = minute + 1
      BY <3>1 DEF Same
    <3> QED BY <3>2, TradeIs DEF DayTyped
  <2> QED BY <2>2, <2>3
<1>2. CASE EndOfDay
  <2>1. trades' = <<>>
    BY <1>2 DEF EndOfDay
  <2>2. DOMAIN trades' = {}
    BY <2>1
  <2> QED BY <2>2 DEF Both
<1> QED
  BY <1>1, <1>2 DEF Next

\* manage_position and StrategySimulator._monitor: whatever updaters a profile
\* names for its zones, and whatever the price does between the zones, the stop
\* of a position only ever moves in its favour.
THEOREM FollowersTighten == Spec /\ []StopsSet => FollowerTightens
<1>1. DayTyped /\ StopsSet /\ [Next]_vars =>
        [\A e \in Both : Same(e) =>
           trades[e].sign * (trades'[e].follower - trades[e].follower) >= 0]_vars
  BY StepTightens
<1> QED
  BY <1>1, DayHolds, PTL DEF Spec, FollowerTightens

LEMMA StepStaysBehind ==
    ASSUME DayTyped, LiveStopsSet, StopBehindPrice, [Next]_vars
    PROVE  StopBehindPrice'
<1>1. CASE Minute
  <2> PICK arrived, bufs, out, kept, picks :
         Played(arrived, bufs, out, kept, picks) /\ Became(arrived, bufs, out, kept, picks)
    BY <1>1, MinuteIs
  <2> SUFFICES ASSUME NEW e \in DOMAIN trades'
               PROVE  trades'[e].sign * (CloseOut(LastCandle(bufs[e]), trades'[e].sign)
                                           - trades'[e].follower) > 0
    BY DEF StopBehindPrice, Became, LastCandle
  <2>1. CASE e \in DOMAIN picks
    BY <2>1 DEF Became, Fresh
  <2>2. CASE e \in kept
    <3>1. e \in DOMAIN trades /\ out[e].close = {}
      BY <2>2 DEF Played
    <3> PICK p \in Trades : p = trades[e]
      BY <3>1 DEF DayTyped
    <3> PICK o : o = out[e]
      OBVIOUS
    <3> PICK s : s = bufs[e]
      OBVIOUS
    <3>2. Settled(p, s, e \in arrived, o)
      BY <3>1 DEF Played
    <3>3. Sensible(p, s, o.stop)
      BY <3>2 DEF Settled
    <3> PICK q : q = Moved(p, o.stop)
      OBVIOUS
    <3>4. q.sign = p.sign /\ ((o.stop = {} /\ q.follower = p.follower) \/ q.follower \in o.stop)
      BY <3>3, MovedIs
    <3>5. p.sign * (CloseOut(LastCandle(s), p.sign) - q.follower) > 0
      <4>1. CASE q.follower \in o.stop
        BY <3>3, <4>1 DEF Sensible
      <4>2. CASE q.follower = p.follower
        <5>1. CASE mode = "live"
          <6>1. p.follower > 0
            BY <3>1, <5>1 DEF LiveStopsSet, StopsSet
          <6> QED BY <3>1, <3>2, <4>2, <5>1, <6>1 DEF Settled
        <5>2. CASE mode # "live" /\ e \in arrived
          BY <3>1, <3>2, <4>2, <5>2 DEF Settled
        <5>3. CASE e \notin arrived
          <6>1. s = buffers[e]
            BY <3>1, <5>3 DEF Played, DayTyped
          <6>2. p.sign * (CloseOut(LastCandle(s), p.sign) - p.follower) > 0
            BY <3>1, <6>1 DEF StopBehindPrice, LastCandle
          <6> QED BY <4>2, <6>2
        <5> QED BY <5>1, <5>2, <5>3
      <4> QED BY <3>4, <4>1, <4>2
    <3>6. trades'[e] = q
      BY <2>2 DEF Became
    <3> QED BY <3>4, <3>5, <3>6
  <2> QED BY <2>1, <2>2 DEF Became
<1>2. CASE EndOfDay
  <2>1. trades' = <<>>
    BY <1>2 DEF EndOfDay
  <2>2. DOMAIN trades' = {}
    BY <2>1
  <2> QED BY <2>2 DEF StopBehindPrice
<1>3. CASE UNCHANGED vars
  BY <1>3 DEF vars, StopBehindPrice
<1> QED
  BY <1>1, <1>2, <1>3 DEF Next

\* The stop policies of entry and the updaters of exit: no stop is put at or past
\* the price its position would be closed at.
THEOREM StopsStayBehind == Spec /\ []LiveStopsSet => []StopBehindPrice
<1>1. Init => StopBehindPrice
  <2> SUFFICES ASSUME Init PROVE StopBehindPrice
    OBVIOUS
  <2>1. trades = <<>>
    BY DEF Init
  <2>2. DOMAIN trades = {}
    BY <2>1
  <2> QED BY <2>2 DEF StopBehindPrice
<1>2. DayTyped /\ LiveStopsSet /\ StopBehindPrice /\ [Next]_vars => StopBehindPrice'
  BY StepStaysBehind
<1> QED
  BY <1>1, <1>2, DayHolds, PTL DEF Spec

-----------------------------------------------------------------------------
(***************************************************************************)
(* The loss of a replayed trade.                                           *)
(***************************************************************************)

\* The stop a position is managed by is never looser than the one it opened
\* with, and no trade was closed past that one.
Guarded ==
    /\ mode = "replay" => \A e \in DOMAIN trades : trades[e].sign * (trades[e].follower - trades[e].loose) >= 0
    /\ LossWithinRisk

\* What is subtracted twice.
LEMMA Further ==
    ASSUME NEW sign \in {1, -1}, NEW a \in Int, NEW b \in Int, NEW c \in Int,
           sign * (a - b) >= 0, sign * (b - c) >= 0
    PROVE  sign * (a - c) >= 0
OBVIOUS

LEMMA MinuteGuards ==
    ASSUME DayTyped, StopsSet, Guarded, Minute PROVE Guarded'
<1> PICK arrived, bufs, out, kept, picks :
       Played(arrived, bufs, out, kept, picks) /\ Became(arrived, bufs, out, kept, picks)
  BY MinuteIs
<1>1. mode' = mode
  BY DEF Became, mode
<1>2. ASSUME mode = "replay", NEW e \in DOMAIN trades'
      PROVE  trades'[e].sign * (trades'[e].follower - trades'[e].loose) >= 0
  <2>1. CASE e \in DOMAIN picks
    <3> PICK q \in Trades : q = trades'[e] /\ q.loose = q.follower
      BY <2>1 DEF Became, Fresh
    <3> QED BY TradeIs
  <2>2. CASE e \in kept
    <3>1. e \in DOMAIN trades
      BY <2>2 DEF Played
    <3> PICK p \in Trades : p = trades[e] /\ p.follower > 0 /\ p.sign * (p.follower - p.loose) >= 0
      BY <3>1, <1>2 DEF DayTyped, StopsSet, Guarded
    <3> PICK L : L = out[e].stop
      OBVIOUS
    <3>2. Sensible(p, bufs[e], L)
      BY <3>1 DEF Played, Settled
    <3> PICK q : q = Moved(p, L)
      OBVIOUS
    <3>3. q.sign = p.sign /\ q.loose = p.loose
          /\ ((L = {} /\ q.follower = p.follower) \/ q.follower \in L)
      BY <3>2, MovedIs
    <3>4. p.sign * (q.follower - p.loose) >= 0
      <4>1. CASE q.follower = p.follower
        BY <4>1
      <4>2. CASE q.follower \in L
        <5> PICK l \in Int : l = q.follower /\ p.sign * (l - p.follower) > 0
          BY <3>2, <4>2 DEF Sensible
        <5> PICK y \in Int : y = p.sign * (l - p.follower)
          BY TradeIs
        <5>1. p.sign * (l - p.follower) >= 0
          OBVIOUS
        <5>2. p.sign \in {1, -1} /\ p.follower \in Int /\ p.loose \in Int
          BY TradeIs
        <5>3. p.sign * (l - p.loose) >= 0
          BY <5>1, <5>2, Further
        <5> QED BY <5>3
      <4> QED BY <3>3, <4>1, <4>2
    <3>5. trades'[e] = q
      BY <2>2 DEF Became
    <3> QED BY <3>3, <3>4, <3>5
  <2> QED BY <1>2, <2>1, <2>2 DEF Became
<1>3. ASSUME mode = "replay", NEW r \in closed' PROVE r.sign * (r.level - r.loose) >= 0
  <2>1. CASE r \in closed
    BY <1>3, <2>1 DEF Guarded, LossWithinRisk
  <2>2. CASE r \notin closed
    <3> PICK e \in DOMAIN trades : \E x \in out[e].close : r = Result(trades[e], x)
      BY <2>2 DEF Became
    <3> PICK x \in out[e].close : r = Result(trades[e], x)
      OBVIOUS
    <3> PICK p \in Trades : p = trades[e] /\ p.sign * (p.follower - p.loose) >= 0
      BY <1>3 DEF DayTyped, Guarded
    <3>1. x.level \in Int /\ p.sign * (x.level - p.follower) >= 0
      BY <1>3 DEF Played, Settled
    <3>2. p.sign \in {1, -1} /\ p.follower \in Int /\ p.loose \in Int
      BY TradeIs
    <3>3. p.sign * (x.level - p.loose) >= 0
      BY <3>1, <3>2, Further
    <3>4. r.sign = p.sign /\ r.level = x.level /\ r.loose = p.loose
      BY DEF Result
    <3> QED BY <3>3, <3>4
  <2> QED BY <2>1, <2>2
<1> QED
  BY <1>1, <1>2, <1>3 DEF Guarded, LossWithinRisk

LEMMA EndGuards ==
    ASSUME DayTyped, StopBehindPrice, Guarded, EndOfDay PROVE Guarded'
<1>1. trades' = <<>> /\ mode' = mode /\ mode = "replay"
  BY DEF EndOfDay, mode
<1>2. DOMAIN trades' = {}
  BY <1>1
<1>3. ASSUME NEW r \in closed' PROVE r.sign * (r.level - r.loose) >= 0
  <2>1. CASE r \in closed
    BY <1>1, <2>1 DEF Guarded, LossWithinRisk
  <2>2. CASE r \notin closed
    <3> PICK e \in DOMAIN trades :
          r = Result(trades[e], [level |-> CloseOut(LastCandle(buffers[e]), trades[e].sign),
                                 reason |-> "end_of_day"])
      BY <2>2 DEF EndOfDay, LastCandle
    <3> PICK p \in Trades : p = trades[e] /\ p.sign * (p.follower - p.loose) >= 0
      BY <1>1 DEF DayTyped, Guarded
    <3>1. buffers[e] \in Buffers
      BY DEF DayTyped
    <3>2. p.sign \in {1, -1} /\ p.follower \in Int /\ p.loose \in Int
      BY TradeIs
    <3> PICK c \in Int : c = CloseOut(LastCandle(buffers[e]), p.sign)
      BY <3>1, <3>2, CloseOutIs
    <3>3. p.sign * (c - p.follower) > 0
      BY DEF StopBehindPrice, LastCandle
    <3>4. p.sign * (c - p.follower) >= 0
      <4> PICK y \in Int : y = p.sign * (c - p.follower)
        BY <3>2
      <4> QED BY <3>3
    <3>5. p.sign * (c - p.loose) >= 0
      BY <3>2, <3>4, Further
    <3>6. r.sign = p.sign /\ r.level = c /\ r.loose = p.loose
      BY DEF Result
    <3> QED BY <3>5, <3>6
  <2> QED BY <2>1, <2>2
<1> QED
  BY <1>1, <1>2, <1>3 DEF Guarded, LossWithinRisk

\* StrategySimulator: the level a trade is closed at, by its stop, by a reason of
\* the profile or at the end of the candles, is never worse than its first stop.
THEOREM LossesStayWithinRisk == Spec /\ []StopsSet => []LossWithinRisk
<1>1. Init => Guarded
  <2> SUFFICES ASSUME Init PROVE Guarded
    OBVIOUS
  <2>1. trades = <<>> /\ closed = {}
    BY DEF Init
  <2>2. DOMAIN trades = {}
    BY <2>1
  <2> QED BY <2>1, <2>2 DEF Guarded, LossWithinRisk
<1>2. DayTyped /\ StopsSet /\ StopBehindPrice /\ Guarded /\ [Next]_vars => Guarded'
  <2> SUFFICES ASSUME DayTyped, StopsSet, StopBehindPrice, Guarded, [Next]_vars PROVE Guarded'
    OBVIOUS
  <2>1. CASE UNCHANGED vars
    BY <2>1 DEF vars, Guarded, LossWithinRisk, mode
  <2> QED BY <2>1, MinuteGuards, EndGuards DEF Next
<1>3. StopsSet => LiveStopsSet
  BY DEF LiveStopsSet
<1>4. Guarded => LossWithinRisk
  BY DEF Guarded
<1> QED
  BY <1>1, <1>2, <1>3, <1>4, DayHolds, StopsStayBehind, PTL DEF Spec

-----------------------------------------------------------------------------
(***************************************************************************)
(* Pacing.                                                                 *)
(***************************************************************************)

\* When the day's positions were opened, those that are closed included.
Openings == {trades[e].opened : e \in DOMAIN trades} \cup {r.opened : r \in closed}

\* Every opening is one the last opening remembers.
PacedSoFar ==
    /\ \A k \in lastOpen : k \in Int /\ k =< minute
    /\ \A m \in Openings : m \in Int /\ \E k \in lastOpen : m =< k
    /\ strategy.ranker =>
         /\ Cardinality(DOMAIN trades) =< strategy.target
         /\ strategy.flat => \A e, f \in DOMAIN trades : trades[e].opened = trades[f].opened
         /\ strategy.cooldown > 0 =>
              \A m, n \in Openings : m < n => n - m >= strategy.cooldown

LEMMA MinutePaces ==
    ASSUME DayTyped, PacedSoFar, Minute PROVE PacedSoFar'
<1> PICK arrived, bufs, out, kept, picks :
       Played(arrived, bufs, out, kept, picks) /\ Became(arrived, bufs, out, kept, picks)
  BY MinuteIs
<1>1. /\ strategy' = strategy /\ minute \in Int /\ minute' = minute + 1
      /\ strategy.target \in Nat /\ strategy.cooldown \in Nat
      /\ DOMAIN trades' = kept \cup DOMAIN picks /\ kept \subseteq DOMAIN trades
      /\ lastOpen' = IF picks = <<>> THEN lastOpen ELSE {minute + 1}
  BY BookIs DEF Played, Became, DayTyped, strategy
<1>2. \A e \in kept : trades'[e].opened = trades[e].opened
  <2> SUFFICES ASSUME NEW e \in kept PROVE trades'[e].opened = trades[e].opened
    OBVIOUS
  <2>1. e \in DOMAIN trades
    BY <1>1
  <2> PICK p \in Trades : p = trades[e]
    BY <2>1 DEF DayTyped
  <2>2. Sensible(p, bufs[e], out[e].stop)
    BY <2>1 DEF Played, Settled
  <2>3. Moved(p, out[e].stop).opened = p.opened
    BY <2>2, MovedIs
  <2> QED BY <2>3 DEF Became
<1>3. \A e \in DOMAIN picks : trades'[e].opened = minute + 1
  BY DEF Became, Fresh
<1>4. \A m \in Openings' : m \in Openings \/ (m = minute + 1 /\ picks # <<>>)
  <2> SUFFICES ASSUME NEW m \in Openings', m \notin Openings
               PROVE  m = minute + 1 /\ picks # <<>>
    OBVIOUS
  <2>1. CASE \E e \in DOMAIN trades' : m = trades'[e].opened
    <3> PICK e \in DOMAIN trades' : m = trades'[e].opened
      BY <2>1
    <3>1. e \notin kept
      BY <1>1, <1>2 DEF Openings
    <3>2. e \in DOMAIN picks
      BY <1>1, <3>1
    <3> QED BY <1>3, <3>2
  <2>2. CASE \E r \in closed' : m = r.opened
    <3> PICK r \in closed' : m = r.opened
      BY <2>2
    <3>1. r \notin closed
      BY DEF Openings
    <3> PICK e \in DOMAIN trades : \E x \in out[e].close : r = Result(trades[e], x)
      BY <3>1 DEF Became
    <3> PICK x \in out[e].close : r = Result(trades[e], x)
      OBVIOUS
    <3>2. r.opened = trades[e].opened
      BY DEF Result
    <3> QED BY <3>2 DEF Openings
  <2> QED BY <2>1, <2>2 DEF Openings
<1>5. \A k \in lastOpen' : k \in Int /\ k =< minute'
  BY <1>1 DEF PacedSoFar
<1>6. \A m \in Openings' : m \in Int /\ \E k \in lastOpen' : m =< k
  <2> SUFFICES ASSUME NEW m \in Openings' PROVE m \in Int /\ \E k \in lastOpen' : m =< k
    OBVIOUS
  <2>1. CASE m \in Openings
    <3> PICK k \in lastOpen : m \in Int /\ k \in Int /\ m =< k /\ k =< minute
      BY <2>1 DEF PacedSoFar
    <3>1. m =< minute + 1
      BY <1>1
    <3> QED BY <1>1, <3>1
  <2>2. CASE m \notin Openings
    BY <1>1, <1>4, <2>2
  <2> QED BY <2>1, <2>2
<1>7. ASSUME strategy.ranker
      PROVE  /\ Cardinality(DOMAIN trades') =< strategy.target
             /\ strategy.flat => \A e, f \in DOMAIN trades' : trades'[e].opened = trades'[f].opened
             /\ strategy.cooldown > 0 =>
                  \A m, n \in Openings' : m < n => n - m >= strategy.cooldown
  <2>1. /\ IsFiniteSet(kept) /\ Cardinality(kept) \in Nat
        /\ Cardinality(kept) =< Cardinality(DOMAIN trades) /\ Cardinality(DOMAIN trades) \in Nat
        /\ Slots(kept) \in Int /\ (Slots(kept) > 0 => Paced)
        /\ Slots(kept) > 0 => Slots(kept) =< strategy.target - Cardinality(kept)
        /\ Slots(kept) > 0 /\ strategy.flat => kept = {}
    BY <1>1, BookIs
  <2>2. CASE picks = <<>>
    <3>1. DOMAIN picks = {}
      BY <2>2
    <3>2. DOMAIN trades' = kept
      BY <1>1, <3>1
    <3>3. Cardinality(DOMAIN trades') =< strategy.target
      BY <1>1, <1>7, <2>1, <3>2 DEF PacedSoFar
    <3>4. \A m \in Openings' : m \in Openings
      BY <1>4, <2>2
    <3>5. strategy.flat => \A e, f \in kept : trades'[e].opened = trades'[f].opened
      BY <1>1, <1>2, <1>7 DEF PacedSoFar
    <3> QED BY <1>7, <3>2, <3>3, <3>4, <3>5 DEF PacedSoFar
  <2>3. CASE picks # <<>>
    <3>1. /\ Slots(kept) > 0 /\ Cardinality(DOMAIN picks) =< Slots(kept)
          /\ IsFiniteSet(DOMAIN picks)
      BY <1>7, <2>3 DEF Played
    <3>2. Cardinality(DOMAIN trades') =< strategy.target
      <4> PICK k \in Nat : k = Cardinality(kept)
        BY <2>1
      <4> PICK n \in Nat : n = Cardinality(DOMAIN picks)
        BY <3>1, FS_CardinalityType
      <4>1. kept \cap DOMAIN picks = {}
        BY DEF Played
      <4>2. Cardinality(kept \cup DOMAIN picks) = k + n - Cardinality(kept \cap DOMAIN picks)
        BY <2>1, <3>1, FS_Union
      <4>3. Cardinality(kept \cup DOMAIN picks) = k + n
        BY <4>1, <4>2, FS_EmptySet
      <4> PICK s \in Int : s = Slots(kept)
        BY <2>1
      <4>4. s =< strategy.target - k /\ n =< s
        BY <2>1, <3>1
      <4>5. k + n =< strategy.target
        BY <1>1, <4>4
      <4> QED BY <1>1, <4>3, <4>5
    <3>3. strategy.flat => \A e, f \in DOMAIN trades' : trades'[e].opened = trades'[f].opened
      BY <1>1, <1>3, <2>1, <3>1
    <3>4. ASSUME strategy.cooldown > 0, NEW m \in Openings', NEW n \in Openings', m < n
          PROVE  n - m >= strategy.cooldown
      <4>1. Paced
        BY <2>1, <3>1
      <4>2. CASE m \in Openings /\ n \in Openings
        BY <1>7, <3>4, <4>2 DEF PacedSoFar
      <4>3. CASE m \in Openings /\ n = minute + 1
        <5> PICK k \in lastOpen : m \in Int /\ k \in Int /\ m =< k
          BY <4>3 DEF PacedSoFar
        <5>1. minute + 1 - k >= strategy.cooldown
          BY <3>4, <4>1 DEF Paced
        <5> QED BY <1>1, <4>3, <5>1
      <4>4. CASE m = minute + 1 /\ n \in Openings
        <5> PICK k \in lastOpen : n \in Int /\ k \in Int /\ n =< k /\ k =< minute
          BY <4>4 DEF PacedSoFar
        <5>1. ~(m < n)
          BY <1>1, <4>4
        <5> QED BY <3>4, <5>1
      <4>5. CASE m = minute + 1 /\ n = minute + 1
        BY <1>1, <3>4, <4>5
      <4> QED BY <1>4, <4>2, <4>3, <4>4, <4>5
    <3> QED BY <3>2, <3>3, <3>4
  <2> QED BY <2>2, <2>3
<1>8. strategy.ranker' <=> strategy.ranker
  BY <1>1
<1> QED
  BY <1>1, <1>5, <1>6, <1>7, <1>8 DEF PacedSoFar

LEMMA EndPaces ==
    ASSUME DayTyped, PacedSoFar, EndOfDay PROVE PacedSoFar'
<1>1. strategy' = strategy /\ trades' = <<>> /\ minute' = minute /\ lastOpen' = lastOpen
  BY DEF EndOfDay, strategy
<1>2. DOMAIN trades' = {}
  BY <1>1
<1>3. \A m \in Openings' : m \in Openings
  <2> SUFFICES ASSUME NEW r \in closed' PROVE r.opened \in Openings
    BY <1>2 DEF Openings
  <2>1. CASE r \in closed
    BY <2>1 DEF Openings
  <2>2. CASE r \notin closed
    <3> PICK e \in DOMAIN trades :
          r = Result(trades[e], [level |-> CloseOut(LastCandle(buffers[e]), trades[e].sign),
                                 reason |-> "end_of_day"])
      BY <2>2 DEF EndOfDay, LastCandle
    <3>1. r.opened = trades[e].opened
      BY DEF Result
    <3> QED BY <3>1 DEF Openings
  <2> QED BY <2>1, <2>2
<1>4. Cardinality(DOMAIN trades') = 0 /\ strategy.target \in Nat
  BY <1>2, FS_EmptySet, BookIs
<1> QED
  BY <1>1, <1>2, <1>3, <1>4 DEF PacedSoFar

\* _select_and_open and the replay of it: the target is not exceeded, a flat-book
\* strategy's positions are of one opening, and openings are a cooldown apart.
THEOREM OpensStayPaced == Spec => []OpensPaced
<1>1. Init => PacedSoFar
  <2> SUFFICES ASSUME Init PROVE PacedSoFar
    OBVIOUS
  <2>1. trades = <<>> /\ closed = {} /\ lastOpen = {}
    BY DEF Init
  <2>2. DOMAIN trades = {}
    BY <2>1
  <2>3. Cardinality(DOMAIN trades) = 0 /\ strategy.target \in Nat
    BY <2>2, FS_EmptySet, BookIs, DayStarts
  <2> QED BY <2>1, <2>2, <2>3 DEF PacedSoFar, Openings
<1>2. DayTyped /\ PacedSoFar /\ [Next]_vars => PacedSoFar'
  <2> SUFFICES ASSUME DayTyped, PacedSoFar, [Next]_vars PROVE PacedSoFar'
    OBVIOUS
  <2>1. CASE UNCHANGED vars
    BY <2>1 DEF vars, PacedSoFar, Openings, strategy
  <2> QED BY <2>1, MinutePaces, EndPaces DEF Next
<1>3. PacedSoFar => OpensPaced
  BY DEF PacedSoFar, OpensPaced, Openings
<1> QED
  BY <1>1, <1>2, <1>3, DayHolds, PTL DEF Spec

-----------------------------------------------------------------------------
(***************************************************************************)
(* The promise of smartgroup.                                              *)
(***************************************************************************)

\* Every position was opened at a price: smartgroup leaves the others out.
PricesSet == \A e \in DOMAIN trades : trades[e].open > 0

LEMMA HaircutGrows ==
    ASSUME NEW a \in Int, NEW b \in Int, a =< b
    PROVE  Haircut(a) \in Int /\ Haircut(b) \in Int /\ Haircut(a) =< Haircut(b)
BY DEF Haircut, Abs

\* What a position banks grows with its stop.
LEMMA StopBanks ==
    ASSUME NEW sign \in {1, -1}, NEW k \in Int, NEW l \in Int, NEW slip \in Int, NEW open \in Int,
           sign * (l - k) >= 0
    PROVE  /\ sign * (k - sign * slip - open) * 1 \in Int
           /\ sign * (l - sign * slip - open) * 1 \in Int
           /\ sign * (k - sign * slip - open) * 1 =< sign * (l - sign * slip - open) * 1
<1>1. CASE sign = 1
  BY <1>1
<1>2. CASE sign = -1
  BY <1>2
<1> QED
  BY <1>1, <1>2

LEMMA AtLeast ==
    ASSUME NEW sign \in {1, -1}, NEW a \in Int, NEW b \in Int, sign * (a - b) > 0
    PROVE  sign * (a - b) >= 0
OBVIOUS

\* Of the levels, the furthest is there, and no other is beyond it.
LEMMA FurthestIs ==
    ASSUME NEW x, NEW L, IsFiniteSet(L), L \subseteq Int, x.sign \in {1, -1}, x.zero \in Int,
           L # {}
    PROVE  Furthest(x, L) # {}
<1> DEFINE f == [l \in L |-> Gain(x, l)]
           S == {f[l] : l \in DOMAIN f}
<1>1. IsFiniteSet(S)
  <2>1. IsFiniteSet(DOMAIN f)
    OBVIOUS
  <2> HIDE DEF f
  <2> QED BY <2>1, ImageFinite
<1>2. S # {} /\ S \subseteq Int
  <2> SUFFICES ASSUME NEW l \in L PROVE f[l] \in Int
    OBVIOUS
  <2> PICK sign \in {1, -1}, d \in Int : sign = x.sign /\ d = l - x.zero
    OBVIOUS
  <2>1. sign * d \in Int
    OBVIOUS
  <2>2. f[l] = sign * d
    BY DEF Gain
  <2> QED BY <2>1, <2>2
<1>3. Max(S) \in S /\ \A y \in S : y =< Max(S)
  <2> HIDE DEF S
  <2> QED BY <1>1, <1>2, MaxIs
<1> PICK l \in L : Gain(x, l) = Max(S)
  BY <1>3
<1>4. \A k \in L : Gain(x, k) \in Int /\ Gain(x, k) =< Gain(x, l)
  BY <1>2, <1>3
<1>5. \A k \in L : Gain(x, l) >= Gain(x, k)
  BY <1>4
<1>6. l \in Furthest(x, L)
  BY <1>5 DEF Furthest
<1> QED
  BY <1>6

\* The level a member's place in the plan assumes.
Assumed(m) == IF Tightens(m) THEN Candidate(m) ELSE m.follower

\* What manage_position lets through.
LetThrough(p, L) == {l \in L : p.follower > 0 => p.sign * (l - p.follower) > 0}

\* A member the plan counts on moves at least to where the plan assumes it.
LEMMA MemberMoves ==
    ASSUME NEW p \in Trades, NEW s \in Buffers, NEW f, Profiled(f), GroupAware(f), NEW group,
           NEW m, m = GroupMember(p, LastClose(s), s),
           Tightens(m) \/ p.follower > 0,
           group = IF Tightens(m) THEN {Candidate(m)} ELSE {},
           Sensible(p, s, group),
           NEW L,
           L = NewStop(f, p, Context(p, CloseOutPrice(LastClose(s), Spread(s), p.sign), s,
                                     group)),
           NEW kept, kept = LetThrough(p, L)
    PROVE  /\ Assumed(m) \in Int /\ Moved(p, kept).follower \in Int
           /\ p.sign * (Moved(p, kept).follower - Assumed(m)) >= 0
<1> PICK x : x = Context(p, CloseOutPrice(LastClose(s), Spread(s), p.sign), s, group)
  OBVIOUS
<1> PICK own : own = OwnProposal(f, p, x)
  OBVIOUS
<1> PICK c \in Int : c = Candidate(m)
  BY MemberIs
<1>1. m.sign = p.sign /\ m.follower = p.follower /\ p.follower \in Int /\ p.sign \in {1, -1}
  BY MemberIs, TradeIs
<1>2. x.sign = p.sign /\ x.zero = p.zero /\ p.zero \in Int /\ x.group = group
  BY TradeIs DEF Context
<1>3. Sensible(p, s, own) /\ Sensible(p, s, L) /\ L = Furthest(x, own \cup group)
  BY <1>2, NewStopIs DEF NewStop, WithGroup
<1>4. kept = L
  BY <1>3 DEF Sensible, LetThrough
<1>5. Sensible(p, s, kept)
  BY <1>3, <1>4
<1> PICK q : q = Moved(p, kept)
  OBVIOUS
<1>6. (kept = {} /\ q.follower = p.follower) \/ q.follower \in kept
  BY <1>5, MovedIs
<1>7. q.follower \in Int
  BY <1>1, <1>5, <1>6 DEF Sensible
<1>8. CASE Tightens(m)
  <2>1. group = {c}
    BY <1>8
  <2>2. IsFiniteSet(own \cup group) /\ own \cup group \subseteq Int
    <3>1. IsFiniteSet(group) /\ IsFiniteSet(own) /\ own \subseteq Int
      BY <1>3 DEF Sensible
    <3>2. IsFiniteSet(own \cup group)
      BY <3>1, FS_Union
    <3> QED BY <2>1, <3>1, <3>2
  <2>3. own \cup group # {}
    BY <2>1
  <2>4. L # {}
    BY <1>1, <1>2, <1>3, <2>2, <2>3, FurthestIs
  <2>5. q.follower \in L
    BY <1>4, <1>6, <2>4
  <2> PICK l \in Int : l = q.follower
    BY <1>7
  <2>6. Gain(x, l) >= Gain(x, c)
    BY <1>3, <2>1, <2>5 DEF Furthest
  <2>7. p.sign * (l - c) >= 0
    BY <1>1, <1>2, <2>6 DEF Gain
  <2> QED BY <1>8, <2>7 DEF Assumed
<1>9. CASE ~Tightens(m)
  <2>1. p.follower > 0 /\ Assumed(m) = p.follower
    BY <1>1, <1>9 DEF Assumed
  <2>2. CASE q.follower = p.follower
    BY <1>1, <2>1, <2>2
  <2>3. CASE q.follower \in kept
    <3> PICK l \in Int : l = q.follower /\ p.sign * (l - p.follower) > 0
      BY <1>5, <2>1, <2>3 DEF Sensible
    <3>1. p.sign * (l - p.follower) >= 0
      BY <1>1, AtLeast
    <3> QED BY <1>1, <2>1, <3>1
  <2> QED BY <1>6, <2>2, <2>3
<1> QED
  BY <1>8, <1>9

\* The minute of a pass whose plan is armed.
Armed(members, bufs) ==
    /\ mode = "live" /\ GroupAware(profile) /\ ~(minute + 1 >= CloseMinute)
    /\ GroupPlan(members) # <<>>
    /\ \A e \in DOMAIN trades :
         AtrOf(bufs[e]) > 0 /\ ~Hit(trades[e], LastCandle(bufs[e]))

AtStop(m) == Haircut(m.sign * (m.follower - m.sign * m.slip - m.open) * m.epp)

LEMMA ArmedPass ==
    ASSUME DayTyped, NEW bufs \in [Epics -> Buffers], NEW arrived,
           NEW members, members = Members(trades, bufs), Armed(members, bufs),
           NEW out, out = Outcomes(bufs, arrived, Plan(bufs)), NEW e \in DOMAIN trades,
           Tightens(members[e]) \/ trades[e].follower > 0, trades[e].open > 0
    PROVE  /\ out[e].close = {} /\ Sensible(trades[e], bufs[e], out[e].stop)
           /\ Assumed(members[e]) \in Int /\ Moved(trades[e], out[e].stop).follower \in Int
           /\ trades[e].sign *
                (Moved(trades[e], out[e].stop).follower - Assumed(members[e])) >= 0
<1> PICK p \in Trades : p = trades[e]
  BY DEF DayTyped
<1> PICK s \in Buffers : s = bufs[e]
  BY DEF DayTyped
<1> PICK f : f = profile /\ Profiled(f) /\ GroupAware(f)
  BY DaysAre DEF DayTyped, profile, Armed
<1> PICK plan : plan = GroupPlan(members)
  OBVIOUS
<1> PICK m : m = GroupMember(p, LastClose(s), s)
  OBVIOUS
<1>1. members[e] = m /\ e \in DOMAIN members
  BY DEF Members
<1>2. Plan(bufs) = plan
  BY DEF Plan
<1>3. m.open > 0 /\ m.epp > 0
  BY MemberIs
<1>4. GroupLevel(plan, e) = IF Tightens(m) THEN {Candidate(m)} ELSE {}
  <2> DEFINE movable == {i \in Priceable(members) : Tightens(members[i])}
  <2>1. plan = [i \in movable |-> Candidate(members[i])]
    BY DEF GroupPlan, Armed
  <2>2. e \in Priceable(members)
    BY <1>1, <1>3 DEF Priceable
  <2> QED BY <1>1, <2>1, <2>2 DEF GroupLevel
<1>5. Sensible(p, s, GroupLevel(plan, e))
  BY GroupLevelIs
<1> PICK price : price = CloseOutPrice(LastClose(s), Spread(s), p.sign)
  OBVIOUS
<1> PICK x : x = Context(p, price, s, GroupLevel(plan, e))
  OBVIOUS
<1> PICK L : L = NewStop(f, p, x)
  OBVIOUS
<1> PICK d : d = Evaluate(f, p, LastClose(s), s, AtClose, GroupLevel(plan, e))
  OBVIOUS
<1>6. price = CloseOut(LastCandle(s), p.sign)
  BY TradeIs, CloseOutIs
<1>7. ~AtClose /\ s # <<>> /\ AtrOf(s) # 0 /\ ~(p.sign * (price - p.follower) =< 0)
  <2>1. ~AtClose /\ AtrOf(s) > 0 /\ ~Hit(p, LastCandle(s))
    BY DEF Armed, AtClose
  <2>2. s # <<>> /\ AtrOf(s) \in Nat
    BY LastIs, AtrOfIs
  <2>3. AtrOf(s) # 0
    BY <2>1, <2>2
  <2>4. ~(p.sign * (price - p.follower) =< 0)
    BY <1>6, <2>1 DEF Hit
  <2> QED BY <2>1, <2>2, <2>3, <2>4
<1>8. d = [Hold EXCEPT !.stop = L]
  BY <1>7 DEF Evaluate
<1>9. d.close = {} /\ d.stop = L
  BY <1>8 DEF Hold
<1> PICK kept : kept = LetThrough(p, L)
  OBVIOUS
<1>10. out[e] = Outcome(p, LastCandle(s), d, e \in arrived)
  BY <1>2 DEF Outcomes
<1>11. out[e] = Managed(p, LastCandle(s), d)
  BY <1>10 DEF Outcome, Armed
<1>12. out[e].close = {} /\ out[e].stop = kept
  BY <1>9, <1>11 DEF Managed, LetThrough
<1>13. Sensible(p, s, kept)
  <2>1. Sensible(p, s, L)
    BY <1>5, NewStopIs
  <2>2. kept = L
    BY <2>1 DEF Sensible, LetThrough
  <2> QED BY <2>1, <2>2
<1>14. /\ Assumed(m) \in Int /\ Moved(p, kept).follower \in Int
       /\ p.sign * (Moved(p, kept).follower - Assumed(m)) >= 0
  <2>1. Tightens(m) \/ p.follower > 0
    BY <1>1
  <2> PICK group : group = GroupLevel(plan, e)
    OBVIOUS
  <2>2. L = NewStop(f, p, Context(p, CloseOutPrice(LastClose(s), Spread(s), p.sign), s, group))
    OBVIOUS
  <2>3. group = IF Tightens(m) THEN {Candidate(m)} ELSE {}
    BY <1>4
  <2>4. Sensible(p, s, group)
    BY <1>5
  <2> QED BY <2>1, <2>2, <2>3, <2>4, MemberMoves
<1> QED
  BY <1>1, <1>12, <1>13, <1>14

\* The book a pass leaves behind: what is not closed is moved.
Passed(bufs, out, after) ==
    /\ \E arrived : out = Outcomes(bufs, arrived, Plan(bufs))
    /\ \A e \in DOMAIN trades :
         out[e].close = {} => after[e] = Moved(trades[e], out[e].stop)

Left(members, after) ==
    [e \in DOMAIN trades |-> [members[e] EXCEPT !.follower = after[e].follower]]

BankedBy(left) == Total([e \in DOMAIN trades |-> AtStop(left[e])])

LEMMA PassBanks ==
    ASSUME DayTyped, PricesSet, NEW bufs \in [Epics -> Buffers], NEW out, NEW after,
           NEW members, members = Members(trades, bufs), Armed(members, bufs),
           Passed(bufs, out, after)
    PROVE  0 < BankedBy(Left(members, after))
<1> PICK arrived : out = Outcomes(bufs, arrived, Plan(bufs))
  BY DEF Passed
<1> PICK left : left = Left(members, after)
  OBVIOUS
<1> DEFINE D == DOMAIN trades
           s == [e \in D |-> Banked(members[e])]
           r == [e \in D |-> AtStop(left[e])]
<1>1. IsFiniteSet(D)
  BY BookIs
<1>2. ~Disarmed(members) /\ ~(BookTotal(members) =< 0)
  BY DEF Armed, GroupPlan
<1>3. \A e \in D : /\ members[e] = GroupMember(trades[e], LastClose(bufs[e]), bufs[e])
                   /\ trades[e] \in Trades /\ bufs[e] \in Buffers
  BY DEF Members, DayTyped
<1>4. DOMAIN members = D
  BY DEF Members
<1>5. \A e \in D : members[e].open = trades[e].open /\ members[e].epp = 1
                   /\ members[e].follower = trades[e].follower
                   /\ members[e].sign = trades[e].sign /\ members[e].slip \in Int
  BY <1>3, MemberIs
<1>6. Priceable(members) = D
  <2>1. \A e \in D : members[e].epp > 0 /\ members[e].open > 0
    BY <1>5 DEF PricesSet
  <2>2. Priceable(members) = {i \in D : members[i].epp > 0 /\ members[i].open > 0}
    BY <1>4 DEF Priceable
  <2> HIDE DEF D
  <2> QED BY <2>1, <2>2
<1>7. BookTotal(members) = Total(s)
  BY <1>6 DEF BookTotal
<1>8. \A e \in D : s[e] \in Int /\ r[e] \in Int /\ s[e] =< r[e]
  <2> SUFFICES ASSUME NEW e \in D PROVE s[e] \in Int /\ r[e] \in Int /\ s[e] =< r[e]
    OBVIOUS
  <2>1. Tightens(members[e]) \/ trades[e].follower > 0
    <3> PICK x \in Int : x = trades[e].follower
      BY <1>3, TradeIs
    <3> QED BY <1>2, <1>5, <1>6 DEF Disarmed
  <2> PICK m : m = members[e]
    OBVIOUS
  <2> PICK sign \in {1, -1} : sign = trades[e].sign
    BY <1>3, TradeIs
  <2> PICK open \in Int : open = trades[e].open
    BY <1>3, TradeIs
  <2>2. out[e].close = {} /\ Assumed(m) \in Int /\ Moved(trades[e], out[e].stop).follower \in Int
        /\ sign * (Moved(trades[e], out[e].stop).follower - Assumed(m)) >= 0
    BY <2>1, ArmedPass DEF PricesSet
  <2> PICK k \in Int : k = Assumed(m)
    BY <2>2
  <2>3. after[e] = Moved(trades[e], out[e].stop)
    BY <2>2 DEF Passed
  <2> PICK l \in Int : l = after[e].follower /\ sign * (l - k) >= 0
    BY <2>2, <2>3
  <2> PICK slip \in Int : slip = m.slip
    BY <1>5
  <2>4. m.sign = sign /\ m.open = open /\ m.epp = 1
    BY <1>5
  <2>5. s[e] = Haircut(sign * (k - sign * slip - open) * 1)
    BY <2>4 DEF Banked, Assumed
  <2>6. left[e].sign = sign /\ left[e].open = open /\ left[e].epp = 1 /\ left[e].slip = slip
        /\ left[e].follower = l
    <3>1. m = GroupMember(trades[e], LastClose(bufs[e]), bufs[e])
      BY <1>3
    <3>2. left[e] = [m EXCEPT !.follower = l]
      BY DEF Left
    <3>3. DOMAIN m = {"price", "noise", "mind", "sign", "open", "follower", "epp", "slip"}
      BY <3>1 DEF GroupMember
    <3> QED BY <2>4, <3>2, <3>3
  <2>7. r[e] = Haircut(sign * (l - sign * slip - open) * 1)
    BY <2>6 DEF AtStop
  <2> PICK x \in Int, y \in Int : x = sign * (k - sign * slip - open) * 1
                                  /\ y = sign * (l - sign * slip - open) * 1 /\ x =< y
    BY StopBanks
  <2>8. Haircut(x) \in Int /\ Haircut(y) \in Int /\ Haircut(x) =< Haircut(y)
    BY HaircutGrows
  <2> QED BY <2>5, <2>7, <2>8
<1>9. Total(s) =< Total(r) /\ Total(s) \in Int /\ Total(r) \in Int
  <2>1. DOMAIN s = D /\ DOMAIN r = D
    OBVIOUS
  <2> HIDE DEF s, r
  <2> QED BY <1>1, <1>8, <2>1, TotalGrows, TotalIsInt
<1>10. 0 < Total(r)
  <2> HIDE DEF s, r
  <2> QED BY <1>2, <1>7, <1>9
<1> QED
  BY <1>10 DEF BankedBy

LEMMA StepBanks ==
    ASSUME DayTyped, PricesSet, Next,
           Armed(Members(trades, buffers'), buffers')
    PROVE  0 < BankedBy(Left(Members(trades, buffers'), trades'))
<1> PICK bufs : bufs = buffers'
  OBVIOUS
<1> PICK after : after = trades'
  OBVIOUS
<1> PICK seen : seen = extremes'
  OBVIOUS
<1> PICK members : members = Members(trades, bufs)
  OBVIOUS
<1>1. Minute
  BY DEF Next, EndOfDay, Armed
<1>2. PICK shapes \in Arrivals :
         /\ buffers' = Ingested(shapes)
         /\ \E out \in {Outcomes(buffers', DOMAIN shapes, Plan(buffers'))} :
              Step(DOMAIN shapes, buffers', extremes', out, Kept(out))
  BY <1>1 DEF Minute
<1>3. bufs \in [Epics -> Buffers]
  BY <1>2, IngestedIs
<1> PICK arrived : arrived = DOMAIN shapes
  OBVIOUS
<1> PICK out : out = Outcomes(bufs, arrived, Plan(bufs))
  OBVIOUS
<1> PICK kept : kept = Kept(out)
  OBVIOUS
<1>4. Step(arrived, bufs, seen, out, kept)
  BY <1>2
<1>5. PICK picks \in Picks(kept, Intents(Considered(kept, bufs, arrived), bufs)) :
        trades' = [e \in kept \cup DOMAIN picks |->
                        IF e \in kept THEN Moved(trades[e], out[e].stop)
                        ELSE Opened(e, picks[e], bufs, seen)]
  BY <1>4 DEF Step
<1>6. \A e \in kept : after[e] = Moved(trades[e], out[e].stop)
  BY <1>5
<1>7. Passed(bufs, out, after)
  BY <1>6 DEF Passed, Kept
<1>8. Armed(members, bufs)
  OBVIOUS
<1>9. 0 < BankedBy(Left(members, after))
  BY <1>3, <1>7, <1>8, PassBanks
<1> QED
  BY <1>9

\* explain_group_tightening and manage_position: the stops a pass leaves, the
\* updaters' own levels included, bank at least what its plan was armed on.
THEOREM GroupPromiseHolds == Spec /\ []PricesSet => GroupPromise
<1>1. DayTyped /\ PricesSet /\ [Next]_vars =>
       [LET members == Members(trades, buffers')
           left == [e \in DOMAIN trades |-> [members[e] EXCEPT !.follower = trades'[e].follower]]
           atStop(m) == Haircut(m.sign * (m.follower - m.sign * m.slip - m.open) * m.epp)
       IN (/\ mode = "live" /\ GroupAware(profile) /\ ~(minute + 1 >= CloseMinute)
           /\ GroupPlan(members) # <<>>
           /\ \A e \in DOMAIN trades :
                 /\ AtrOf(buffers'[e]) > 0
                 /\ ~Hit(trades[e], buffers'[e][Len(buffers'[e])]))
          => 0 < Total([e \in DOMAIN trades |-> atStop(left[e])])]_vars
  BY StepBanks DEF Armed, LastCandle, BankedBy, Left, AtStop
<1> QED
  BY <1>1, DayHolds, PTL DEF Spec, GroupPromise

-----------------------------------------------------------------------------
(***************************************************************************)
(* Sums: any term first, any index, and linear in their terms.             *)
(***************************************************************************)

\* Induction over the size of a set.
LEMMA SizeInduction ==
    ASSUME NEW D, IsFiniteSet(D), NEW Good,
           \A T \in SUBSET D :
             (\A U \in SUBSET D : Cardinality(U) < Cardinality(T) => U \in Good) => T \in Good
    PROVE  SUBSET D \subseteq Good
<1> DEFINE bad == {T \in SUBSET D : T \notin Good}
           sizes == {Cardinality(T) : T \in bad}
<1>1. \A T \in SUBSET D : IsFiniteSet(T) /\ Cardinality(T) \in Nat
  BY FS_Subset, FS_CardinalityType
<1> SUFFICES ASSUME bad # {} PROVE FALSE
  OBVIOUS
<1>2. PICK m \in sizes : \A n \in sizes : m =< n
  <2>1. sizes \subseteq Nat /\ sizes # {}
    BY <1>1
  <2> HIDE DEF sizes
  <2> QED BY <2>1, LeastNat
<1>3. PICK T \in bad : Cardinality(T) = m
  BY <1>2
<1>4. \A U \in SUBSET D : Cardinality(U) < Cardinality(T) => U \in Good
  <2> SUFFICES ASSUME NEW U \in SUBSET D, Cardinality(U) < Cardinality(T), U \notin Good
               PROVE  FALSE
    OBVIOUS
  <2>1. Cardinality(U) \in sizes
    OBVIOUS
  <2> HIDE DEF sizes
  <2> QED BY <1>1, <1>2, <1>3, <2>1
<1> QED
  BY <1>4

\* Any term may be taken first.
LEMMA SumTakesOut ==
    ASSUME NEW s, IsFiniteSet(DOMAIN s), \A i \in DOMAIN s : s[i] \in Int,
           NEW g, SumsBy(g, s)
    PROVE  \A T \in SUBSET DOMAIN s : \A x \in T : g[T] = s[x] + g[T \ {x}]
<1> DEFINE D == DOMAIN s
           Good == {T \in SUBSET D : \A x \in T : g[T] = s[x] + g[T \ {x}]}
<1>1. \A T \in SUBSET D : g[T] \in Int
  BY SumIsInt
<1>2. ASSUME NEW T \in SUBSET D,
             \A U \in SUBSET D : Cardinality(U) < Cardinality(T) => U \in Good
      PROVE  T \in Good
  <2> SUFFICES ASSUME NEW x \in T PROVE g[T] = s[x] + g[T \ {x}]
    OBVIOUS
  <2> PICK p \in T : p = CHOOSE y \in T : TRUE
    OBVIOUS
  <2>1. g[T] = s[p] + g[T \ {p}]
    BY DEF SumsBy
  <2>2. \A y \in T : Cardinality(T \ {y}) < Cardinality(T)
    <3>1. IsFiniteSet(T) /\ Cardinality(T) \in Nat
      BY FS_Subset, FS_CardinalityType
    <3> SUFFICES ASSUME NEW y \in T PROVE Cardinality(T \ {y}) < Cardinality(T)
      OBVIOUS
    <3>2. Cardinality(T \ {y}) = Cardinality(T) - 1
      BY <3>1, FS_RemoveElement
    <3> QED BY <3>1, <3>2
  <2>3. CASE p = x
    BY <2>1, <2>3
  <2>4. CASE p # x
    <3>1. T \ {p} \in Good /\ T \ {x} \in Good
      BY <1>2, <2>2
    <3>2. g[T \ {p}] = s[x] + g[(T \ {p}) \ {x}] /\ g[T \ {x}] = s[p] + g[(T \ {x}) \ {p}]
      BY <2>4, <3>1
    <3>3. (T \ {p}) \ {x} = (T \ {x}) \ {p}
      OBVIOUS
    <3> PICK R \in SUBSET D : R = (T \ {p}) \ {x}
      OBVIOUS
    <3> PICK w \in Int : w = g[R]
      BY <1>1
    <3> PICK u \in Int, v \in Int : u = s[p] /\ v = s[x]
      OBVIOUS
    <3>4. g[T] = u + (v + w) /\ g[T \ {x}] = u + w
      BY <2>1, <3>2, <3>3
    <3>5. u + (v + w) = v + (u + w)
      OBVIOUS
    <3> QED BY <3>4, <3>5
  <2> QED BY <2>3, <2>4
<1>3. SUBSET D \subseteq Good
  <2> HIDE DEF Good
  <2> QED BY <1>2, SizeInduction
<1> QED
  BY <1>3

\* None of the terms exceeds a sum of natural numbers.
LEMMA TotalExceeds ==
    ASSUME NEW s, IsFiniteSet(DOMAIN s), \A i \in DOMAIN s : s[i] \in Nat,
           NEW x \in DOMAIN s
    PROVE  s[x] =< Total(s)
<1>1. PICK g : SumsBy(g, s) /\ Total(s) = g[DOMAIN s]
  BY TotalFolds
<1>2. \A i \in DOMAIN s : s[i] \in Int
  OBVIOUS
<1> PICK R \in SUBSET DOMAIN s : R = DOMAIN s \ {x}
  OBVIOUS
<1>3. g[DOMAIN s] = s[x] + g[R]
  BY <1>1, <1>2, SumTakesOut
<1>4. g[R] \in Nat
  BY <1>1, SumIsNat
<1> QED
  BY <1>1, <1>3, <1>4

ImageOf(f, T) == {f[i] : i \in T}

Injects(f, D, E) ==
    f \in [D -> E] /\ \A i, j \in D : f[i] = f[j] => i = j

\* The sum does not depend on how the terms are indexed.
LEMMA TotalReindexed ==
    ASSUME NEW s, NEW r, IsFiniteSet(DOMAIN s), IsFiniteSet(DOMAIN r),
           \A i \in DOMAIN s : s[i] \in Int,
           NEW f, Injects(f, DOMAIN r, DOMAIN s), ImageOf(f, DOMAIN r) = DOMAIN s,
           \A i \in DOMAIN r : r[i] = s[f[i]]
    PROVE  Total(r) = Total(s)
<1>1. PICK g : SumsBy(g, s) /\ Total(s) = g[DOMAIN s]
  BY TotalFolds
<1>2. PICK h : SumsBy(h, r) /\ Total(r) = h[DOMAIN r]
  BY TotalFolds
<1> PICK D : D = DOMAIN r
  OBVIOUS
<1> DEFINE Good == {T \in SUBSET D : h[T] = g[ImageOf(f, T)]}
<1>3. {} \in Good
  <2>1. ImageOf(f, {}) = {}
    BY DEF ImageOf
  <2> QED BY <1>1, <1>2, <2>1 DEF SumsBy
<1>4. ASSUME NEW T \in SUBSET D, T # {}, T \ {CHOOSE x \in T : TRUE} \in Good
      PROVE  T \in Good
  <2> PICK x \in T : x = CHOOSE y \in T : TRUE
    BY <1>4
  <2>1. h[T] = r[x] + h[T \ {x}]
    BY <1>2 DEF SumsBy
  <2>2. h[T \ {x}] = g[ImageOf(f, T \ {x})]
    BY <1>4
  <2>3. /\ ImageOf(f, T) \in SUBSET DOMAIN s /\ f[x] \in ImageOf(f, T)
        /\ ImageOf(f, T \ {x}) = ImageOf(f, T) \ {f[x]}
    <3>1. f \in [D -> DOMAIN s] /\ \A i, j \in D : f[i] = f[j] => i = j
      BY DEF Injects
    <3>2. ImageOf(f, T) \in SUBSET DOMAIN s /\ f[x] \in ImageOf(f, T)
      BY <3>1 DEF ImageOf
    <3>3. ASSUME NEW k \in ImageOf(f, T \ {x}) PROVE k \in ImageOf(f, T) \ {f[x]}
      <4> PICK i \in T \ {x} : k = f[i]
        BY DEF ImageOf
      <4>1. f[i] # f[x]
        BY <3>1
      <4> QED BY <4>1 DEF ImageOf
    <3>4. ASSUME NEW k \in ImageOf(f, T) \ {f[x]} PROVE k \in ImageOf(f, T \ {x})
      <4> PICK i \in T : k = f[i]
        BY DEF ImageOf
      <4>1. i # x
        OBVIOUS
      <4> QED BY <4>1 DEF ImageOf
    <3>5. ImageOf(f, T \ {x}) = ImageOf(f, T) \ {f[x]}
      BY <3>3, <3>4
    <3> QED BY <3>2, <3>5
  <2>4. g[ImageOf(f, T)] = s[f[x]] + g[ImageOf(f, T) \ {f[x]}]
    <3> PICK F \in SUBSET DOMAIN s : F = ImageOf(f, T)
      BY <2>3
    <3> PICK y \in F : y = f[x]
      BY <2>3
    <3>1. \A i \in DOMAIN s : s[i] \in Int
      OBVIOUS
    <3>2. g[F] = s[y] + g[F \ {y}]
      BY <1>1, <3>1, SumTakesOut
    <3> QED BY <3>2
  <2>5. r[x] = s[f[x]]
    OBVIOUS
  <2> QED BY <2>1, <2>2, <2>3, <2>4, <2>5
<1>5. SUBSET D \subseteq Good
  <2> HIDE DEF Good
  <2> QED BY <1>3, <1>4, SetInduction
<1>6. h[D] = g[ImageOf(f, D)]
  BY <1>5
<1> QED
  BY <1>1, <1>2, <1>6

Combines(a, b, c, n, u, v, z) == z = a * u + b * v + c * n

Blends(a, b, c, s, t, r) ==
    /\ DOMAIN t = DOMAIN s /\ DOMAIN r = DOMAIN s
    /\ \A i \in DOMAIN s : s[i] \in Int /\ t[i] \in Int /\ r[i] = a * s[i] + b * t[i] + c

\* A sum is linear in its terms.
LEMMA TotalIsLinear ==
    ASSUME NEW a \in Int, NEW b \in Int, NEW c \in Int,
           NEW s, NEW t, NEW r, IsFiniteSet(DOMAIN s), Blends(a, b, c, s, t, r)
    PROVE  /\ Total(s) \in Int /\ Total(t) \in Int
           /\ Total(r) = a * Total(s) + b * Total(t) + c * Cardinality(DOMAIN s)
<1> /\ DOMAIN t = DOMAIN s /\ DOMAIN r = DOMAIN s
    /\ \A i \in DOMAIN s : s[i] \in Int /\ t[i] \in Int /\ r[i] = a * s[i] + b * t[i] + c
  BY DEF Blends
<1>1. PICK g : SumsBy(g, s) /\ Total(s) = g[DOMAIN s]
  BY TotalFolds
<1>2. PICK h : SumsBy(h, t) /\ Total(t) = h[DOMAIN s]
  BY TotalFolds
<1>3. PICK k : SumsBy(k, r) /\ Total(r) = k[DOMAIN s]
  BY TotalFolds
<1>4. \A i \in DOMAIN s : r[i] \in Int
  <2> TAKE i \in DOMAIN s
  <2> PICK x \in Int, y \in Int : x = s[i] /\ y = t[i]
    OBVIOUS
  <2>1. a * x + b * y + c \in Int
    OBVIOUS
  <2> QED BY <2>1
<1>5. \A T \in SUBSET DOMAIN s : g[T] \in Int /\ h[T] \in Int /\ k[T] \in Int
  <2>1. \A i \in DOMAIN s : s[i] \in Int /\ t[i] \in Int
    OBVIOUS
  <2>2. \A T \in SUBSET DOMAIN s : g[T] \in Int
    BY <1>1, <2>1, SumIsInt
  <2>3. \A T \in SUBSET DOMAIN s : h[T] \in Int
    BY <1>2, <2>1, SumIsInt
  <2>4. \A T \in SUBSET DOMAIN s : k[T] \in Int
    BY <1>3, <1>4, SumIsInt
  <2> QED BY <2>2, <2>3, <2>4
<1> DEFINE Good == {T \in SUBSET DOMAIN s : Combines(a, b, c, Cardinality(T), g[T], h[T], k[T])}
<1>6. {} \in Good
  <2>1. g[{}] = 0 /\ h[{}] = 0 /\ k[{}] = 0
    BY <1>1, <1>2, <1>3 DEF SumsBy
  <2>2. Cardinality({}) = 0
    BY FS_EmptySet
  <2>3. 0 = a * 0 + b * 0 + c * 0
    OBVIOUS
  <2> QED BY <2>1, <2>2, <2>3 DEF Combines
<1>7. ASSUME NEW T \in SUBSET DOMAIN s, T # {}, T \ {CHOOSE x \in T : TRUE} \in Good
      PROVE  T \in Good
  <2> PICK i \in T : i = CHOOSE y \in T : TRUE
    BY <1>7
  <2> PICK U \in SUBSET DOMAIN s : U = T \ {i}
    OBVIOUS
  <2>1. g[T] = s[i] + g[U]
    BY <1>1 DEF SumsBy
  <2>10. h[T] = t[i] + h[U]
    BY <1>2 DEF SumsBy
  <2>11. k[T] = r[i] + k[U]
    BY <1>3 DEF SumsBy
  <2>2. Cardinality(U) \in Nat /\ Cardinality(T) = Cardinality(U) + 1
    <3>1. IsFiniteSet(T) /\ Cardinality(T) \in Nat
      BY FS_Subset, FS_CardinalityType
    <3>2. IsFiniteSet(U) /\ Cardinality(U) = Cardinality(T) - 1
      BY <3>1, FS_RemoveElement
    <3>3. Cardinality(U) \in Nat
      BY <3>2, FS_CardinalityType
    <3> QED BY <3>1, <3>2, <3>3
  <2> PICK n \in Nat : n = Cardinality(U)
    BY <2>2
  <2> PICK u \in Int, v \in Int, z \in Int : u = g[U] /\ v = h[U] /\ z = k[U]
    BY <1>5
  <2> PICK x \in Int, y \in Int : x = s[i] /\ y = t[i]
    OBVIOUS
  <2> PICK w \in Int : w = r[i]
    BY <1>4
  <2>3. Combines(a, b, c, n, u, v, z)
    BY <1>7
  <2>4. w = a * x + b * y + c
    OBVIOUS
  <2>6. k[T] = w + z /\ g[T] = x + u /\ h[T] = y + v /\ Cardinality(T) = n + 1
    BY <2>1, <2>10, <2>11, <2>2
  <2>7. Combines(a, b, c, Cardinality(T), g[T], h[T], k[T])
    <3> x + u \in Int /\ y + v \in Int
      OBVIOUS
    <3> PICK p \in Int : p = x + u
      OBVIOUS
    <3> PICK q \in Int : q = y + v
      OBVIOUS
    <3>1. z = a * u + b * v + c * n
      BY <2>3 DEF Combines
    <3>2. w + z = a * p + b * q + c * (n + 1)
      <4>1. a * p = a * x + a * u
        OBVIOUS
      <4>2. b * q = b * y + b * v
        OBVIOUS
      <4> QED BY <3>1, <2>4, <4>1, <4>2
    <3>3. k[T] = w + z /\ g[T] = p /\ h[T] = q /\ Cardinality(T) = n + 1
      BY <2>6
    <3> QED BY <3>2, <3>3 DEF Combines
  <2> QED BY <2>7
<1>8. SUBSET DOMAIN s \subseteq Good
  <2> HIDE DEF Good
  <2> QED BY <1>6, <1>7, SetInduction
<1>9. Combines(a, b, c, Cardinality(DOMAIN s), g[DOMAIN s], h[DOMAIN s], k[DOMAIN s])
  BY <1>8
<1>10. Total(r) = a * Total(s) + b * Total(t) + c * Cardinality(DOMAIN s)
  BY <1>1, <1>2, <1>3, <1>9 DEF Combines
<1>11. Total(s) \in Int /\ Total(t) \in Int
  BY <1>1, <1>2, <1>5
<1> QED
  BY <1>10, <1>11

-----------------------------------------------------------------------------
(***************************************************************************)
(* A flat series, and the words of curves.                                 *)
(***************************************************************************)

LEMMA NoSmaller ==
    ASSUME NEW n \in Nat \ {0}, NEW s \in Int, n * s >= 0
    PROVE  s >= 0 /\ (n * s = 0 => s = 0)
OBVIOUS

\* How far the value x is from the mean, times the length n.
Off(g, x) == Len(g) * x - Total(g)

\* The scatter is the sum of the squared distances from the mean, but for a
\* factor: it is zero on a flat series alone, and not all are above the mean.
LEMMA ScatterIs ==
    ASSUME NEW g \in Seq(Int), g # <<>>
    PROVE  /\ Scatter(g) \in Nat /\ Total(g) \in Int
           /\ Scatter(g) = 0 <=> \A i \in DOMAIN g : Off(g, g[i]) = 0
           /\ \E i \in DOMAIN g : Off(g, g[i]) =< 0
<1> PICK n \in Nat \ {0} : n = Len(g)
  OBVIOUS
<1> PICK I : I = 1..n
  OBVIOUS
<1>1. DOMAIN g = I /\ 1 \in I /\ IsFiniteSet(I) /\ Cardinality(I) = n
  <2>1. DOMAIN g = 1..n /\ 1 \in 1..n
    OBVIOUS
  <2>2. 1 \in Int /\ n \in Int
    OBVIOUS
  <2>3. IsFiniteSet(1..n) /\ Cardinality(1..n) = IF 1 > n THEN 0 ELSE (n - 1) + 1
    BY <2>2, FS_Interval
  <2>4. Cardinality(1..n) = n
    BY <2>3
  <2> QED BY <2>1, <2>3, <2>4
<1> PICK b \in Int : b = g[1]
  BY <1>1
<1> DEFINE d == [i \in I |-> g[i] - b]
           q == [i \in I |-> (g[i] - b) * (g[i] - b)]
<1>2. \A i \in I : g[i] \in Int /\ d[i] \in Int /\ q[i] \in Int
  BY <1>1
<1>3. Total(d) \in Int /\ Total(q) \in Int
  <2>1. DOMAIN d = I /\ DOMAIN q = I
    OBVIOUS
  <2> HIDE DEF d, q
  <2> QED BY <1>1, <1>2, <2>1, TotalIsInt
<1> PICK D \in Int : D = Total(d)
  BY <1>3
<1> PICK Q \in Int : Q = Total(q)
  BY <1>3
<1>4. Scatter(g) = n * Q - D * D
  BY DEF Scatter
<1>5. Total(g) = D + n * b
  <2>1. Blends(1, 0, b, d, d, g)
    <3> SUFFICES ASSUME NEW i \in I PROVE g[i] = 1 * (g[i] - b) + 0 * (g[i] - b) + b
      BY <1>1, <1>2 DEF Blends
    <3> PICK y \in Int : y = g[i]
      BY <1>2
    <3>1. y = 1 * (y - b) + 0 * (y - b) + b
      OBVIOUS
    <3> QED BY <3>1
  <2>2. DOMAIN d = I
    OBVIOUS
  <2> HIDE DEF d
  <2>3. Total(g) = 1 * D + 0 * D + b * n
    BY <1>1, <2>1, <2>2, TotalIsLinear
  <2> QED BY <2>3
<1> PICK t \in Int : t = Total(g)
  <2>1. D + n * b \in Int
    OBVIOUS
  <2> QED BY <1>5, <2>1
<1> DEFINE e == [i \in I |-> n * g[i] - t]
           v == [i \in I |-> (n * g[i] - t) * (n * g[i] - t)]
<1>6. \A i \in I : e[i] \in Int /\ e[i] = n * d[i] - D /\ v[i] = e[i] * e[i] /\ v[i] \in Int
                   /\ e[i] = Off(g, g[i])
  <2> TAKE i \in I
  <2> PICK y \in Int : y = g[i]
    BY <1>2
  <2>1. n * y - t = n * (y - b) - D
    <3>1. n * (y - b) = n * y - n * b
      OBVIOUS
    <3> QED BY <1>5, <3>1
  <2>2. n * y - t \in Int
    OBVIOUS
  <2> PICK z \in Int : z = n * y - t
    BY <2>2
  <2>3. z * z \in Int
    OBVIOUS
  <2> QED BY <2>1, <2>2, <2>3 DEF Off
<1>7. DOMAIN e = I /\ DOMAIN v = I /\ DOMAIN d = I /\ DOMAIN q = I
  OBVIOUS
<1>8. \A i \in I : q[i] = d[i] * d[i]
  OBVIOUS
<1> HIDE DEF d, q, e, v
<1>9. Total(v) = n * Scatter(g)
  <2>1. n * n \in Int /\ -(2 * (n * D)) \in Int /\ D * D \in Int
    OBVIOUS
  <2> PICK x \in Int, y \in Int, z \in Int : x = n * n /\ y = -(2 * (n * D)) /\ z = D * D
    BY <2>1
  <2>2. Blends(x, y, z, q, d, v)
    <3> SUFFICES ASSUME NEW i \in I PROVE v[i] = x * q[i] + y * d[i] + z
      BY <1>2, <1>7 DEF Blends
    <3> PICK k \in Int, m \in Int : k = d[i] /\ m = e[i]
      BY <1>2, <1>6
    <3>1. m * m = (n * n) * (k * k) + (-(2 * (n * D))) * k + D * D
      <4>1. m = n * k - D
        BY <1>6
      <4>2. (n * k - D) * (n * k - D) = (n * n) * (k * k) + (-(2 * (n * D))) * k + D * D
        BY ONLY TRUE
      <4> QED BY <4>1, <4>2
    <3> QED BY <1>6, <1>8, <3>1
  <2>3. Total(v) = x * Q + y * D + z * n
    <3>1. Total(v) = x * Total(q) + y * Total(d) + z * Cardinality(DOMAIN q)
      BY <1>1, <1>7, <2>2, TotalIsLinear
    <3> QED BY <1>1, <1>7, <3>1
  <2>4. Total(v) = (n * n) * Q + (-(2 * (n * D))) * D + (D * D) * n
    BY <2>3
  <2>5. (n * n) * Q + (-(2 * (n * D))) * D + (D * D) * n = n * (n * Q - D * D)
    BY ONLY TRUE
  <2> QED BY <1>4, <2>4, <2>5
<1>10. Total(e) = 0
  <2> PICK c \in Int : c = -D
    OBVIOUS
  <2>1. Blends(n, 0, c, d, d, e)
    <3> SUFFICES ASSUME NEW i \in I PROVE e[i] = n * d[i] + 0 * d[i] + c
      BY <1>2, <1>7 DEF Blends
    <3> PICK k \in Int : k = d[i]
      BY <1>2
    <3>1. n * k - D = n * k + 0 * k + c
      OBVIOUS
    <3> QED BY <1>6, <3>1
  <2>2. Total(e) = n * D + 0 * D + c * n
    BY <1>1, <1>7, <2>1, TotalIsLinear
  <2> QED BY <2>2
<1>11. \A i \in I : v[i] \in Nat /\ v[i] =< Total(v)
  <2>1. \A i \in I : v[i] \in Nat
    <3> TAKE i \in I
    <3> PICK k \in Int : k = e[i]
      BY <1>6
    <3>1. k * k \in Nat
      OBVIOUS
    <3> QED BY <1>6, <3>1
  <2> QED BY <1>1, <1>7, <2>1, TotalExceeds
<1>12. Scatter(g) \in Int
  BY <1>4
<1> PICK s \in Int : s = Scatter(g)
  BY <1>12
<1>13. s >= 0 /\ (n * s = 0 => s = 0)
  <2>1. n * s >= 0
    BY <1>1, <1>9, <1>11
  <2> QED BY <2>1, NoSmaller
<1>14. ASSUME s = 0, NEW i \in I PROVE e[i] = 0
  <2> PICK k \in Int : k = e[i]
    BY <1>6
  <2>1. k * k = 0
    <3>1. n * s = 0
      BY <1>14
    <3>2. v[i] =< 0 /\ v[i] \in Nat
      BY <1>9, <1>11, <3>1
    <3> QED BY <1>6, <3>2
  <2> QED BY <2>1
<1>15. ASSUME \A i \in I : e[i] = 0 PROVE s = 0
  <2>1. Blends(0, 0, 0, d, d, v)
    <3> SUFFICES ASSUME NEW i \in I PROVE v[i] = 0 * d[i] + 0 * d[i] + 0
      BY <1>2, <1>7 DEF Blends
    <3> PICK k \in Int : k = d[i]
      BY <1>2
    <3>1. v[i] = 0 * 0
      BY <1>6, <1>15
    <3> QED BY <3>1
  <2>2. Total(v) = 0 * D + 0 * D + 0 * n
    BY <1>1, <1>7, <2>1, TotalIsLinear
  <2>3. n * s = 0
    BY <1>9, <2>2
  <2> QED BY <1>13, <2>3
<1>16. \E i \in I : e[i] =< 0
  <2> SUFFICES ASSUME \A i \in I : e[i] > 0 PROVE FALSE
    BY <1>6
  <2>1. \A i \in I : e[i] \in Nat
    BY <1>6
  <2>2. e[1] =< Total(e)
    BY <1>1, <1>7, <2>1, TotalExceeds
  <2>3. e[1] > 0
    BY <1>1
  <2> QED BY <1>6, <1>1, <1>10, <2>2, <2>3
<1>17. \A i \in I : e[i] = Off(g, g[i])
  BY <1>6
<1>18. Scatter(g) = 0 <=> \A i \in I : e[i] = 0
  BY <1>14, <1>15
<1>19. Scatter(g) \in Nat
  BY <1>13
<1> QED
  BY <1>1, <1>16, <1>17, <1>18, <1>19

\* The returns of an epic's last candles.
Curves == Seq([at : Int, gain : Int])

LEMMA CurveIs ==
    ASSUME NEW c \in Curves
    PROVE  /\ Len(c) \in Nat /\ DOMAIN c = 1..Len(c)
           /\ \A i \in DOMAIN c : c[i].gain \in Int
<1> PICK T : T = [at : Int, gain : Int]
  OBVIOUS
<1>1. c \in Seq(T)
  BY DEF Curves
<1>2. Len(c) \in Nat /\ DOMAIN c = 1..Len(c) /\ \A i \in DOMAIN c : c[i] \in T
  BY ONLY <1>1
<1> QED
  BY <1>2

Cuts == {-3, -1, 1, 3}

LEMMA CutsAre == IsFiniteSet(Cuts) /\ Cardinality(Cuts) = 4
<1>1. IsFiniteSet({}) /\ Cardinality({}) = 0
  BY FS_EmptySet
<1>2. IsFiniteSet({-3}) /\ Cardinality({-3}) = 1
  BY FS_Singleton
<1>3. IsFiniteSet({-3} \cup {-1}) /\ Cardinality({-3} \cup {-1}) = 2
  BY <1>2, FS_AddElement
<1>4. IsFiniteSet({-3, -1} \cup {1}) /\ Cardinality({-3, -1} \cup {1}) = 3
  <2>1. {-3} \cup {-1} = {-3, -1} /\ 1 \notin {-3, -1}
    OBVIOUS
  <2> QED BY <1>3, <2>1, FS_AddElement
<1>5. IsFiniteSet({-3, -1, 1} \cup {3}) /\ Cardinality({-3, -1, 1} \cup {3}) = 4
  <2>1. {-3, -1} \cup {1} = {-3, -1, 1} /\ 3 \notin {-3, -1, 1}
    OBVIOUS
  <2> QED BY <1>4, <2>1, FS_AddElement
<1>6. Cuts = {-3, -1, 1} \cup {3}
  BY DEF Cuts
<1> QED
  BY <1>5, <1>6

\* The cuts a return reaches that is a / 2 from the mean, where the scatter is v.
Reached(a, v) ==
    {k \in Cuts : IF k > 0 THEN a >= 0 /\ a * a >= k * k * v
                  ELSE a >= 0 \/ a * a =< k * k * v}

\* On a flat curve every cut is reached; otherwise the highest is not by a return
\* at or below the mean.
LEMMA ReachedAre ==
    ASSUME NEW a \in Int, NEW v \in Nat
    PROVE  /\ a = 0 /\ v = 0 => Cardinality(Reached(a, v)) = 4
           /\ a =< 0 /\ v # 0 => Cardinality(Reached(a, v)) # 4
<1>1. ASSUME a = 0, v = 0 PROVE Reached(a, v) = Cuts
  <2> SUFFICES ASSUME NEW k \in Cuts PROVE k \in Reached(a, v)
    BY DEF Reached
  <2>1. k \in Int
    BY DEF Cuts
  <2>2. a * a = 0 /\ k * k * v = 0
    BY <1>1, <2>1
  <2> QED BY <1>1, <2>2 DEF Reached
<1>2. ASSUME a =< 0, v # 0 PROVE 3 \notin Reached(a, v)
  <2> SUFFICES ASSUME a >= 0, a * a >= 3 * 3 * v PROVE FALSE
    BY DEF Reached
  <2>1. a = 0
    BY <1>2
  <2> QED BY <1>2, <2>1
<1>3. 3 \in Cuts /\ Reached(a, v) \in SUBSET Cuts
  BY DEF Cuts, Reached
<1>4. Cardinality(Reached(a, v)) = 4 => Reached(a, v) = Cuts
  BY <1>3, CutsAre, FS_Subset
<1> QED
  BY <1>1, <1>2, <1>3, <1>4, CutsAre

LEMMA WordIs ==
    ASSUME NEW c \in Curves
    PROVE  /\ DOMAIN Word(c) = 1..Len(c)
           /\ c # <<>> => (Scatter(Gains(c)) = 0 <=> \A i \in 1..Len(c) : Word(c)[i] = 4)
<1> PICK n \in Nat : n = Len(c)
  BY DEF Curves
<1> PICK g : g = Gains(c)
  OBVIOUS
<1>1. g \in Seq(Int) /\ Len(g) = n /\ DOMAIN g = 1..n
  <2>1. g \in [1..n -> Int]
    <3>1. DOMAIN c = 1..n /\ \A i \in 1..n : c[i].gain \in Int
      BY CurveIs
    <3> QED BY <3>1 DEF Gains
  <2> QED BY <2>1
<1>2. Word(c) = [i \in 1..n |-> Cardinality(Reached(2 * (n * g[i] - Total(g)), Scatter(g)))]
  BY <1>1 DEF Word, Reached, Cuts
<1>3. DOMAIN Word(c) = 1..n
  BY <1>2
<1>4. ASSUME c # <<>>
      PROVE  Scatter(g) = 0 <=> \A i \in 1..n : Word(c)[i] = 4
  <2>1. g # <<>>
    BY <1>1, <1>4 DEF Curves
  <2>2. /\ Scatter(g) \in Nat /\ Total(g) \in Int
        /\ Scatter(g) = 0 <=> \A i \in 1..n : Off(g, g[i]) = 0
        /\ \E i \in 1..n : Off(g, g[i]) =< 0
    BY <1>1, <2>1, ScatterIs
  <2> PICK v \in Nat : v = Scatter(g)
    BY <2>2
  <2>3. \A i \in 1..n : Off(g, g[i]) \in Int
        /\ Word(c)[i] = Cardinality(Reached(2 * Off(g, g[i]), v))
    <3> TAKE i \in 1..n
    <3> PICK y \in Int : y = g[i]
      BY <1>1
    <3> PICK t \in Int : t = Total(g)
      BY <2>2
    <3>1. n * y - t \in Int
      OBVIOUS
    <3>2. Off(g, g[i]) = n * y - t
      BY <1>1 DEF Off
    <3> QED BY <1>2, <3>1, <3>2
  <2>4. ASSUME v = 0, NEW i \in 1..n PROVE Word(c)[i] = 4
    <3> PICK a \in Int : a = 2 * Off(g, g[i])
      BY <2>3
    <3>1. a = 0
      BY <2>2, <2>4
    <3> QED BY <2>3, <2>4, <3>1, ReachedAre
  <2>5. ASSUME v # 0 PROVE \E i \in 1..n : Word(c)[i] # 4
    <3> PICK i \in 1..n : Off(g, g[i]) =< 0
      BY <2>2
    <3> PICK a \in Int : a = 2 * Off(g, g[i])
      BY <2>3
    <3>1. a =< 0
      BY <2>3
    <3>2. Word(c)[i] # 4
      BY <2>3, <2>5, <3>1, ReachedAre
    <3> QED BY <3>2
  <2> QED BY <2>4, <2>5
<1> QED
  BY <1>3, <1>4

\* Curves of one word are both flat or neither.
LEMMA FlatAlike ==
    ASSUME NEW c \in Curves, NEW d \in Curves, Word(c) = Word(d)
    PROVE  Flat(c) = Flat(d)
<1> PICK m \in Nat, n \in Nat : m = Len(c) /\ n = Len(d)
  BY DEF Curves
<1>1. DOMAIN Word(c) = 1..m /\ DOMAIN Word(d) = 1..n
  BY WordIs
<1>2. m = n
  BY <1>1
<1>3. CASE m < 2
  BY <1>2, <1>3 DEF Flat
<1>4. CASE m >= 2
  <2>1. c # <<>> /\ d # <<>>
    <3>1. Len(c) # 0 /\ Len(d) # 0
      BY <1>2, <1>4
    <3>2. \A s : s = <<>> => Len(s) = 0
      OBVIOUS
    <3> QED BY <3>1, <3>2
  <2>2. Scatter(Gains(c)) = 0 <=> \A i \in 1..m : Word(c)[i] = 4
    BY <2>1, WordIs
  <2>3. Scatter(Gains(d)) = 0 <=> \A i \in 1..n : Word(d)[i] = 4
    BY <2>1, WordIs
  <2> QED BY <1>2, <1>4, <2>2, <2>3 DEF Flat
<1> QED
  BY <1>3, <1>4

-----------------------------------------------------------------------------
(***************************************************************************)
(* Likeness of two curves goes both ways.                                  *)
(***************************************************************************)

\* The sums a correlation is made of: over the minutes two curves share, of the
\* returns u and v say of them.
FirstGains(a, b) == [q \in Pairs(a, b) |-> a[q[1]].gain]
OtherGains(a, b) == [q \in Pairs(a, b) |-> b[q[2]].gain]
Products(a, b, u, v) == [q \in Pairs(a, b) |-> u[q] * v[q]]
Dot(a, b, u, v) == Total(Products(a, b, u, v))
Dispersion(a, b, u) == Cardinality(Pairs(a, b)) * Dot(a, b, u, u) - Total(u) * Total(u)
Common(a, b) ==
    Cardinality(Pairs(a, b)) * Dot(a, b, FirstGains(a, b), OtherGains(a, b))
      - Total(FirstGains(a, b)) * Total(OtherGains(a, b))

Exceeds(n, x, y, c) ==
    /\ n >= Max({2, Knobs.overlap}) /\ x > 0 /\ y > 0
    /\ c > 0 /\ 100 * c * c > 64 * x * y

LEMMA CorrelatedIs ==
    ASSUME NEW a, NEW b, NEW sign
    PROVE  Correlated(a, b, sign) =
             Exceeds(Cardinality(Pairs(a, b)), Dispersion(a, b, FirstGains(a, b)),
                     Dispersion(a, b, OtherGains(a, b)), sign * Common(a, b))
BY Zenon DEF Correlated, Exceeds, Dispersion, Common, Dot, Products, FirstGains, OtherGains

Swap(a, b) == [q \in Pairs(b, a) |-> <<q[2], q[1]>>]

LEMMA PairsAre ==
    ASSUME NEW a \in Curves, NEW b \in Curves
    PROVE  /\ IsFiniteSet(Pairs(a, b))
           /\ \A q \in Pairs(a, b) : a[q[1]].gain \in Int /\ b[q[2]].gain \in Int
<1> PICK m \in Nat, n \in Nat : m = Len(a) /\ n = Len(b)
  BY CurveIs
<1>1. DOMAIN a = 1..m /\ DOMAIN b = 1..n
  BY CurveIs
<1>2. IsFiniteSet(1..m) /\ IsFiniteSet(1..n)
  <2>1. 1 \in Int /\ m \in Int /\ n \in Int
    OBVIOUS
  <2> QED BY <2>1, FS_Interval
<1>3. IsFiniteSet((DOMAIN a) \X (DOMAIN b))
  BY <1>1, <1>2, FS_Product
<1>4. Pairs(a, b) \in SUBSET ((DOMAIN a) \X (DOMAIN b))
  BY DEF Pairs
<1>5. IsFiniteSet(Pairs(a, b))
  BY <1>3, <1>4, FS_Subset
<1>6. ASSUME NEW q \in Pairs(a, b) PROVE a[q[1]].gain \in Int /\ b[q[2]].gain \in Int
  <2>1. q[1] \in DOMAIN a /\ q[2] \in DOMAIN b
    BY <1>4
  <2> QED BY <2>1, CurveIs
<1> QED
  BY <1>5, <1>6

LEMMA SwapIs ==
    ASSUME NEW a, NEW b
    PROVE  /\ Injects(Swap(a, b), Pairs(b, a), Pairs(a, b))
           /\ ImageOf(Swap(a, b), Pairs(b, a)) = Pairs(a, b)
<1> PICK P : P = Pairs(a, b)
  OBVIOUS
<1> PICK R : R = Pairs(b, a)
  OBVIOUS
<1> PICK f : f = Swap(a, b)
  OBVIOUS
<1>1. \A i, j : <<i, j>> \in P <=> <<j, i>> \in R
  BY DEF Pairs
<1>2. \A q \in P \cup R : q = <<q[1], q[2]>>
  BY DEF Pairs
<1>3. f \in [R -> P] /\ \A q \in R : f[q] = <<q[2], q[1]>>
  BY <1>1, <1>2 DEF Swap
<1>4. \A q, r \in R : f[q] = f[r] => q = r
  <2> SUFFICES ASSUME NEW q \in R, NEW r \in R, f[q] = f[r] PROVE q = r
    OBVIOUS
  <2>1. q[1] = r[1] /\ q[2] = r[2]
    BY <1>3
  <2> QED BY <1>2, <2>1
<1>5. \A q \in P : \E r \in R : q = f[r]
  <2> TAKE q \in P
  <2> PICK r : r = <<q[2], q[1]>>
    OBVIOUS
  <2>1. r \in R
    BY <1>1, <1>2
  <2>2. q = f[r]
    BY <1>2, <1>3, <2>1
  <2> QED BY <2>1, <2>2
<1>6. ImageOf(f, R) = P
  BY <1>3, <1>5 DEF ImageOf
<1>7. Injects(f, R, P)
  BY <1>3, <1>4 DEF Injects
<1> QED
  BY <1>6, <1>7

\* A sum over the shared minutes, seen from the other curve.
LEMMA Mirrored ==
    ASSUME NEW a \in Curves, NEW b \in Curves,
           NEW s, DOMAIN s = Pairs(a, b), \A q \in Pairs(a, b) : s[q] \in Int,
           NEW r, DOMAIN r = Pairs(b, a), \A q \in Pairs(b, a) : r[q] = s[Swap(a, b)[q]]
    PROVE  Total(r) = Total(s)
<1> PICK f : f = Swap(a, b)
  OBVIOUS
<1>1. Injects(f, DOMAIN r, DOMAIN s) /\ ImageOf(f, DOMAIN r) = DOMAIN s
  BY SwapIs
<1>2. IsFiniteSet(DOMAIN r) /\ IsFiniteSet(DOMAIN s)
  BY PairsAre
<1>3. \A i \in DOMAIN r : r[i] = s[f[i]]
  OBVIOUS
<1>4. \A i \in DOMAIN s : s[i] \in Int
  OBVIOUS
<1> QED
  BY <1>1, <1>2, <1>3, <1>4, TotalReindexed

LEMMA SwapReads ==
    ASSUME NEW a, NEW b, NEW q \in Pairs(b, a)
    PROVE  Swap(a, b)[q] \in Pairs(a, b) /\ Swap(a, b)[q][1] = q[2] /\ Swap(a, b)[q][2] = q[1]
<1>1. Swap(a, b)[q] = <<q[2], q[1]>>
  BY DEF Swap
<1>2. Swap(a, b)[q] \in Pairs(a, b)
  BY SwapIs DEF Injects
<1> QED
  BY <1>1, <1>2

\* The sums of two curves and those of the curves swapped.
LEMMA SumsMirror ==
    ASSUME NEW a \in Curves, NEW b \in Curves
    PROVE  /\ Total(FirstGains(b, a)) = Total(OtherGains(a, b))
           /\ Dot(b, a, FirstGains(b, a), FirstGains(b, a)) = Dot(a, b, OtherGains(a, b), OtherGains(a, b))
           /\ Dot(b, a, FirstGains(b, a), OtherGains(b, a)) = Dot(a, b, FirstGains(a, b), OtherGains(a, b))
           /\ Cardinality(Pairs(b, a)) = Cardinality(Pairs(a, b))
<1> PICK P : P = Pairs(a, b)
  OBVIOUS
<1> PICK R : R = Pairs(b, a)
  OBVIOUS
<1> PICK f : f = Swap(a, b)
  OBVIOUS
<1> DEFINE x == FirstGains(a, b)
           y == OtherGains(a, b)
           u == FirstGains(b, a)
           v == OtherGains(b, a)
<1>1. /\ DOMAIN x = P /\ DOMAIN y = P /\ DOMAIN u = R /\ DOMAIN v = R
      /\ \A q \in P : x[q] \in Int /\ y[q] \in Int
  BY PairsAre DEF FirstGains, OtherGains
<1>2. \A q \in R : f[q] \in P /\ u[q] = y[f[q]] /\ v[q] = x[f[q]]
  BY SwapReads DEF FirstGains, OtherGains
<1> HIDE DEF x, y, u, v
<1>3. Total(u) = Total(y)
  BY <1>1, <1>2, Mirrored
<1>4. Dot(b, a, u, u) = Dot(a, b, y, y)
  <2> PICK s : s = Products(a, b, y, y)
    OBVIOUS
  <2> PICK r : r = Products(b, a, u, u)
    OBVIOUS
  <2>1. DOMAIN s = P /\ \A q \in P : s[q] = y[q] * y[q]
    BY DEF Products
  <2>2. DOMAIN r = R /\ \A q \in R : r[q] = u[q] * u[q]
    BY DEF Products
  <2>3. \A q \in P : s[q] \in Int
    BY <1>1, <2>1
  <2>4. \A q \in R : r[q] = s[f[q]]
    BY <1>2, <2>1, <2>2
  <2>5. Total(r) = Total(s)
    BY <2>1, <2>2, <2>3, <2>4, Mirrored
  <2> QED BY <2>5 DEF Dot
<1>5. Dot(b, a, u, v) = Dot(a, b, x, y)
  <2> PICK s : s = Products(a, b, x, y)
    OBVIOUS
  <2> PICK r : r = Products(b, a, u, v)
    OBVIOUS
  <2>1. DOMAIN s = P /\ \A q \in P : s[q] = x[q] * y[q]
    BY DEF Products
  <2>2. DOMAIN r = R /\ \A q \in R : r[q] = u[q] * v[q]
    BY DEF Products
  <2>3. \A q \in P : s[q] \in Int
    BY <1>1, <2>1
  <2>4. \A q \in R : r[q] = s[f[q]]
    <3> TAKE q \in R
    <3> PICK k \in Int, m \in Int : k = x[f[q]] /\ m = y[f[q]]
      BY <1>1, <1>2
    <3>1. m * k = k * m
      OBVIOUS
    <3> QED BY <1>2, <2>1, <2>2, <3>1
  <2>5. Total(r) = Total(s)
    BY <2>1, <2>2, <2>3, <2>4, Mirrored
  <2> QED BY <2>5 DEF Dot
<1>6. Cardinality(R) = Cardinality(P)
  <2> DEFINE s == [q \in P |-> 1]
             r == [q \in R |-> 1]
  <2>1. \A q \in P : s[q] = 1
    OBVIOUS
  <2>2. \A q \in R : r[q] = 1
    OBVIOUS
  <2>3. DOMAIN s = P /\ DOMAIN r = R
    OBVIOUS
  <2> HIDE DEF s, r
  <2>4. Total(r) = Total(s)
    BY <1>2, <2>1, <2>2, <2>3, Mirrored
  <2>5. IsFiniteSet(P) /\ IsFiniteSet(R)
    BY PairsAre
  <2>6. Blends(0, 0, 1, s, s, s) /\ Blends(0, 0, 1, r, r, r)
    BY <2>1, <2>2, <2>3 DEF Blends
  <2>7. Total(s) = 0 * Total(s) + 0 * Total(s) + 1 * Cardinality(P) /\ Total(s) \in Int
    BY <2>3, <2>5, <2>6, TotalIsLinear
  <2>8. Total(r) = 0 * Total(r) + 0 * Total(r) + 1 * Cardinality(R) /\ Total(r) \in Int
    BY <2>3, <2>5, <2>6, TotalIsLinear
  <2>9. Cardinality(P) \in Nat /\ Cardinality(R) \in Nat
    BY <2>5, FS_CardinalityType
  <2> QED BY <2>4, <2>7, <2>8, <2>9
<1> QED
  BY <1>3, <1>4, <1>5, <1>6 DEF x, y, u, v

LEMMA CorrelatedSwaps ==
    ASSUME NEW a \in Curves, NEW b \in Curves, NEW sign \in Int
    PROVE  Correlated(b, a, sign) = Correlated(a, b, sign)
<1> PICK n : n = Cardinality(Pairs(a, b))
  OBVIOUS
<1> PICK x : x = Dispersion(a, b, FirstGains(a, b))
  OBVIOUS
<1> PICK y : y = Dispersion(a, b, OtherGains(a, b))
  OBVIOUS
<1>1. n \in Int /\ x \in Int /\ y \in Int
      /\ Total(FirstGains(a, b)) \in Int /\ Total(OtherGains(a, b)) \in Int
  <2> DEFINE f == FirstGains(a, b)
             o == OtherGains(a, b)
             ff == Products(a, b, f, f)
             oo == Products(a, b, o, o)
  <2> PICK P : P = Pairs(a, b)
    OBVIOUS
  <2>1. IsFiniteSet(P) /\ n \in Int
    BY PairsAre, FS_CardinalityType
  <2>2. DOMAIN f = P /\ DOMAIN o = P /\ \A q \in P : f[q] \in Int /\ o[q] \in Int
    BY PairsAre DEF FirstGains, OtherGains
  <2> HIDE DEF f, o
  <2>3. /\ DOMAIN ff = P /\ DOMAIN oo = P
        /\ \A q \in P : ff[q] = f[q] * f[q] /\ oo[q] = o[q] * o[q]
    BY DEF Products
  <2> HIDE DEF ff, oo
  <2>4. \A q \in P : ff[q] \in Int /\ oo[q] \in Int
    BY <2>2, <2>3
  <2>5. Total(f) \in Int /\ Total(o) \in Int /\ Total(ff) \in Int /\ Total(oo) \in Int
    BY <2>1, <2>2, <2>3, <2>4, TotalIsInt
  <2> PICK tf \in Int, to \in Int : tf = Total(f) /\ to = Total(o)
    BY <2>5
  <2> PICK tff \in Int, too \in Int : tff = Total(ff) /\ too = Total(oo)
    BY <2>5
  <2>6. x = n * tff - tf * tf /\ y = n * too - to * to
    BY DEF Dispersion, Dot, f, o, ff, oo
  <2>7. n * tff - tf * tf \in Int /\ n * too - to * to \in Int
    BY <2>1
  <2> QED BY <2>1, <2>5, <2>6, <2>7 DEF f, o
<1>2. Cardinality(Pairs(b, a)) = n
  BY SumsMirror
<1>3. Dispersion(b, a, FirstGains(b, a)) = y
  BY SumsMirror DEF Dispersion
<1>4. Dispersion(b, a, OtherGains(b, a)) = x
  <2>1. /\ Total(FirstGains(a, b)) = Total(OtherGains(b, a))
        /\ Dot(a, b, FirstGains(a, b), FirstGains(a, b)) = Dot(b, a, OtherGains(b, a), OtherGains(b, a))
    BY SumsMirror
  <2> QED BY <1>2, <2>1 DEF Dispersion
<1>5. Common(b, a) = Common(a, b)
  <2>1. Total(FirstGains(b, a)) = Total(OtherGains(a, b))
        /\ Total(OtherGains(b, a)) = Total(FirstGains(a, b))
        /\ Dot(b, a, FirstGains(b, a), OtherGains(b, a)) = Dot(a, b, FirstGains(a, b), OtherGains(a, b))
    BY SumsMirror
  <2> PICK tf \in Int, to \in Int : tf = Total(FirstGains(a, b)) /\ to = Total(OtherGains(a, b))
    BY <1>1
  <2>2. tf * to = to * tf
    BY ONLY TRUE
  <2> QED BY <1>2, <2>1, <2>2 DEF Common
<1> PICK c : c = sign * Common(a, b)
  OBVIOUS
<1>6. Correlated(a, b, sign) = Exceeds(n, x, y, c)
  BY CorrelatedIs
<1>7. Correlated(b, a, sign) = Exceeds(n, y, x, c)
  BY <1>2, <1>3, <1>4, <1>5, CorrelatedIs
<1>8. Exceeds(n, x, y, c) = Exceeds(n, y, x, c)
  <2> PICK k \in Int, m \in Int : k = x /\ m = y
    BY <1>1
  <2>1. 64 * k * m = 64 * m * k
    BY ONLY TRUE
  <2> QED BY <2>1 DEF Exceeds
<1> QED
  BY <1>6, <1>7, <1>8

\* To be the same bet goes both ways.
LEMMA SameBetSwaps ==
    ASSUME NEW p, NEW q, p.sig \in Curves, q.sig \in Curves, p.sign \in {1, -1}, q.sign \in {1, -1},
           SameBet(p, q)
    PROVE  SameBet(q, p)
<1> PICK a \in Curves, b \in Curves : a = p.sig /\ b = q.sig
  OBVIOUS
<1> PICK s \in Int, t \in Int : s = p.sign /\ t = q.sign
  OBVIOUS
<1>1. s * t \in Int /\ s * t = t * s
  BY ONLY TRUE
<1>2. Correlated(b, a, t * s) = Correlated(a, b, s * t)
  <2> PICK k \in Int : k = s * t
    BY <1>1
  <2>1. Correlated(b, a, k) = Correlated(a, b, k)
    BY CorrelatedSwaps
  <2> QED BY <1>1, <2>1
<1>3. Word(a) = Word(b) => Flat(a) = Flat(b)
  BY FlatAlike
<1>4. SameBet(p, q) = IF ~Flat(a) /\ Word(a) = Word(b) THEN s = t ELSE Correlated(a, b, s * t)
  BY DEF SameBet
<1>5. SameBet(q, p) = IF ~Flat(b) /\ Word(b) = Word(a) THEN t = s ELSE Correlated(b, a, t * s)
  BY DEF SameBet
<1>6. CASE Word(a) = Word(b) /\ ~Flat(a)
  BY <1>3, <1>4, <1>5, <1>6
<1>7. CASE ~(Word(a) = Word(b) /\ ~Flat(a))
  <2>1. ~(Word(b) = Word(a) /\ ~Flat(b))
    BY <1>3, <1>7
  <2>2. Correlated(a, b, s * t)
    BY <1>4, <1>7
  <2> QED BY <1>2, <1>5, <2>1, <2>2
<1> QED
  BY <1>6, <1>7

-----------------------------------------------------------------------------
\* Closes are prices.
PricedIn(s) == \A i \in DOMAIN s : s[i].close > 0

LEMMA SignatureIs ==
    ASSUME NEW s \in Buffers, PricedIn(s)
    PROVE  Signature(s) \in Curves
<1> PICK T : T = {c \in Sound : c.close > 0}
  OBVIOUS
<1> PICK w \in Nat \ {0} : w = Knobs.signature
  BY KnobsAssumption
<1> PICK r : r = LastN(s, w)
  OBVIOUS
<1>1. s \in Seq(T)
  BY DEF PricedIn, Buffers
<1>2. r \in Seq(T)
  BY <1>1, LastNIs
<1> PICK n \in Nat : n = Len(r)
  BY <1>2
<1>3. \A i \in 1..n : r[i] \in T
  BY <1>2
<1>4. \A i \in 1..(n - 1) :
         /\ r[i + 1].time \in Int
         /\ (200 * (r[i + 1].close - r[i].close) + r[i].close) \div (2 * r[i].close) \in Int
  <2> TAKE i \in 1..(n - 1)
  <2>1. i \in 1..n /\ i + 1 \in 1..n
    OBVIOUS
  <2> PICK c \in T, d \in T : c = r[i] /\ d = r[i + 1]
    BY <1>3, <2>1
  <2>2. d.time \in Int /\ c.close \in Int /\ d.close \in Int /\ c.close > 0
    BY SoundIs
  <2> PICK x \in Int, y \in Int : x = c.close /\ y = d.close
    BY <2>2
  <2>5. x > 0
    BY <2>2
  <2>3. 2 * x \in Nat \ {0} /\ 200 * (y - x) + x \in Int
    BY ONLY <2>5
  <2>4. (200 * (y - x) + x) \div (2 * x) \in Int
    BY <2>3
  <2> QED BY <2>2, <2>4
<1>5. Signature(s) = [i \in 1..(n - 1) |->
                        [at |-> r[i + 1].time,
                         gain |-> (200 * (r[i + 1].close - r[i].close) + r[i].close) \div (2 * r[i].close)]]
  BY DEF Signature
<1> PICK U : U = [at : Int, gain : Int]
  OBVIOUS
<1>6. Signature(s) \in [1..(n - 1) -> U]
  BY <1>4, <1>5
<1>7. \E m \in Nat : 1..(n - 1) = 1..m
  <2>1. CASE n = 0
    <3>1. 1..(n - 1) = 1..0
      BY <2>1
    <3> QED BY <3>1
  <2>2. CASE n # 0
    <3>1. n - 1 \in Nat
      BY <2>2
    <3> QED BY <3>1
  <2> QED BY <2>1, <2>2
<1>8. Signature(s) \in Seq(U)
  <2> PICK m \in Nat : 1..(n - 1) = 1..m
    BY <1>7
  <2>1. Signature(s) \in [1..m -> U]
    BY <1>6
  <2> QED BY ONLY <2>1
<1> QED
  BY <1>8 DEF Curves

LEMMA BetsAre ==
    ASSUME NEW E, NEW bufs, NEW p \in Intents(E, bufs)
    PROVE  p.epic \in E /\ p.sign \in {1, -1} /\ p.sig = Signature(bufs[p.epic])
<1> PICK e \in E, s \in Signs : p = [epic |-> e, sign |-> s, sig |-> Signature(bufs[e])]
  BY DEF Intents
<1> QED
  BY DEF Signs

\* The winners of a filtered ranking are different bets, in whatever order they
\* are compared.
LEMMA WinnersApart ==
    ASSUME NEW intents, IsFiniteSet(intents),
           \A p \in intents : p.sig \in Curves /\ p.sign \in {1, -1},
           strategy.rule = "five", NEW W \in Winners(intents)
    PROVE  \A p, q \in W : p # q => ~SameBet(p, q)
<1> PICK S \in Baskets(intents) : \E r \in Rankings(S) : W \subseteq Range(Deduplicate(r))
  BY DEF Winners
<1> PICK r \in Rankings(S) : W \subseteq Range(Deduplicate(r))
  OBVIOUS
<1>1. S \subseteq intents /\ IsFiniteSet(S)
  BY FS_Subset DEF Baskets
<1> PICK n \in Nat : n = Cardinality(S)
  BY <1>1, FS_CardinalityType
<1>2. r \in Seq(S)
  <2>1. r \in [1..n -> S]
    BY DEF Rankings
  <2> QED BY <2>1
<1> PICK v : v = Deduplicate(r)
  OBVIOUS
<1>3. v \in Seq(S) /\ Apart(v)
  BY <1>2, DeduplicateIs
<1>4. DOMAIN v \subseteq Nat /\ \A i \in DOMAIN v : v[i] \in S
  BY <1>3
<1>5. \A p \in W : \E i \in DOMAIN v : p = v[i]
  BY DEF Range
<1> SUFFICES ASSUME NEW p \in W, NEW q \in W, p # q, SameBet(p, q) PROVE FALSE
  OBVIOUS
<1> PICK i \in DOMAIN v : p = v[i]
  BY <1>5
<1> PICK j \in DOMAIN v : q = v[j]
  BY <1>5
<1>6. p \in intents /\ q \in intents
  BY <1>1, <1>4
<1>7. SameBet(q, p)
  BY <1>6, SameBetSwaps
<1>8. i \in Nat /\ j \in Nat /\ i # j
  BY <1>4
<1>9. i < j \/ j < i
  BY <1>8
<1> QED
  BY <1>3, <1>7, <1>9 DEF Apart

-----------------------------------------------------------------------------
(***************************************************************************)
(* The bets of a basket.                                                   *)
(***************************************************************************)

\* Every candle in a buffer has a close above zero.
ClosesSet == \A e \in Epics : PricedIn(buffers[e])

LEMMA StepDiversifies ==
    ASSUME DayTyped, ClosesSet', Next, strategy.rule = "five"
    PROVE  LET opened == {e \in DOMAIN trades' : trades'[e].opened = minute'}
               bet(e) == [sig |-> Signature(buffers'[e]), sign |-> trades'[e].sign]
           IN \A e, f \in opened : e # f => ~SameBet(bet(e), bet(f))
<1> DEFINE opened == {e \in DOMAIN trades' : trades'[e].opened = minute'}
           bet(e) == [sig |-> Signature(buffers'[e]), sign |-> trades'[e].sign]
<1> SUFFICES ASSUME NEW e \in opened, NEW f \in opened, e # f, SameBet(bet(e), bet(f)) PROVE FALSE
  OBVIOUS
<1>1. CASE Minute
  <2> PICK arrived, bufs, out, kept, picks :
         Played(arrived, bufs, out, kept, picks) /\ Became(arrived, bufs, out, kept, picks)
    BY <1>1, MinuteIs
  <2>1. ASSUME NEW d \in opened PROVE d \in DOMAIN picks /\ trades'[d].sign = picks[d]
    <3>1. d \in kept \cup DOMAIN picks /\ trades'[d].opened = minute + 1
      BY DEF Became
    <3>2. d \notin kept
      <4> SUFFICES ASSUME d \in kept PROVE FALSE
        OBVIOUS
      <4> PICK p \in Trades : p = trades[d] /\ p.opened =< minute
        BY DEF Played, DayTyped
      <4> PICK L : L = out[d].stop
        OBVIOUS
      <4>1. Sensible(p, bufs[d], L)
        BY DEF Played, Settled
      <4> PICK q : q = Moved(p, L)
        OBVIOUS
      <4>2. q.opened = p.opened
        BY <4>1, MovedIs
      <4>3. trades'[d] = q
        BY DEF Became
      <4> QED BY <3>1, <4>2, <4>3, TradeIs DEF DayTyped
    <3> QED BY <3>1, <3>2 DEF Became
  <2> PICK E \in SUBSET Epics : IsFiniteSet(E) /\ picks \in Picks(kept, Intents(E, bufs))
    BY DEF Played
  <2> PICK intents : intents = Intents(E, bufs)
    OBVIOUS
  <2>2. IsFiniteSet(intents)
    BY IntentsAre
  <2>3. \A d \in Epics : bufs[d] \in Buffers /\ PricedIn(bufs[d])
    <3>1. bufs \in [Epics -> Buffers] /\ buffers' = bufs /\ Epics' = Epics
      BY DEF Played, Became, Epics
    <3> QED BY <3>1 DEF ClosesSet
  <2>4. \A p \in intents : /\ p.epic \in Epics /\ p.sign \in {1, -1}
                           /\ p.sig = Signature(bufs[p.epic]) /\ p.sig \in Curves
    <3> TAKE p \in intents
    <3>1. p.epic \in E /\ p.sign \in {1, -1} /\ p.sig = Signature(bufs[p.epic])
      BY BetsAre
    <3> PICK s \in Buffers : s = bufs[p.epic] /\ PricedIn(s)
      BY <2>3, <3>1
    <3>2. Signature(s) \in Curves
      BY SignatureIs
    <3> QED BY <3>1, <3>2
  <2>5. strategy.ranker
    <3>1. \A d \in Days : d.strategy.rule = "five" => d.strategy.ranker
      BY DayAssumption, Zenon
    <3> QED BY <3>1 DEF DayTyped, strategy
  <2>6. picks \in RankerPicks(intents, Slots(kept))
    BY <2>5 DEF Picks
  <2>7. picks # <<>>
    <3>1. DOMAIN picks # {}
      BY <2>1
    <3> QED BY <3>1
  <2> PICK W \in Winners(intents) : picks = AsPicks(W)
    BY <2>6, <2>7 DEF RankerPicks
  <2>8. W \subseteq intents /\ IsFiniteSet(W)
    BY <2>2, BasketsAre
  <2>9. \A d \in DOMAIN picks : \E p \in W : p.epic = d /\ picks[d] = p.sign
    BY <2>8, AsPicksAre
  <2> PICK p \in W : p.epic = e /\ picks[e] = p.sign
    BY <2>1, <2>9
  <2> PICK q \in W : q.epic = f /\ picks[f] = q.sign
    BY <2>1, <2>9
  <2>10. bet(e).sig = p.sig /\ bet(e).sign = p.sign /\ bet(f).sig = q.sig /\ bet(f).sign = q.sign
    BY <2>1, <2>4, <2>8 DEF Became
  <2> HIDE DEF bet
  <2>11. SameBet(p, q)
    BY <2>10 DEF SameBet
  <2>12. p # q
    OBVIOUS
  <2>13. \A x, y \in W : x # y => ~SameBet(x, y)
    BY <2>2, <2>4, WinnersApart
  <2> QED BY <2>11, <2>12, <2>13
<1>2. CASE EndOfDay
  <2>1. trades' = <<>>
    BY <1>2 DEF EndOfDay
  <2>2. DOMAIN trades' = {}
    BY <2>1
  <2> QED BY <2>2
<1> QED
  BY <1>1, <1>2 DEF Next

\* deduplicate (core/similarity.py) as open_five ranks with it: whatever the order of the
\* scores, no two positions opened in one minute are the same bet.
THEOREM BasketsAreDistinct == Spec /\ []ClosesSet => BasketDistinct
<1>1. DayTyped /\ ClosesSet' /\ [Next]_vars =>
       [strategy.rule = "five" =>
         LET opened == {e \in DOMAIN trades' : trades'[e].opened = minute'}
             bet(e) == [sig |-> Signature(buffers'[e]), sign |-> trades'[e].sign]
         IN \A e, f \in opened : e # f => ~SameBet(bet(e), bet(f))]_vars
  BY StepDiversifies
<1> QED
  BY <1>1, DayHolds, PTL DEF Spec, BasketDistinct
=============================================================================
