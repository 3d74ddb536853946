------------------------------ MODULE NatFacts ------------------------------
(***************************************************************************)
(* Facts about natural numbers that the proofs of several components use:  *)
(* induction stated with a set, counting places, and division with         *)
(* remainder.                                                              *)
(***************************************************************************)
EXTENDS Integers, FiniteSets, FiniteSetTheorems, WellFoundedInduction, TLAPS

\* A set of natural numbers that is not empty has a least element.
LEMMA LeastNat ==
  ASSUME NEW T \in SUBSET Nat, T # {}
  PROVE  \E m \in T : \A k \in T : m <= k
<1> DEFINE R == {rr \in Nat \X Nat : rr[1] < rr[2]}
<1>1. IsWellFoundedOn(R, Nat)
  BY NatLessThanWellFounded DEF OpToRel
<1> HIDE DEF R
<1>2. PICK x \in T : \A y \in T : ~ (<<y, x>> \in R)
  BY <1>1, WFMin
<1>3. ASSUME NEW y \in T PROVE x <= y
  <2>1. <<y, x>> \in Nat \X Nat /\ <<y, x>>[1] = y /\ <<y, x>>[2] = x
    OBVIOUS
  <2>2. ~(<<y, x>>[1] < <<y, x>>[2])
    BY <1>2, <2>1 DEF R
  <2> QED BY <2>1, <2>2
<1> QED BY <1>3

\* Induction: a set that holds 0 and the successor of what it holds has every number.
LEMMA SetInduction ==
  ASSUME NEW S, 0 \in S, \A n \in Nat : n \in S => n + 1 \in S
  PROVE  Nat \subseteq S
<1> DEFINE T == Nat \ S
<1> SUFFICES ASSUME T # {} PROVE FALSE
  OBVIOUS
<1>1. PICK m \in T : \A k \in T : m <= k
  BY LeastNat
<1>2. m # 0 /\ m \in Nat
  BY <1>1
<1>3. m - 1 \in Nat /\ m - 1 \in S /\ m = (m - 1) + 1
  BY <1>1, <1>2
<1> QED BY <1>1, <1>3

\* The same, up to a number.
LEMMA SetInductionTo ==
  ASSUME NEW S, NEW N \in Nat, 0 \in S, \A n \in 0 .. N - 1 : n \in S => n + 1 \in S
  PROVE  0 .. N \subseteq S
<1> DEFINE T == S \cup {n \in Nat : n > N}
<1>1. 0 \in T
  OBVIOUS
<1>2. ASSUME NEW n \in Nat, n \in T PROVE n + 1 \in T
  <2>1. CASE n < N
    BY <1>2, <2>1
  <2>2. CASE n >= N
    BY <2>2
  <2> QED BY <2>1, <2>2
<1> HIDE DEF T
<1>3. Nat \subseteq T
  BY <1>1, <1>2, SetInduction
<1> QED BY <1>3 DEF T

\* A set of naturals below a bound has a largest element.
LEMMA GreatestNat ==
  ASSUME NEW N \in Nat, NEW T \in SUBSET (0 .. N), T # {}
  PROVE  \E m \in T : \A k \in T : k <= m
<1> DEFINE U == {N - k : k \in T}
<1>1. U \in SUBSET Nat /\ U # {}
  <2>1. \A k \in T : N - k \in Nat
    OBVIOUS
  <2>2. PICK k \in T : TRUE
    OBVIOUS
  <2>3. N - k \in U
    OBVIOUS
  <2>4. U \in SUBSET Nat
    BY <2>1
  <2> QED BY <2>3, <2>4
<1>2. PICK u \in U : \A v \in U : u <= v
  <2> HIDE DEF U
  <2> QED BY <1>1, LeastNat
<1>3. PICK m \in T : u = N - m
  BY <1>2
<1>4. ASSUME NEW k \in T PROVE k <= m
  <2>1. N - k \in U
    OBVIOUS
  <2>2. N - m <= N - k
    BY <1>2, <1>3, <2>1
  <2>3. k \in 0 .. N /\ m \in 0 .. N
    OBVIOUS
  <2> QED BY <2>2, <2>3
<1> QED BY <1>4

\* A set of places with every place before one of its own is the places up to one.
LEMMA FirstPlaces ==
  ASSUME NEW N \in Nat, NEW S \in SUBSET (1 .. N),
         \A i \in S, j \in 1 .. N : j < i => j \in S
  PROVE  \E m \in 0 .. N : S = 1 .. m /\ Cardinality(S) = m
<1> DEFINE T == {i \in 1 .. N + 1 : i \notin S}
<1>1. T \in SUBSET Nat /\ N + 1 \in T
  OBVIOUS
<1>2. PICK k \in T : \A t \in T : k <= t
  <2> HIDE DEF T
  <2> QED BY <1>1, LeastNat
<1>3. k \in 1 .. N + 1 /\ k \notin S
  OBVIOUS
<1>4. \A i \in 1 .. N : i < k => i \in S
  BY <1>2
<1>5. \A i \in S : i < k
  BY <1>3
<1>6. PICK m \in 0 .. N : m = k - 1
  BY <1>3
<1>7. S = 1 .. m
  <2>1. ASSUME NEW i \in S PROVE i \in 1 .. m
    BY <1>3, <1>5, <1>6
  <2>2. ASSUME NEW i \in 1 .. m PROVE i \in S
    BY <1>3, <1>4, <1>6
  <2> QED BY <2>1, <2>2
<1>8. Cardinality(1 .. m) = m
  <2>1. 1 \in Int /\ m \in Int /\ m >= 0
    OBVIOUS
  <2>2. Cardinality(1 .. m) = IF 1 > m THEN 0 ELSE m - 1 + 1
    BY <2>1, FS_Interval
  <2> QED BY <2>1, <2>2
<1> QED BY <1>7, <1>8

-----------------------------------------------------------------------------
(* Division with remainder.                                                *)

\* A number between -R and R is a multiple of R only if it is 0.
LEMMA SmallMultiple ==
  ASSUME NEW q \in Int, NEW R \in Nat \ {0}, NEW d \in Int,
         d = q * R, -R < d, d < R
  PROVE  d = 0
<1>1. CASE q <= -1
  BY <1>1
<1>2. CASE q >= 1
  BY <1>2
<1> QED BY <1>1, <1>2

\* Quotient and remainder.
LEMMA DivMod ==
  ASSUME NEW a \in Int, NEW R \in Nat \ {0}
  PROVE  a = (a \div R) * R + (a % R) /\ a \div R \in Int /\ a % R \in 0 .. R - 1
<1> DEFINE p == a \div R
           s == a % R
<1>1. a = p * R + s
  OBVIOUS
<1>2. p \in Int /\ s \in 0 .. R - 1
  OBVIOUS
<1> QED BY <1>1, <1>2

\* They are determined by the number.
LEMMA DivModUnique ==
  ASSUME NEW q \in Int, NEW R \in Nat \ {0}, NEW r \in 0 .. R - 1, NEW a \in Int, a = q * R + r
  PROVE  a \div R = q /\ a % R = r
<1> DEFINE p == a \div R
           s == a % R
<1>1. a = p * R + s /\ p \in Int /\ s \in 0 .. R - 1
  BY DivMod
<1> SUFFICES p = q /\ s = r
  OBVIOUS
<1> HIDE DEF p, s
<1>2. r - s = (p - q) * R
  BY <1>1
<1>3. r - s \in Int /\ p - q \in Int /\ -R < r - s /\ r - s < R
  BY <1>1
<1>4. r - s = 0
  BY <1>2, <1>3, SmallMultiple
<1>5. (p - q) * R = 0
  BY <1>2, <1>4
<1>6. p - q = 0
  <2>1. CASE p - q >= 1
    BY <1>3, <1>5, <2>1
  <2>2. CASE p - q <= -1
    BY <1>3, <1>5, <2>2
  <2> QED BY <1>3, <2>1, <2>2
<1> QED BY <1>1, <1>4, <1>6

\* Counting on from a remainder.
LEMMA ModSuccessor ==
  ASSUME NEW a \in Int, NEW R \in Nat \ {0}
  PROVE  ((a % R) + 1) % R = (a + 1) % R
<1> DEFINE p == a \div R
           s == a % R
<1>1. a = p * R + s /\ p \in Int /\ s \in 0 .. R - 1
  BY DivMod
<1> HIDE DEF p, s
<1>2. CASE s + 1 < R
  <2>1. a + 1 = p * R + (s + 1) /\ s + 1 \in 0 .. R - 1
    BY <1>1, <1>2
  <2>2. (a + 1) % R = s + 1
    BY <1>1, <2>1, DivModUnique
  <2>3. s + 1 = 0 * R + (s + 1)
    BY <1>1
  <2>4. (s + 1) % R = s + 1
    BY <1>1, <2>1, <2>3, DivModUnique
  <2> QED BY <2>2, <2>4 DEF s
<1>3. CASE s + 1 = R
  <2>1. a + 1 = (p + 1) * R + 0 /\ 0 \in 0 .. R - 1 /\ p + 1 \in Int
    BY <1>1, <1>3
  <2>2. (a + 1) % R = 0
    BY <1>1, <2>1, DivModUnique
  <2>3. s + 1 = 1 * R + 0
    BY <1>1, <1>3
  <2>4. (s + 1) % R = 0
    BY <1>1, <2>1, <2>3, DivModUnique
  <2> QED BY <2>2, <2>4 DEF s
<1> QED BY <1>1, <1>2, <1>3

\* Two numbers less than R apart with the same remainder are equal.
LEMMA ModInjective ==
  ASSUME NEW a \in Int, NEW b \in Int, NEW R \in Nat \ {0},
         a % R = b % R, -R < a - b, a - b < R
  PROVE  a = b
<1> DEFINE p == a \div R
           q == b \div R
           s == a % R
           t == b % R
<1>1. a = p * R + s /\ b = q * R + t /\ p \in Int /\ q \in Int /\ s = t /\ s \in Int
  BY DivMod
<1> HIDE DEF p, q, s, t
<1>2. a - b = (p - q) * R /\ p - q \in Int
  BY <1>1
<1>3. a - b = 0
  BY <1>2, SmallMultiple
<1> QED BY <1>3

\* Multiplying by a positive number keeps the order, and spreads it by that number.
LEMMA ScaledOrder ==
  ASSUME NEW a \in Int, NEW b \in Int, NEW R \in Nat \ {0}
  PROVE  /\ a * R \in Int /\ b * R \in Int
         /\ a <= b => a * R <= b * R
         /\ a < b => a * R + R <= b * R
         /\ a >= 0 => a * R >= 0
<1>1. a * R \in Int /\ b * R \in Int /\ (b - a) * R = b * R - a * R
  OBVIOUS
<1>2. a <= b => (b - a) * R >= 0
  OBVIOUS
<1>3. a < b => (b - a) * R >= R
  <2> SUFFICES ASSUME a < b PROVE (b - a) * R >= R
    OBVIOUS
  <2> DEFINE d == b - a
  <2>1. d \in Nat /\ d >= 1
    OBVIOUS
  <2> HIDE DEF d
  <2>2. d - 1 \in Nat /\ (d - 1) * R >= 0 /\ (d - 1) * R = d * R - R /\ d * R \in Int
    BY <2>1
  <2> QED BY <2>2 DEF d
<1>4. a >= 0 => a * R >= 0
  OBVIOUS
<1> QED BY <1>1, <1>2, <1>3, <1>4

\* Division keeps the order.
LEMMA DivMonotone ==
  ASSUME NEW a \in Nat, NEW b \in Nat, NEW R \in Nat \ {0}, a <= b
  PROVE  a \div R \in Int /\ b \div R \in Int /\ 0 <= a \div R /\ a \div R <= b \div R
<1> DEFINE q == a \div R
           r == b \div R
           x == a % R
           y == b % R
<1>1. a = q * R + x /\ q \in Int /\ x \in 0 .. R - 1
  BY DivMod
<1>2. b = r * R + y /\ r \in Int /\ y \in 0 .. R - 1
  BY DivMod
<1> HIDE DEF q, r, x, y
<1>3. q >= 0
  <2> SUFFICES ASSUME q <= -1 PROVE FALSE
    BY <1>1
  <2>1. q * R <= (-1) * R /\ q * R \in Int
    BY <1>1, ScaledOrder
  <2> QED BY <1>1, <2>1
<1>4. q <= r
  <2> SUFFICES ASSUME r < q PROVE FALSE
    BY <1>1, <1>2
  <2>1. r * R + R <= q * R /\ q * R \in Int /\ r * R \in Int
    BY <1>1, <1>2, ScaledOrder
  <2> QED BY <1>1, <1>2, <2>1
<1> QED BY <1>1, <1>2, <1>3, <1>4 DEF q, r
=============================================================================
