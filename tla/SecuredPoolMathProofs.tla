----------------------- MODULE SecuredPoolMathProofs -----------------------
(***************************************************************************)
(* What the rounding of the pool's arithmetic guarantees, for all values.  *)
(* MulDiv and MulDivCeil are characterised once by the products they are   *)
(* bounded by; the lemmas on shares follow from those bounds alone.        *)
(***************************************************************************)
EXTENDS SecuredPoolMath, Functions, FiniteSetTheorems, WellFoundedInduction, TLAPS

\* Integer division: the quotient is the largest one whose product stays within a.
LEMMA DivBounds ==
    ASSUME NEW a \in Nat, NEW c \in Nat \ {0}
    PROVE  /\ a \div c \in Nat
           /\ (a \div c) * c <= a
           /\ a < (a \div c) * c + c
OBVIOUS

\* Products of natural numbers are natural numbers.
LEMMA ProductNat ==
    ASSUME NEW a \in Nat, NEW b \in Nat
    PROVE  a * b \in Nat
OBVIOUS

\* Products respect the order.
LEMMA ProductMonotone ==
    ASSUME NEW a \in Nat, NEW b \in Nat, NEW c \in Nat, a <= b
    PROVE  a * c <= b * c /\ c * a <= c * b
OBVIOUS

\* A positive factor cancels from a strict inequality.
LEMMA CancelFactor ==
    ASSUME NEW a \in Int, NEW b \in Int, NEW c \in Nat \ {0}, a * c < b * c
    PROVE  a < b
OBVIOUS

\* Rounding down: the quotient never exceeds the exact ratio.
LEMMA MulDivBounds ==
    ASSUME NEW a \in Nat, NEW b \in Nat, NEW c \in Nat \ {0}
    PROVE  /\ MulDiv(a, b, c) \in Nat
           /\ MulDiv(a, b, c) * c <= a * b
           /\ a * b < MulDiv(a, b, c) * c + c
BY ProductNat, DivBounds DEF MulDiv

\* Rounding up: the quotient never falls below the exact ratio, and is less than one above it.
LEMMA MulDivCeilBounds ==
    ASSUME NEW a \in Nat, NEW b \in Nat, NEW c \in Nat \ {0}
    PROVE  /\ MulDivCeil(a, b, c) \in Nat
           /\ a * b <= MulDivCeil(a, b, c) * c
           /\ MulDivCeil(a, b, c) * c < a * b + c
<1> DEFINE n == a * b + (c - 1)
<1>1. a * b \in Nat /\ n \in Nat
  BY ProductNat
<1>2. n \div c \in Nat /\ (n \div c) * c <= n /\ n < (n \div c) * c + c
  BY <1>1, DivBounds
<1>3. (n \div c) * c \in Nat
  BY <1>2, ProductNat
<1> QED BY <1>1, <1>2, <1>3 DEF MulDivCeil

(***************************************************************************)
(* The cost of s of t shares of a debt p, rounded up: at least one when    *)
(* there is a share, at most the whole debt, and what is left of the debt  *)
(* still covers the shares that are left.                                  *)
(***************************************************************************)
LEMMA CeilShare ==
    ASSUME NEW s \in Nat, NEW t \in Nat \ {0}, NEW p \in Nat, s <= t, t <= p
    PROVE  /\ MulDivCeil(s, p, t) \in Nat
           /\ MulDivCeil(s, p, t) <= p
           /\ t - s <= p - MulDivCeil(s, p, t)
           /\ s # 0 => MulDivCeil(s, p, t) # 0
           /\ s = t => MulDivCeil(s, p, t) = p
<1> DEFINE m == MulDivCeil(s, p, t)
<1>1. m \in Nat /\ s * p <= m * t /\ m * t < s * p + t
  BY MulDivCeilBounds
<1>2. s * p + t <= (p - t + s + 1) * t
  <2>1. (p - t) * (t - s) \in Nat
    BY ProductNat
  <2>2. (p - t + s + 1) * t - (s * p + t) = (p - t) * (t - s)
    OBVIOUS
  <2> QED BY <2>1, <2>2
<1>3. m * t < (p - t + s + 1) * t
  BY <1>1, <1>2
<1>4. m < p - t + s + 1
  BY <1>1, <1>3, CancelFactor
<1>5. s # 0 => m # 0
  BY <1>1
<1>6. s = t => m = p
  <2> SUFFICES ASSUME s = t PROVE m >= p
    BY <1>1, <1>4
  <2>1. p * t < (m + 1) * t
    BY <1>1
  <2> QED BY <1>1, <2>1, CancelFactor
<1> HIDE DEF m
<1>7. m \in Nat /\ m <= p /\ t - s <= p - m /\ (s # 0 => m # 0) /\ (s = t => m = p)
  BY <1>1, <1>4, <1>5, <1>6
<1> QED BY <1>7 DEF m

\* Shares minted for a new debt a, when a share costs at least one unit: at least one, at most a.
LEMMA CeilMint ==
    ASSUME NEW a \in Nat \ {0}, NEW t \in Nat \ {0}, NEW p \in Nat, t <= p
    PROVE  /\ MulDivCeil(a, t, p) \in Nat
           /\ MulDivCeil(a, t, p) # 0
           /\ MulDivCeil(a, t, p) <= a
<1> DEFINE m == MulDivCeil(a, t, p)
<1>1. m \in Nat /\ a * t <= m * p /\ m * p < a * t + p
  BY MulDivCeilBounds
<1>2. m * p < (a + 1) * p
  BY <1>1, ProductMonotone
<1>3. m < a + 1
  BY <1>1, <1>2, CancelFactor
<1> QED BY <1>1, <1>3

(***************************************************************************)
(* A partial repayment of a: burning the shares it buys, rounded down,     *)
(* burns at least one as soon as a covers a share, reduces the debt by no  *)
(* more than a, and burns no more than the s shares whose cost exceeds a.  *)
(***************************************************************************)
LEMMA FloorBurn ==
    ASSUME NEW a \in Nat, NEW t \in Nat \ {0}, NEW p \in Nat \ {0}, NEW s \in Nat
    PROVE  /\ a * t >= p => MulDiv(a, t, p) # 0
           /\ MulDivCeil(MulDiv(a, t, p), p, t) <= a
           /\ a < MulDivCeil(s, p, t) => MulDiv(a, t, p) <= s
           /\ a < p => MulDiv(a, t, p) <= t
<1> DEFINE b == MulDiv(a, t, p)
           c == MulDivCeil(b, p, t)
           q == MulDivCeil(s, p, t)
<1>1. b \in Nat /\ b * p <= a * t /\ a * t < b * p + p
  BY MulDivBounds
<1> HIDE DEF b
<1>2. c \in Nat /\ c * t < b * p + t
  BY <1>1, MulDivCeilBounds
<1>3. q \in Nat /\ q * t < s * p + t
  BY MulDivCeilBounds
<1> HIDE DEF c, q
<1>4. a * t \in Nat /\ b * p \in Nat /\ c * t \in Nat /\ q * t \in Nat /\ s * p \in Nat
  BY <1>1, <1>2, <1>3, ProductNat
<1>5. a * t >= p => b # 0
  BY <1>1
<1>6. c <= a
  <2>1. (a + 1) * t = a * t + t
    OBVIOUS
  <2>2. c * t < (a + 1) * t
    BY <1>1, <1>2, <1>4, <2>1
  <2>3. c < a + 1
    BY <1>2, <2>2, CancelFactor
  <2> QED BY <1>2, <2>3
<1>7. ASSUME a < q PROVE b <= s
  <2>1. (a + 1) * t <= q * t
    BY <1>3, <1>7, ProductMonotone
  <2>2. (a + 1) * t = a * t + t
    OBVIOUS
  <2>3. b * p < s * p
    BY <1>1, <1>3, <1>4, <2>1, <2>2
  <2>4. b < s
    BY <1>1, <2>3, CancelFactor
  <2> QED BY <1>1, <2>4
<1>8. ASSUME a < p PROVE b <= t
  <2>1. a * t <= p * t
    BY <1>8, ProductMonotone
  <2>2. (t + 1) * p = p * t + p /\ p * t \in Nat
    BY ProductNat
  <2>3. b * p < (t + 1) * p
    BY <1>1, <1>4, <2>1, <2>2
  <2>4. b < t + 1
    BY <1>1, <2>3, CancelFactor
  <2> QED BY <1>1, <2>4
<1> QED BY <1>5, <1>6, <1>7, <1>8 DEF b, c, q

(***************************************************************************)
(* Minting m for a at or below, and burning b for a at or above, the value *)
(* k / t of a share never lowers that value, and neither does a claim that *)
(* has grown from c to k in between.                                       *)
(***************************************************************************)
LEMMA MintKeepsValue ==
    ASSUME NEW c \in Int, NEW k \in Nat, NEW t \in Nat, NEW a \in Nat, NEW m \in Nat,
           c <= k, m * k <= a * t
    PROVE  (k + a) * t >= c * (t + m)
<1>1. (k + a) * t = k * t + a * t /\ k * (t + m) = k * t + m * k
  OBVIOUS
<1>2. c * (t + m) <= k * (t + m)
  OBVIOUS
<1>3. k * t \in Nat /\ a * t \in Nat /\ m * k \in Nat /\ c * (t + m) \in Int
  BY ProductNat
<1> QED BY <1>1, <1>2, <1>3

\* The same for a burn.
LEMMA BurnKeepsValue ==
    ASSUME NEW c \in Int, NEW k \in Nat, NEW t \in Nat, NEW a \in Nat, NEW b \in Nat,
           c <= k, b <= t, a * t <= b * k
    PROVE  (k - a) * t >= c * (t - b)
<1>1. (k - a) * t = k * t - a * t /\ k * (t - b) = k * t - b * k
  OBVIOUS
<1>2. t - b \in Nat
  OBVIOUS
<1>3. c * (t - b) <= k * (t - b)
  BY <1>2
<1>4. k * t \in Nat /\ a * t \in Nat /\ b * k \in Nat /\ c * (t - b) \in Int
  BY ProductNat
<1> QED BY <1>1, <1>3, <1>4

(***************************************************************************)
(* A mint of m shares, rounded up, for a new debt of a: what s + m of the  *)
(* t + m shares then cost is what the s shares cost, q, plus a, plus at    *)
(* most the cost c of one share.                                           *)
(***************************************************************************)
LEMMA MintedCost ==
    ASSUME NEW s \in Nat, NEW t \in Nat \ {0}, NEW p \in Nat \ {0}, NEW a \in Nat, NEW m \in Nat,
           NEW q \in Nat, NEW c \in Nat,
           s * p <= q * t, a * t <= m * p, m * p < a * t + p, p + a <= c * (t + m)
    PROVE  MulDivCeil(s + m, p + a, t + m) <= q + a + c
<1> DEFINE d == MulDivCeil(s + m, p + a, t + m)
<1>1. d \in Nat /\ d * (t + m) < (s + m) * (p + a) + (t + m)
  <2>1. s + m \in Nat /\ p + a \in Nat /\ t + m \in Nat \ {0}
    OBVIOUS
  <2> QED BY <2>1, MulDivCeilBounds
<1> HIDE DEF d
<1>2. /\ s * p \in Nat /\ s * a \in Nat /\ m * p \in Nat /\ m * a \in Nat /\ q * t \in Nat /\ q * m \in Nat
      /\ a * t \in Nat /\ c * (t + m) \in Nat /\ d * (t + m) \in Nat
  BY <1>1, ProductNat
<1>3. s * a <= q * m
  <2>1. (s * p) * (a * t) <= (q * t) * (m * p)
    <3>1. (s * p) * (a * t) <= (q * t) * (a * t)
      BY <1>2, ProductMonotone
    <3>2. (q * t) * (a * t) <= (q * t) * (m * p)
      BY <1>2, ProductMonotone
    <3>3. (s * p) * (a * t) \in Nat /\ (q * t) * (a * t) \in Nat /\ (q * t) * (m * p) \in Nat
      BY <1>2, ProductNat
    <3> QED BY <3>1, <3>2, <3>3
  <2>2. (s * p) * (a * t) = (s * a) * (p * t) /\ (q * t) * (m * p) = (q * m) * (p * t)
    OBVIOUS
  <2>3. p * t \in Nat \ {0}
    OBVIOUS
  <2>4. (s * a) * (p * t) < (q * m + 1) * (p * t)
    <3> DEFINE k == p * t
               x == s * a
               y == q * m
    <3>1. x * k <= y * k /\ k \in Nat \ {0} /\ x \in Nat /\ y \in Nat
      BY <1>2, <2>1, <2>2, <2>3
    <3> HIDE DEF k, x, y
    <3>2. (y + 1) * k = y * k + k /\ x * k \in Nat /\ y * k \in Nat
      BY <3>1, ProductNat
    <3>3. x * k < (y + 1) * k
      BY <3>1, <3>2
    <3> QED BY <3>3 DEF k, x, y
  <2>5. s * a < q * m + 1
    BY <1>2, <2>3, <2>4, CancelFactor
  <2> QED BY <1>2, <2>5
<1>4. (s + m) * (p + a) = s * p + s * a + m * p + m * a
  OBVIOUS
<1>5. (q + a + c + 1) * (t + m) = q * t + q * m + a * t + m * a + c * (t + m) + (t + m)
  OBVIOUS
<1>6. d * (t + m) < (q + a + c + 1) * (t + m)
  BY <1>1, <1>2, <1>3, <1>4, <1>5
<1>7. d < q + a + c + 1
  BY <1>1, <1>6, CancelFactor
<1> QED BY <1>1, <1>7 DEF d

\* Nothing has no value, and supports no debt.
LEMMA ZeroProduct ==
    ASSUME NEW b \in Nat, NEW c \in Nat \ {0}
    PROVE  MulDiv(0, b, c) = 0
BY DEF MulDiv

\* The borrow rate and the interest it yields are natural numbers.
LEMMA BorrowAprNat ==
    ASSUME NEW cash \in Nat, NEW performing \in Nat
    PROVE  BorrowAprBps(cash, performing) \in Nat
<1> DEFINE u == UtilizationBps(cash, performing)
<1>1. u \in Nat
  BY MulDivBounds DEF UtilizationBps, BPS
<1> HIDE DEF u
<1>2. CASE u <= KinkBps
  <2>1. MulDiv(Slope1Bps, u, KinkBps) \in Nat
    BY <1>1, MulDivBounds DEF Slope1Bps, KinkBps
  <2> QED BY <1>2, <2>1 DEF BorrowAprBps, BaseBorrowAprBps, u
<1>3. CASE ~(u <= KinkBps)
  <2>1. MulDiv(Slope2Bps, u - KinkBps, BPS - KinkBps) \in Nat
    BY <1>1, <1>3, MulDivBounds DEF Slope2Bps, KinkBps, BPS
  <2> QED BY <1>3, <2>1 DEF BorrowAprBps, BaseBorrowAprBps, Slope1Bps, u
<1> QED BY <1>2, <1>3

\* Interest never lowers a debt, and the reserves never take more than the interest.
LEMMA InterestSplit ==
    ASSUME NEW debt \in Nat, NEW apr \in Nat, NEW elapsed \in Nat
    PROVE  /\ InterestAssets(debt, apr, elapsed) \in Nat
           /\ ReserveAssets(InterestAssets(debt, apr, elapsed)) \in Nat
           /\ ReserveAssets(InterestAssets(debt, apr, elapsed)) <= InterestAssets(debt, apr, elapsed)
<1> DEFINE i == InterestAssets(debt, apr, elapsed)
<1>1. apr * elapsed \in Nat /\ SecondsPerYear * BPS \in Nat \ {0}
  BY ProductNat, ScaleAssumption DEF BPS
<1>2. i \in Nat
  BY <1>1, MulDivCeilBounds DEF InterestAssets
<1> HIDE DEF i
<1>3. MulDiv(i, ReserveFactorBps, BPS) \in Nat /\ MulDiv(i, ReserveFactorBps, BPS) * BPS <= i * ReserveFactorBps
  BY <1>2, MulDivBounds DEF ReserveFactorBps, BPS
<1>4. MulDiv(i, ReserveFactorBps, BPS) <= i
  BY <1>2, <1>3 DEF ReserveFactorBps, BPS
<1> QED BY <1>2, <1>3, <1>4 DEF ReserveAssets, i
-----------------------------------------------------------------------------
(***************************************************************************)
(* Induction over the natural numbers for a set, from the well-foundedness *)
(* of <, and what it says of a loop that applies a function G to a start   *)
(* value n times: it is defined, and it stays in any set that G maps into  *)
(* itself.                                                                 *)
(***************************************************************************)
NatLess == {pair \in Nat \X Nat : pair[1] < pair[2]}

\* The order on the natural numbers is well-founded.
LEMMA NatLessWellFounded == IsWellFoundedOn(NatLess, Nat)
BY NatLessThanWellFounded, Zenon DEF OpToRel, NatLess

\* A set that holds 0 and is closed under successor holds every natural number.
LEMMA SetInduction ==
    ASSUME NEW S, 0 \in S, \A n \in Nat : n \in S => n + 1 \in S
    PROVE  Nat \subseteq S
<1> DEFINE T == Nat \ S
<1> SUFFICES ASSUME T # {} PROVE FALSE
  OBVIOUS
<1>1. PICK x \in T : \A y \in T : ~(<<y, x>> \in NatLess)
  BY NatLessWellFounded, WFMin
<1>2. x \in Nat /\ x # 0
  BY <1>1
<1>3. x - 1 \in Nat /\ x - 1 < x /\ (x - 1) + 1 = x
  BY <1>2
<1>4. <<x - 1, x>> \in NatLess
  BY <1>2, <1>3 DEF NatLess
<1>5. x - 1 \in S
  BY <1>1, <1>3, <1>4
<1> QED BY <1>1, <1>2, <1>3, <1>5

IsLoop(g, G, x0, N) == g = [n \in 0 .. N |-> IF n = 0 THEN x0 ELSE G[g[n - 1]]]

\* A loop of N steps is a function on 0 .. N, for every N.
LEMMA LoopExists ==
    ASSUME NEW T, NEW G \in [T -> T], NEW x0 \in T
    PROVE  \A N \in Nat : \E g \in [0 .. N -> T] : IsLoop(g, G, x0, N)
<1> DEFINE S == {N \in Nat : \E g \in [0 .. N -> T] : IsLoop(g, G, x0, N)}
<1>1. 0 \in S
  <2> DEFINE g == [n \in 0 .. 0 |-> x0]
  <2>1. g \in [0 .. 0 -> T] /\ IsLoop(g, G, x0, 0)
    BY DEF IsLoop
  <2> QED BY <2>1
<1>2. ASSUME NEW N \in Nat, N \in S PROVE N + 1 \in S
  <2>1. PICK g \in [0 .. N -> T] : IsLoop(g, G, x0, N)
    BY <1>2
  <2> DEFINE h == [n \in 0 .. N + 1 |-> IF n = N + 1 THEN G[g[N]] ELSE g[n]]
  <2>2. h \in [0 .. N + 1 -> T]
    BY <2>1
  <2>3. \A n \in 0 .. N + 1 : h[n] = IF n = 0 THEN x0 ELSE G[h[n - 1]]
    <3>1. \A n \in 0 .. N : g[n] = IF n = 0 THEN x0 ELSE G[g[n - 1]]
      BY <2>1 DEF IsLoop
    <3> QED BY <3>1
  <2>4. IsLoop(h, G, x0, N + 1)
    BY <2>2, <2>3 DEF IsLoop
  <2> QED BY <2>2, <2>4
<1>3. Nat \subseteq S
  <2> HIDE DEF S
  <2> QED BY <1>1, <1>2, SetInduction
<1> QED BY <1>3
-----------------------------------------------------------------------------
(***************************************************************************)
(* Sums over the accounts.  SumFunction takes the elements of a set one at *)
(* a time; IsSum is the equation of its recursion.                         *)
(***************************************************************************)
Pick(s) == CHOOSE x \in s : TRUE

SumStep(g, f, s) == IF s = {} THEN 0 ELSE f[Pick(s)] + g[s \ {Pick(s)}]

IsSum(g, f) == g = [s \in SUBSET DOMAIN f |-> SumStep(g, f, s)]

\* A set without the element picked from it is smaller.
LEMMA PickShrinks ==
    ASSUME NEW A, IsFiniteSet(A), NEW s \in SUBSET A, s # {}
    PROVE  /\ Pick(s) \in s /\ Pick(s) \in A /\ s \ {Pick(s)} \in SUBSET A
           /\ Cardinality(s) \in Nat /\ Cardinality(s \ {Pick(s)}) = Cardinality(s) - 1
           /\ Cardinality(s) # 0
<1>1. Pick(s) \in s
  BY DEF Pick
<1>2. IsFiniteSet(s)
  BY FS_Subset
<1>3. Cardinality(s \ {Pick(s)}) = Cardinality(s) - 1
  BY <1>1, <1>2, FS_RemoveElement
<1> QED BY <1>1, <1>2, <1>3, FS_CardinalityType, FS_EmptySet

(***************************************************************************)
(* Induction over the size of the subsets of a finite set.                 *)
(***************************************************************************)
LEMMA SubsetInduction ==
    ASSUME NEW A, IsFiniteSet(A), NEW P, {} \in P,
           \A s \in SUBSET A : s # {} /\ s \ {Pick(s)} \in P => s \in P
    PROVE  SUBSET A \subseteq P
<1> DEFINE S == {n \in Nat : \A s \in SUBSET A : Cardinality(s) <= n => s \in P}
<1>1. \A s \in SUBSET A : IsFiniteSet(s) /\ Cardinality(s) \in Nat
  BY FS_Subset, FS_CardinalityType
<1>2. 0 \in S
  BY <1>1, FS_EmptySet
<1>3. ASSUME NEW n \in Nat, n \in S PROVE n + 1 \in S
  <2> SUFFICES ASSUME NEW s \in SUBSET A, Cardinality(s) <= n + 1, s # {} PROVE s \in P
    OBVIOUS
  <2>1. s \ {Pick(s)} \in SUBSET A /\ Cardinality(s \ {Pick(s)}) <= n
    BY <1>1, PickShrinks
  <2> QED BY <1>3, <2>1
<1>4. Nat \subseteq S
  <2> HIDE DEF S
  <2> QED BY <1>2, <1>3, SetInduction
<1> QED BY <1>1, <1>4

\* The recursion has a solution, reached by solving it for larger and larger subsets.
LEMMA SumExists ==
    ASSUME NEW A, IsFiniteSet(A), NEW f \in [A -> Nat]
    PROVE  \E g : IsSum(g, f)
<1> DEFINE Upto(g, n) == \A s \in SUBSET A : Cardinality(s) <= n => g[s] = SumStep(g, f, s)
           S == {n \in Nat : \E g \in [SUBSET A -> Nat] : Upto(g, n)}
<1>1. 0 \in S
  <2> DEFINE g == [s \in SUBSET A |-> 0]
  <2>1. \A s \in SUBSET A : Cardinality(s) <= 0 => s = {}
    BY FS_Subset, FS_CardinalityType, FS_EmptySet
  <2>2. g \in [SUBSET A -> Nat] /\ Upto(g, 0)
    BY <2>1 DEF SumStep
  <2> QED BY <2>2
<1>2. ASSUME NEW n \in Nat, n \in S PROVE n + 1 \in S
  <2>1. PICK g \in [SUBSET A -> Nat] : Upto(g, n)
    BY <1>2
  <2> DEFINE h == [s \in SUBSET A |-> SumStep(g, f, s)]
  <2>2. ASSUME NEW s \in SUBSET A PROVE SumStep(g, f, s) \in Nat
    <3>1. CASE s = {}
      BY <3>1 DEF SumStep
    <3>2. CASE s # {}
      <4>1. Pick(s) \in A /\ s \ {Pick(s)} \in SUBSET A
        BY <3>2, PickShrinks
      <4> QED BY <2>1, <3>2, <4>1 DEF SumStep
    <3> QED BY <3>1, <3>2
  <2>3. ASSUME NEW s \in SUBSET A, Cardinality(s) <= n + 1 PROVE h[s] = SumStep(h, f, s)
    <3>1. CASE s = {}
      BY <3>1 DEF SumStep
    <3>2. CASE s # {}
      <4>1. s \ {Pick(s)} \in SUBSET A /\ Cardinality(s \ {Pick(s)}) <= n
        BY <2>3, <3>2, PickShrinks
      <4>2. h[s \ {Pick(s)}] = g[s \ {Pick(s)}]
        BY <2>1, <4>1
      <4> QED BY <3>2, <4>2 DEF SumStep
    <3> QED BY <3>1, <3>2
  <2>4. h \in [SUBSET A -> Nat]
    BY <2>2
  <2> HIDE DEF h
  <2> QED BY <2>3, <2>4
<1>3. Nat \subseteq S
  <2> HIDE DEF S
  <2> QED BY <1>1, <1>2, SetInduction
<1>4. Cardinality(A) \in Nat /\ \A s \in SUBSET A : Cardinality(s) <= Cardinality(A)
  BY FS_CardinalityType, FS_Subset
<1>5. PICK g \in [SUBSET A -> Nat] : Upto(g, Cardinality(A))
  BY <1>3, <1>4
<1>6. g = [s \in SUBSET A |-> SumStep(g, f, s)]
  BY <1>4, <1>5, Zenon
<1> QED BY <1>6 DEF IsSum

Unfolds(g, f, A) ==
    /\ g[{}] = 0
    /\ \A s \in SUBSET A : s # {} => g[s] = f[Pick(s)] + g[s \ {Pick(s)}]

\* The sum of f, unfolded over the subsets of its domain.
LEMMA SumUnfolds ==
    ASSUME NEW A, IsFiniteSet(A), NEW f \in [A -> Nat]
    PROVE  \E g \in [SUBSET A -> Nat] : SumFunction(f) = g[A] /\ Unfolds(g, f, A)
<1> DEFINE g == CHOOSE h : IsSum(h, f)
<1>1. SumFunction(f) = g[DOMAIN f]
  BY Zenon DEF SumFunction, SumFunctionOnSet, FoldFunctionOnSet, MapThenFoldSet, IsSum, SumStep, Pick
<1>2. IsSum(g, f)
  BY SumExists, Zenon
<1>3. g = [s \in SUBSET A |-> SumStep(g, f, s)]
  BY <1>2 DEF IsSum
<1> HIDE DEF g
<1>4. \A s \in SUBSET A : g[s] = SumStep(g, f, s)
  BY <1>3, Zenon
<1>5. g[{}] = 0
  <2>1. {} \in SUBSET A
    OBVIOUS
  <2> QED BY <1>4, <2>1, Zenon DEF SumStep
<1>6. \A s \in SUBSET A : s # {} => g[s] = f[Pick(s)] + g[s \ {Pick(s)}]
  BY <1>4, Zenon DEF SumStep
<1> DEFINE P == {s \in SUBSET A : g[s] \in Nat}
<1>7. {} \in P
  BY <1>5
<1>8. ASSUME NEW s \in SUBSET A, s # {}, s \ {Pick(s)} \in P PROVE s \in P
  <2>1. Pick(s) \in A
    BY <1>8, PickShrinks
  <2>2. g[s] = f[Pick(s)] + g[s \ {Pick(s)}]
    BY <1>6, <1>8
  <2> QED BY <1>8, <2>1, <2>2
<1>9. SUBSET A \subseteq P
  <2> HIDE DEF P
  <2> QED BY <1>7, <1>8, SubsetInduction
<1>10. g \in [SUBSET A -> Nat]
  <2>1. \A s \in SUBSET A : SumStep(g, f, s) \in Nat
    BY <1>4, <1>9
  <2> QED BY <1>3, <2>1, Zenon
<1> QED BY <1>1, <1>5, <1>6, <1>10 DEF Unfolds

\* The sum is a natural number.
LEMMA SumNat ==
    ASSUME NEW A, IsFiniteSet(A), NEW f \in [A -> Nat]
    PROVE  SumFunction(f) \in Nat
<1>1. PICK g \in [SUBSET A -> Nat] : SumFunction(f) = g[A]
  BY SumUnfolds
<1> QED BY <1>1

\* Nothing adds up to nothing.
LEMMA SumZero ==
    ASSUME NEW A, IsFiniteSet(A)
    PROVE  SumFunction([a \in A |-> 0]) = 0
<1> DEFINE f == [a \in A |-> 0]
<1>1. f \in [A -> Nat] /\ \A a \in A : f[a] = 0
  OBVIOUS
<1> HIDE DEF f
<1>2. PICK g \in [SUBSET A -> Nat] : SumFunction(f) = g[A] /\ Unfolds(g, f, A)
  BY <1>1, SumUnfolds, Zenon
<1> DEFINE P == {s \in SUBSET A : g[s] = 0}
<1>3. {} \in P
  BY <1>2 DEF Unfolds
<1>4. ASSUME NEW s \in SUBSET A, s # {}, s \ {Pick(s)} \in P PROVE s \in P
  <2>1. Pick(s) \in A
    BY <1>4, PickShrinks
  <2>2. g[s] = f[Pick(s)] + g[s \ {Pick(s)}]
    BY <1>2, <1>4 DEF Unfolds
  <2> QED BY <1>1, <1>4, <2>1, <2>2
<1>5. SUBSET A \subseteq P
  <2> HIDE DEF P
  <2> QED BY <1>3, <1>4, SubsetInduction
<1> QED BY <1>2, <1>5 DEF f

\* Changing one entry changes the sum by as much.
LEMMA SumUpdate ==
    ASSUME NEW A, IsFiniteSet(A), NEW f \in [A -> Nat], NEW a \in A, NEW v \in Nat
    PROVE  SumFunction([f EXCEPT ![a] = v]) = SumFunction(f) + v - f[a]
<1> DEFINE e == [f EXCEPT ![a] = v]
<1>1. e \in [A -> Nat] /\ e[a] = v /\ \A b \in A : b # a => e[b] = f[b]
  OBVIOUS
<1> HIDE DEF e
<1>2. PICK g \in [SUBSET A -> Nat] : SumFunction(f) = g[A] /\ Unfolds(g, f, A)
  BY SumUnfolds, Zenon
<1>3. PICK h \in [SUBSET A -> Nat] : SumFunction(e) = h[A] /\ Unfolds(h, e, A)
  BY <1>1, SumUnfolds, Zenon
<1> DEFINE P == {s \in SUBSET A : h[s] = g[s] + (IF a \in s THEN v - f[a] ELSE 0)}
<1>4. {} \in P
  BY <1>2, <1>3 DEF Unfolds
<1>5. ASSUME NEW s \in SUBSET A, s # {}, s \ {Pick(s)} \in P PROVE s \in P
  <2> DEFINE x == Pick(s)
             t == s \ {x}
  <2>1. x \in s /\ x \in A /\ t \in SUBSET A
    BY <1>5, PickShrinks
  <2>2. g[s] = f[x] + g[t] /\ h[s] = e[x] + h[t]
    BY <1>2, <1>3, <1>5 DEF Unfolds
  <2>3. h[t] = g[t] + (IF a \in t THEN v - f[a] ELSE 0)
    BY <1>5
  <2>4. g[t] \in Nat /\ h[t] \in Nat /\ f[a] \in Nat /\ f[x] \in Nat
    BY <2>1
  <2> HIDE DEF x
  <2>5. CASE x = a
    BY <1>1, <2>1, <2>2, <2>3, <2>4, <2>5
  <2>6. CASE x # a
    BY <1>1, <2>1, <2>2, <2>3, <2>4, <2>6
  <2> QED BY <2>5, <2>6
<1>6. SUBSET A \subseteq P
  <2> HIDE DEF P
  <2> QED BY <1>4, <1>5, SubsetInduction
<1>7. h[A] = g[A] + v - f[a]
  <2>1. h[A] = g[A] + (v - f[a])
    BY <1>6
  <2>2. g[A] \in Nat /\ f[a] \in Nat
    OBVIOUS
  <2> QED BY <2>1, <2>2
<1> QED BY <1>2, <1>3, <1>7 DEF e

\* No entry exceeds the sum.
LEMMA EntryWithinSum ==
    ASSUME NEW A, IsFiniteSet(A), NEW f \in [A -> Nat], NEW a \in A
    PROVE  f[a] <= SumFunction(f)
<1> DEFINE e == [f EXCEPT ![a] = 0]
<1>1. e \in [A -> Nat]
  OBVIOUS
<1>2. SumFunction(e) = SumFunction(f) + 0 - f[a]
  BY SumUpdate
<1> HIDE DEF e
<1>3. SumFunction(e) \in Nat /\ SumFunction(f) \in Nat /\ f[a] \in Nat
  BY <1>1, SumNat
<1> QED BY <1>2, <1>3

=============================================================================
