--------------------------- MODULE SdkShapeProofs ---------------------------
(***************************************************************************)
(* Powers of two and division, the functions of util/math.h, and           *)
(* GetSubmatrixShape, for every ring degree.                               *)
(*                                                                         *)
(* What is true of all natural numbers is proved from the least one of     *)
(* which it is not (LeastNatural); what is true of 2^n, from its being the *)
(* number of subsets of 1..n.                                              *)
(***************************************************************************)
EXTENDS SdkShape, FiniteSetTheorems, TLAPS

(* A set of natural numbers has a least element.                           *)
LEMMA LeastNatural ==
  ASSUME NEW T \in SUBSET Nat, T # {}
  PROVE  \E m \in T : \A n \in T : m <= n
  <1> DEFINE R == OpToRel(<, Nat)
  <1>1. IsWellFoundedOn(R, Nat)
    BY NatLessThanWellFounded
  <1> HIDE DEF R
  <1>2. PICK m \in T : \A n \in T : ~(<<n, m>> \in R)
    BY <1>1, WFMin
  <1>3. \A n \in T : ~(n < m)
    BY <1>2 DEF R, OpToRel
  <1> QED BY <1>3

-----------------------------------------------------------------------------
(* 2^n is the number of subsets of 1..n.                                   *)
LEMMA PowerCounts ==
  ASSUME NEW n \in Nat
  PROVE  IsFiniteSet(SUBSET (1..n)) /\ Cardinality(SUBSET (1..n)) = 2^n
  <1>1. IsFiniteSet(1..n) /\ Cardinality(1..n) = n
    BY FS_Interval
  <1> QED BY <1>1, FS_SUBSET

(* A power of two is a positive number.                                    *)
LEMMA NatPower ==
  ASSUME NEW n \in Nat PROVE 2^n \in Nat /\ 2^n >= 1
  <1>1. IsFiniteSet(SUBSET (1..n)) /\ Cardinality(SUBSET (1..n)) = 2^n
    BY PowerCounts
  <1>2. Cardinality(SUBSET (1..n)) # 0
    BY <1>1, FS_EmptySet
  <1> QED BY <1>1, <1>2, FS_CardinalityType

(* The zeroth power.                                                       *)
LEMMA PowerZero == ASSUME NEW n, n = 0 PROVE 2^n = 1
  <1>1. 2^0 = 1
    OBVIOUS
  <1> QED BY <1>1, Zenon

(* The subsets of 1..(n+1) are those without n+1, and as many with it.     *)
LEMMA NextPower ==
  ASSUME NEW n \in Nat PROVE 2^(n + 1) = 2 * 2^n
  <1> DEFINE A == SUBSET (1..n)
             B == {a \cup {n + 1} : a \in A}
  <1>1. 1..n \subseteq 1..(n + 1) /\ n + 1 \in 1..(n + 1) /\ n + 1 \notin 1..n
    OBVIOUS
  <1>2. IsFiniteSet(A) /\ Cardinality(A) = 2^n
    BY PowerCounts
  <1>3. Cardinality(SUBSET (1..(n + 1))) = 2^(n + 1)
    BY PowerCounts
  <1>4. SUBSET (1..(n + 1)) = A \cup B
    <2>1. ASSUME NEW s \in SUBSET (1..(n + 1)) PROVE s \in A \cup B
      <3>1. CASE n + 1 \in s
        <4>1. s \ {n + 1} \in A
          OBVIOUS
        <4>2. s = (s \ {n + 1}) \cup {n + 1}
          BY <3>1
        <4> QED BY <4>1, <4>2
      <3>2. CASE n + 1 \notin s
        BY <3>2
      <3> QED BY <3>1, <3>2
    <2>2. A \subseteq SUBSET (1..(n + 1))
      BY <1>1, Zenon
    <2>3. ASSUME NEW a \in A PROVE a \cup {n + 1} \in SUBSET (1..(n + 1))
      BY <1>1, Zenon
    <2>4. \A b \in B : b \in SUBSET (1..(n + 1))
      BY <2>3
    <2> HIDE DEF A, B
    <2> QED BY <2>1, <2>2, <2>4
  <1>5. A \cap B = {}
    OBVIOUS
  <1>6. IsFiniteSet(B) /\ Cardinality(B) = 2^n
    <2> DEFINE f == [a \in A |-> a \cup {n + 1}]
    <2>1. \A a, b \in A : f[a] = f[b] => a = b
      <3> SUFFICES ASSUME NEW a \in A, NEW b \in A,
                          a \cup {n + 1} = b \cup {n + 1}
                   PROVE  a = b
        OBVIOUS
      <3>1. n + 1 \notin a /\ n + 1 \notin b
        BY <1>1
      <3> QED BY <3>1
    <2>2. f \in [A -> B] /\ \A b \in B : \E a \in A : f[a] = b
      OBVIOUS
    <2> HIDE DEF f, A, B
    <2>3. f \in Bijection(A, B)
      BY <2>1, <2>2 DEF Bijection, Injection, Surjection, IsInjective
    <2> QED BY <2>3, <1>2, FS_Bijection DEF ExistsBijection
  <1> HIDE DEF A, B
  <1>7. Cardinality(A \cup B) = 2^n + 2^n - Cardinality({})
    BY <1>2, <1>5, <1>6, FS_Union
  <1>8. 2^(n + 1) = 2^n + 2^n - 0
    BY <1>3, <1>4, <1>7, FS_EmptySet
  <1> QED BY <1>8, NatPower

(* A larger exponent, a larger power.                                      *)
LEMMA PowersGrow ==
  ASSUME NEW m \in Nat, NEW n \in Nat, m <= n PROVE 2^m <= 2^n
  <1> DEFINE T == {k \in Nat : m <= k /\ ~(2^m <= 2^k)}
  <1> SUFFICES ASSUME T # {} PROVE FALSE
    OBVIOUS
  <1>1. PICK k \in T : \A j \in T : k <= j
    BY LeastNatural
  <1>2. k # m
    BY <1>1, NatPower
  <1>3. k - 1 \in Nat /\ m <= k - 1 /\ 2^((k - 1) + 1) = 2 * 2^(k - 1)
    BY <1>1, <1>2, NextPower
  <1>4. k - 1 \notin T
    BY <1>1, <1>3
  <1>5. 2^m <= 2^(k - 1) /\ 2^k = 2 * 2^(k - 1)
    BY <1>3, <1>4
  <1>6. 2^(k - 1) \in Nat /\ 2^m \in Nat /\ 2^k \in Nat
    BY <1>3, NatPower
  <1> QED BY <1>1, <1>5, <1>6

(* ... so that the smaller power has the smaller exponent.                 *)
LEMMA PowersOrdered ==
  ASSUME NEW m \in Nat, NEW n \in Nat, 2^m < 2^(n + 1) PROVE m <= n
  <1>1. CASE n + 1 <= m
    <2>1. 2^(n + 1) <= 2^m
      BY <1>1, PowersGrow
    <2> QED BY <2>1, NatPower
  <1> QED BY <1>1

(* Powers multiply by adding their exponents.                              *)
LEMMA PowersMultiply ==
  ASSUME NEW m \in Nat, NEW n \in Nat PROVE 2^(m + n) = 2^m * 2^n
  <1> DEFINE T == {k \in Nat : 2^(m + k) # 2^m * 2^k}
  <1> SUFFICES ASSUME T # {} PROVE FALSE
    OBVIOUS
  <1>1. PICK k \in T : \A j \in T : k <= j
    BY LeastNatural
  <1>2. k # 0
    <2>1. 2^0 = 1 /\ m + 0 = m
      OBVIOUS
    <2>2. 2^(m + 0) = 2^m * 2^0
      BY <2>1, NatPower
    <2> QED BY <1>1, <2>2
  <1>3. k - 1 \in Nat /\ k - 1 \notin T
    BY <1>1, <1>2
  <1>4. 2^(m + (k - 1)) = 2^m * 2^(k - 1)
    BY <1>3
  <1>5. 2^((k - 1) + 1) = 2 * 2^(k - 1)
    BY <1>3, NextPower
  <1>6. 2^((m + (k - 1)) + 1) = 2 * 2^(m + (k - 1))
    BY <1>3, NextPower
  <1>7. (k - 1) + 1 = k /\ (m + (k - 1)) + 1 = m + k
    BY <1>1
  <1>8. 2^k = 2 * 2^(k - 1) /\ 2^(m + k) = 2 * (2^m * 2^(k - 1))
    BY <1>4, <1>5, <1>6, <1>7
  <1>9. 2^(k - 1) \in Nat /\ 2^m \in Nat
    BY <1>3, NatPower
  <1> QED BY <1>1, <1>8, <1>9

(* 2^n is larger than n.                                                   *)
LEMMA PowerLarge ==
  ASSUME NEW n \in Nat PROVE n < 2^n
  <1> DEFINE T == {k \in Nat : ~(k < 2^k)}
  <1> SUFFICES ASSUME T # {} PROVE FALSE
    OBVIOUS
  <1>1. PICK k \in T : \A j \in T : k <= j
    BY LeastNatural
  <1>2. k # 0
    <2>1. 0 < 2^0
      OBVIOUS
    <2> QED BY <1>1, <2>1
  <1>3. k - 1 \in Nat /\ k - 1 \notin T
    BY <1>1, <1>2
  <1>4. k - 1 < 2^(k - 1) /\ 2^((k - 1) + 1) = 2 * 2^(k - 1) /\ 2^(k - 1) \in Nat
    BY <1>3, NextPower, NatPower
  <1>5. k < 2^k
    <2>1. (k - 1) + 1 = k
      BY <1>1
    <2>2. 2^k = 2 * 2^(k - 1)
      BY <1>4, <2>1
    <2> QED BY <1>3, <1>4, <2>2
  <1> QED BY <1>1, <1>5

(* Twice the power before.                                                 *)
LEMMA PowerBefore == ASSUME NEW m \in Nat, m >= 1 PROVE 2^m = 2 * 2^(m - 1)
  <1>1. m - 1 \in Nat /\ (m - 1) + 1 = m
    OBVIOUS
  <1>2. 2^((m - 1) + 1) = 2 * 2^(m - 1)
    BY <1>1, NextPower
  <1> QED BY <1>1, <1>2, Zenon

(* The quotient of two powers of two.                                      *)
LEMMA PowersDivide ==
  ASSUME NEW m \in Nat, NEW n \in Nat, m <= n
  PROVE  2^n = 2^(n - m) * 2^m /\ 2^n \div 2^m = 2^(n - m)
  <1>1. n - m \in Nat /\ (n - m) + m = n
    OBVIOUS
  <1>2. 2^n = 2^(n - m) * 2^m
    BY <1>1, PowersMultiply
  <1>3. 2^m \in Nat /\ 2^m >= 1 /\ 2^(n - m) \in Nat
    BY <1>1, NatPower
  <1>4. \A x, y \in Nat : y >= 1 => (x * y) \div y = x
    OBVIOUS
  <1> QED BY <1>2, <1>3, <1>4

-----------------------------------------------------------------------------
(* Quotient and remainder.                                                 *)
LEMMA DivMod ==
  ASSUME NEW x \in Nat, NEW d \in Nat, d >= 1
  PROVE  /\ x \div d \in Nat /\ x % d \in 0..(d - 1)
         /\ x = (x \div d) * d + (x % d)
  OBVIOUS

(* Quotient and remainder are unique.                                      *)
LEMMA DivModIs ==
  ASSUME NEW w \in Nat, NEW d \in Nat, NEW r \in 0..(d - 1)
  PROVE  (w * d + r) \div d = w /\ (w * d + r) % d = r
  OBVIOUS

-----------------------------------------------------------------------------
(* Log2 is the logarithm, rounded down.                                    *)
LEMMA Log2Of ==
  ASSUME NEW x \in Nat, x >= 1
  PROVE  Log2(x) \in Nat /\ 2^Log2(x) <= x /\ x < 2^(Log2(x) + 1)
  <1> DEFINE T == {k \in Nat : x < 2^k}
  <1>1. x \in T
    BY PowerLarge
  <1>2. PICK m \in T : \A j \in T : m <= j
    BY <1>1, LeastNatural
  <1>3. m # 0
    <2>1. ~(x < 2^0)
      OBVIOUS
    <2> QED BY <1>2, <2>1
  <1>4. m - 1 \in Nat /\ m - 1 \notin T /\ m - 1 \in 0..x
    BY <1>1, <1>2, <1>3
  <1>5. 2^(m - 1) <= x /\ x < 2^((m - 1) + 1)
    <2>1. (m - 1) + 1 = m
      BY <1>2
    <2>2. x < 2^((m - 1) + 1)
      BY <2>1, <1>2
    <2>3. 2^(m - 1) \in Nat
      BY <1>4, NatPower
    <2> QED BY <1>4, <2>2, <2>3
  <1>6. \E k \in 0..x : 2^k <= x /\ x < 2^(k + 1)
    BY <1>4, <1>5
  <1>7. Log2(x) \in 0..x /\ 2^Log2(x) <= x /\ x < 2^(Log2(x) + 1)
    BY <1>6 DEF Log2
  <1> QED BY <1>7

(* It is the only number that brackets its argument so.                    *)
LEMMA Log2Is ==
  ASSUME NEW x \in Nat, NEW k \in Nat, 2^k <= x, x < 2^(k + 1)
  PROVE  Log2(x) = k
  <1>1. x >= 1 /\ 2^k \in Nat /\ 2^(k + 1) \in Nat
    BY NatPower
  <1>2. Log2(x) \in Nat /\ 2^Log2(x) <= x /\ x < 2^(Log2(x) + 1)
    BY <1>1, Log2Of
  <1> HIDE DEF Log2
  <1>3. 2^Log2(x) \in Nat /\ 2^(Log2(x) + 1) \in Nat
    BY <1>2, NatPower
  <1>4. 2^Log2(x) < 2^(k + 1) /\ 2^k < 2^(Log2(x) + 1)
    BY <1>1, <1>2, <1>3
  <1>5. Log2(x) <= k /\ k <= Log2(x)
    BY <1>2, <1>4, PowersOrdered
  <1> QED BY <1>2, <1>5

(* The logarithm of a power of two is its exponent.                        *)
LEMMA Log2OfPower == ASSUME NEW k \in Nat PROVE Log2(2^k) = k
  <1>1. 2^k \in Nat /\ 2^k >= 1 /\ 2^(k + 1) = 2 * 2^k
    BY NatPower, NextPower
  <1>2. 2^k <= 2^k /\ 2^k < 2^(k + 1)
    BY <1>1
  <1> QED BY <1>1, <1>2, Log2Is

(* Powers of two are what IsTwoPower takes for it.                         *)
LEMMA PowerIsTwoPower == ASSUME NEW k \in Nat PROVE IsTwoPower(2^k)
  BY PowerLarge, NatPower DEF IsTwoPower

(* NextPow2 leaves a power of two alone, and ...                           *)
LEMMA NextPow2OfPower == ASSUME NEW k \in Nat PROVE NextPow2(2^k) = 2^k
  BY PowerIsTwoPower DEF NextPow2

(* ... gives the first power that is not smaller than its argument.        *)
LEMMA NextPow2Of ==
  ASSUME NEW a \in Nat, a >= 1
  PROVE  \E k \in Nat : NextPow2(a) = 2^k /\ a <= 2^k /\ 2^k < 2 * a
  <1>1. CASE a = 1
    <2>1. NextPow2(1) = 2^0
      BY DEF NextPow2
    <2>2. 1 <= 2^0 /\ 2^0 < 2 * 1
      OBVIOUS
    <2> QED BY <1>1, <2>1, <2>2
  <1>2. CASE a = 2
    <2>1. NextPow2(2) = 2^1
      BY DEF NextPow2
    <2>2. 2 <= 2^1 /\ 2^1 < 2 * 2
      OBVIOUS
    <2> QED BY <1>2, <2>1, <2>2
  <1>3. CASE IsTwoPower(a)
    <2>1. PICK k \in 0..a : a = 2^k
      BY <1>3 DEF IsTwoPower
    <2>2. k \in Nat /\ NextPow2(a) = 2^k
      BY <1>3, <2>1 DEF NextPow2
    <2> QED BY <2>1, <2>2
  <1>4. CASE a > 2 /\ ~IsTwoPower(a)
    <2>1. NextPow2(a) = 2^(Log2(a) + 1)
      BY <1>4 DEF NextPow2
    <2>2. Log2(a) \in Nat /\ 2^Log2(a) <= a /\ a < 2^(Log2(a) + 1)
      BY Log2Of
    <2> HIDE DEF Log2
    <2> DEFINE l == Log2(a)
    <2>3. 2^l \in Nat /\ 2^(l + 1) = 2 * 2^l
      BY <2>2, NatPower, NextPower
    <2>4. 2^l # a
      <3>1. l \in 0..2^l
        BY <2>2, <2>3, PowerLarge
      <3> QED BY <1>4, <3>1 DEF IsTwoPower
    <2>5. a <= 2^(l + 1) /\ 2^(l + 1) < 2 * a /\ l + 1 \in Nat
      BY <2>2, <2>3, <2>4
    <2> QED BY <2>1, <2>5
  <1> QED BY <1>1, <1>2, <1>3, <1>4

-----------------------------------------------------------------------------
(* A shape that the public calls accept, with ring degree N.               *)
Degree(N)       == \E k \in 2..12 : N = 2^k
GoodShape(s, N) == s \in [nrows : 1..N, ncols : 1..(4 * N)]

(* GetSubmatrixShape in exponents of two: N is 2^K, the rows rounded up    *)
(* are 2^a, and a polynomial takes 2^h rows of N / 2^h columns.  Several   *)
(* rows share a polynomial only if the whole of a row fits in its part.    *)
Exponents(s, N, K, a, h) ==
  /\ K \in 2..12 /\ a \in 0..K /\ h \in 0..K
  /\ N = 2^K
  /\ NextPow2(s.nrows) = 2^a /\ s.nrows <= 2^a /\ 2^a < 2 * s.nrows
  /\ GetSubmatrixShape(s, N) = [rows |-> 2^h, cols |-> 2^(K - h)]
  /\ h = 0 \/ (s.ncols < 2^(K - h) /\ h + 1 <= a)

(* Every good shape has such exponents.                                    *)
LEMMA ShapeExponents ==
  ASSUME NEW N, Degree(N), NEW s, GoodShape(s, N)
  PROVE  \E K, a, h : Exponents(s, N, K, a, h)
  <1>1. PICK K \in 2..12 : N = 2^K
    BY DEF Degree
  <1>2. s.nrows \in Nat /\ s.nrows >= 1 /\ s.nrows <= N
        /\ s.ncols \in Nat /\ s.ncols >= 1
    BY DEF GoodShape
  <1>3. N \in Nat /\ N >= 1 /\ 2^(K + 1) = 2 * N
    BY <1>1, NatPower, NextPower
  <1>4. PICK a \in Nat : NextPow2(s.nrows) = 2^a /\ s.nrows <= 2^a
                         /\ 2^a < 2 * s.nrows
    BY <1>2, NextPow2Of
  <1>5. a <= K
    <2>1. 2^a < 2^(K + 1)
      BY <1>2, <1>3, <1>4, NatPower
    <2> QED BY <1>1, <2>1, PowersOrdered
  <1> DEFINE c   == Least(N, s.ncols)
             d   == N \div c
             b   == Log2(d)
             fit == Least(2^a, 2^b)
             half == Greatest(1, fit \div 2)
  <1>6. c \in Nat /\ c >= 1 /\ c <= N /\ c <= s.ncols /\ (c < N => c = s.ncols)
    BY <1>2, <1>3 DEF Least
  <1> HIDE DEF c
  <1>7. d \in Nat /\ d >= 1 /\ d * c <= N /\ d <= N
    BY <1>3, <1>6
  <1> HIDE DEF d
  <1>8. b \in Nat /\ 2^b <= d
    BY <1>7, Log2Of
  <1> HIDE DEF b
  <1>9. PICK m \in Nat : fit = 2^m /\ m <= a /\ m <= b
    <2>1. 2^a \in Nat /\ 2^b \in Nat
      BY <1>8, NatPower
    <2>2. CASE a <= b
      BY <1>8, <2>1, <2>2, PowersGrow DEF Least
    <2>3. CASE b <= a
      BY <1>8, <2>1, <2>3, PowersGrow DEF Least
    <2> QED BY <1>8, <2>2, <2>3
  <1>10. fit \in Nat /\ fit <= 2^b /\ fit <= d
    BY <1>8, <1>9, <1>7, NatPower, PowersGrow
  <1> HIDE DEF fit
  <1>11. fit * c <= N
    <2>1. fit * c <= d * c
      BY <1>6, <1>7, <1>10
    <2> QED BY <1>3, <1>6, <1>7, <1>10, <2>1
  <1>12. PICK h \in Nat : half = 2^h /\ (h = 0 \/ h + 1 = m)
    <2>1. CASE m = 0
      <3>1. 2^0 = 1
        OBVIOUS
      <3>2. fit \div 2 = 0
        BY <1>9, <2>1, <3>1
      <3>3. half = 2^0
        BY <3>1, <3>2 DEF Greatest
      <3> QED BY <3>3
    <2>2. CASE m # 0
      <3>1. m - 1 \in Nat /\ (m - 1) + 1 = m
        BY <2>2
      <3>2. 2^(m - 1) \in Nat /\ 2^(m - 1) >= 1 /\ fit = 2 * 2^(m - 1)
        BY <1>9, <3>1, NatPower, NextPower
      <3>3. fit \div 2 = 2^(m - 1)
        BY <3>2
      <3>4. half = 2^(m - 1)
        BY <3>2, <3>3 DEF Greatest
      <3> QED BY <3>1, <3>4
    <2> QED BY <2>1, <2>2
  <1> HIDE DEF half
  <1>13. h <= K
    <2>1. h <= a
      BY <1>9, <1>12
    <2> QED BY <1>1, <1>5, <2>1
  <1>14. N \div NextPow2(half) = 2^(K - h)
    BY <1>1, <1>12, <1>13, NextPow2OfPower, PowersDivide
  <1>15. GetSubmatrixShape(s, N) = [rows |-> 2^h, cols |-> 2^(K - h)]
    <2>1. GetSubmatrixShape(s, N) =
            IF fit * c <= N
            THEN [rows |-> half, cols |-> N \div NextPow2(half)]
            ELSE [rows |-> fit, cols |-> c]
      BY <1>4 DEF GetSubmatrixShape, fit, half, b, c, d
    <2> QED BY <1>11, <1>12, <1>14, <2>1
  <1>16. h = 0 \/ (s.ncols < 2^(K - h) /\ h + 1 <= a)
    <2> SUFFICES ASSUME h # 0 PROVE s.ncols < 2^(K - h) /\ h + 1 <= a
      OBVIOUS
    <2>1. h + 1 = m /\ h + 1 <= a
      BY <1>9, <1>12
    <2>2. 2^h \in Nat /\ 2^h >= 1 /\ fit = 2 * 2^h
      BY <1>9, <2>1, NatPower, NextPower
    <2>3. (2 * 2^h) * c <= N /\ N = 2^(K - h) * 2^h
      BY <1>1, <1>11, <1>13, <2>2, PowersDivide
    <2>4. K - h \in Nat /\ 2^(K - h) \in Nat /\ 2^(K - h) >= 1
      BY <1>1, <1>13, NatPower
    <2>5. \A p, x, y \in Nat : p >= 1 /\ (2 * p) * x <= y * p => 2 * x <= y
      <3> SUFFICES ASSUME NEW p \in Nat, NEW x \in Nat, NEW y \in Nat, p >= 1,
                          (2 * p) * x <= y * p, 2 * x > y
                   PROVE  FALSE
        OBVIOUS
      <3>1. (2 * x) * p >= (y + 1) * p
        OBVIOUS
      <3> QED BY <3>1
    <2>6. 2 * c <= 2^(K - h)
      BY <1>6, <2>2, <2>3, <2>4, <2>5
    <2>7. 2^(K - h) <= N
      BY <1>1, <2>4, PowersGrow
    <2>8. c < N /\ c < 2^(K - h)
      BY <1>3, <1>6, <2>4, <2>6, <2>7
    <2> QED BY <1>6, <2>1, <2>8
  <1>17. a \in 0..K /\ h \in 0..K
    BY <1>5, <1>13
  <1>18. Exponents(s, N, K, a, h)
    BY <1>1, <1>4, <1>15, <1>16, <1>17 DEF Exponents
  <1> QED BY <1>18

(* EncryptVector makes one to four ciphertexts of a vector, as many as the *)
(* tuple of the python wrapper and the card's registers have room for; and *)
(* the part of the matrix that goes with one fills a polynomial exactly.   *)
THEOREM SubmatrixFillsPolynomial ==
  ASSUME NEW N, Degree(N), NEW s, GoodShape(s, N)
  PROVE  LET sub == GetSubmatrixShape(s, N)
         IN /\ sub.rows \in Nat /\ sub.cols \in Nat /\ sub.rows * sub.cols = N
            /\ CeilDiv(s.ncols, sub.cols) \in 1..4
            /\ sub.rows > 1 => CeilDiv(s.ncols, sub.cols) = 1
  <1>1. PICK K, a, h : Exponents(s, N, K, a, h)
    BY ShapeExponents
  <1> DEFINE C == 2^(K - h)
             R == 2^h
  <1>2. K \in Nat /\ h \in Nat /\ K - h \in Nat
    BY <1>1 DEF Exponents
  <1>3. N = C * R /\ C \in Nat /\ C >= 1 /\ R \in Nat /\ R >= 1
    BY <1>1, <1>2, PowersDivide, NatPower DEF Exponents
  <1>4. s.ncols \in Nat /\ s.ncols >= 1 /\ s.ncols <= 4 * N
    BY DEF GoodShape
  <1>5. GetSubmatrixShape(s, N).rows = R /\ GetSubmatrixShape(s, N).cols = C
    BY <1>1 DEF Exponents
  <1>6. h = 0 => R = 1
    OBVIOUS
  <1>7. h = 0 \/ s.ncols < C
    BY <1>1 DEF Exponents
  <1> HIDE DEF C, R
  <1>8. CASE s.ncols < C
    <2>1. (s.ncols + C - 1) \div C = 1
      BY <1>3, <1>4, <1>8
    <2> QED BY <1>3, <1>5, <2>1 DEF CeilDiv
  <1>9. CASE h = 0
    <2>1. R = 1 /\ N = C
      BY <1>3, <1>6, <1>9
    <2>2. (s.ncols + C - 1) \div C \in 1..4
      BY <1>3, <1>4, <2>1
    <2> QED BY <1>3, <1>5, <2>1, <2>2 DEF CeilDiv
  <1> QED BY <1>7, <1>8, <1>9

-----------------------------------------------------------------------------
(* Bit reversal *)

Bit(j, k) == (j \div 2^k) % 2

(* Bit b, set or not, is none of the bits below.                           *)
LEMMA BitBelow ==
  ASSUME NEW x \in Nat, NEW b \in Nat, NEW k \in Nat, k < b,
         NEW z \in Nat, z = x \/ z = x + 2^b
  PROVE  Bit(z, k) = Bit(x, k)
  <1>1. b - k \in Nat /\ (b - k) - 1 \in Nat /\ ((b - k) - 1) + 1 = b - k
    OBVIOUS
  <1> DEFINE P == 2^k
             H == 2^((b - k) - 1)
  <1>2. 2^b = 2^(b - k) * P /\ 2^(b - k) = 2 * H
    BY <1>1, PowersDivide, NextPower
  <1>3. P \in Nat /\ P >= 1 /\ H \in Nat
    BY <1>1, NatPower
  <1>4. z = x \/ z = x + (2 * H) * P
    BY <1>2
  <1> HIDE DEF P, H
  <1>5. (x + (2 * H) * P) \div P = x \div P + 2 * H
    <2> DEFINE M == 2 * H
    <2>1. M \in Nat
      BY <1>3
    <2> HIDE DEF M
    <2>2. (x + M * P) \div P = x \div P + M
      BY <1>3, <2>1
    <2> QED BY <2>2 DEF M
  <1>6. x \div P \in Nat
    BY <1>3
  <1>7. (x \div P + 2 * H) % 2 = (x \div P) % 2
    BY <1>3, <1>6
  <1> QED BY <1>4, <1>5, <1>7 DEF Bit, P

(* There is a number below 2^b with any given bits ...                     *)
LEMMA BitsExist ==
  ASSUME NEW b \in Nat, NEW f \in [Nat -> 0..1]
  PROVE  \E j \in 0..(2^b - 1) : \A k \in 0..(b - 1) : Bit(j, k) = f[k]
  <1> DEFINE Q(n) == \E j \in 0..(2^n - 1) : \A k \in 0..(n - 1) : Bit(j, k) = f[k]
             T == {n \in Nat : ~Q(n)}
  <1> HIDE DEF Q
  <1> SUFFICES ASSUME T # {} PROVE FALSE
    BY DEF Q
  <1>1. PICK n \in T : \A m \in T : n <= m
    BY LeastNatural
  <1>2. n # 0
    <2>1. 0 \in 0..(2^0 - 1) /\ \A k \in 0..(0 - 1) : Bit(0, k) = f[k]
      OBVIOUS
    <2>2. Q(0)
      BY <2>1 DEF Q
    <2> QED BY <1>1, <2>2
  <1> DEFINE m == n - 1
  <1>3. m \in Nat /\ n = m + 1 /\ m \notin T
    BY <1>1, <1>2
  <1> HIDE DEF m
  <1>4. PICK j \in 0..(2^m - 1) : \A k \in 0..(m - 1) : Bit(j, k) = f[k]
    BY <1>3 DEF Q
  <1>5. 2^m \in Nat /\ 2^m >= 1 /\ 2^(m + 1) = 2 * 2^m
    BY <1>3, NatPower, NextPower
  <1> DEFINE i == j + f[m] * 2^m
  <1>6. f[m] \in 0..1 /\ j \in Nat /\ j < 2^m
    BY <1>3, <1>5
  <1>7. i \in 0..(2^(m + 1) - 1)
    BY <1>5, <1>6
  <1>8. \A k \in 0..(m - 1) : Bit(i, k) = f[k]
    <2> SUFFICES ASSUME NEW k \in 0..(m - 1) PROVE Bit(i, k) = f[k]
      OBVIOUS
    <2>1. k \in Nat /\ k < m /\ i \in Nat
      BY <1>3, <1>7
    <2>2. i = j \/ i = j + 2^m
      BY <1>5, <1>6
    <2> HIDE DEF i
    <2>3. Bit(i, k) = Bit(j, k)
      BY <1>3, <1>6, <2>1, <2>2, BitBelow
    <2> QED BY <1>4, <2>3
  <1>9. Bit(i, m) = f[m]
    <2>1. i \div 2^m = f[m]
      BY <1>5, <1>6
    <2> QED BY <1>6, <2>1 DEF Bit
  <1> HIDE DEF i
  <1>10. \A k \in 0..((m + 1) - 1) : Bit(i, k) = f[k]
    BY <1>3, <1>8, <1>9
  <1>11. Q(m + 1)
    BY <1>7, <1>10 DEF Q
  <1> QED BY <1>1, <1>3, <1>11

(* ... and only one.                                                       *)
LEMMA BitsDetermine ==
  ASSUME NEW b \in Nat, NEW x \in 0..(2^b - 1), NEW y \in 0..(2^b - 1),
         \A k \in 0..(b - 1) : Bit(x, k) = Bit(y, k)
  PROVE  x = y
  <1> DEFINE Q(n) == \A i, j \in 0..(2^n - 1) :
                       (\A k \in 0..(n - 1) : Bit(i, k) = Bit(j, k)) => i = j
             T == {n \in Nat : ~Q(n)}
  <1> HIDE DEF Q
  <1> SUFFICES ASSUME T # {} PROVE FALSE
    BY ZenonT(60) DEF Q
  <1>1. PICK n \in T : \A m \in T : n <= m
    BY LeastNatural
  <1>2. n # 0
    <2>1. \A i, j \in 0..(2^0 - 1) : i = j
      OBVIOUS
    <2>2. Q(0)
      BY <2>1 DEF Q
    <2> QED BY <1>1, <2>2
  <1> DEFINE m == n - 1
  <1>3. m \in Nat /\ n = m + 1 /\ m \notin T
    BY <1>1, <1>2
  <1> HIDE DEF m
  <1>4. Q(m)
    BY <1>3
  <1> DEFINE P == 2^m
  <1>5. P \in Nat /\ P >= 1 /\ 2^(m + 1) = 2 * P
    BY <1>3, NatPower, NextPower
  <1> HIDE DEF P
  <1>6. ASSUME NEW i \in 0..(2 * P - 1)
        PROVE  /\ i % P \in 0..(P - 1) /\ i \div P \in 0..1
               /\ i = (i % P) + (i \div P) * P
    <2>1. CASE i < P
      <3>1. i \div P = 0 /\ i % P = i
        BY <1>5, <2>1
      <3> QED BY <1>5, <2>1, <3>1
    <2>2. CASE i >= P
      <3>1. i \div P = 1 /\ i % P = i - P
        BY <1>5, <2>2
      <3> QED BY <1>5, <2>2, <3>1
    <2> QED BY <1>5, <2>1, <2>2
  <1>7. ASSUME NEW i \in 0..(2 * P - 1)
        PROVE  /\ Bit(i, m) = i \div P
               /\ \A k \in 0..(m - 1) : Bit(i, k) = Bit(i % P, k)
    <2>1. Bit(i, m) = i \div P
      BY <1>6 DEF Bit, P
    <2>2. ASSUME NEW k \in 0..(m - 1) PROVE Bit(i, k) = Bit(i % P, k)
      <3>1. i % P \in Nat /\ i \div P \in Nat /\ i = (i % P) + (i \div P) * P
        BY <1>5, <1>6
      <3>2. k \in Nat /\ k < m /\ i \in Nat
        BY <1>3, <1>5
      <3>3. i = i % P \/ i = (i % P) + P
        BY <1>5, <1>6
      <3> DEFINE lo == i % P
      <3> HIDE DEF lo
      <3>4. Bit(i, k) = Bit(lo, k)
        BY <1>3, <3>1, <3>2, <3>3, BitBelow DEF P, lo
      <3> QED BY <3>4 DEF lo
    <2> QED BY <2>1, <2>2
  <1>8. ASSUME NEW i \in 0..(2 * P - 1), NEW j \in 0..(2 * P - 1),
               \A k \in 0..m : Bit(i, k) = Bit(j, k)
        PROVE  i = j
    <2>1. i \div P = j \div P
      BY <1>3, <1>7, <1>8
    <2>2. \A k \in 0..(m - 1) : Bit(i % P, k) = Bit(j % P, k)
      BY <1>3, <1>7, <1>8
    <2>3. i % P = j % P
      BY <1>4, <1>6, <2>2 DEF Q, P
    <2> QED BY <1>6, <2>1, <2>3
  <1>9. Q(m + 1)
    <2>1. (m + 1) - 1 = m
      BY <1>3
    <2> QED BY <1>5, <1>8, <2>1 DEF Q
  <1> QED BY <1>1, <1>3, <1>9

(* reverse_bits gives the number below 2^b with the bits the other way.    *)
LEMMA ReversedBits ==
  ASSUME NEW b \in Nat, NEW x \in 0..(2^b - 1)
  PROVE  /\ reverse_bits(x, b) \in 0..(2^b - 1)
         /\ \A k \in 0..(b - 1) :
              Bit(reverse_bits(x, b), k) = Bit(x, b - 1 - k)
  <1>0. 2^b \in Nat
    BY NatPower
  <1> DEFINE f == [k \in Nat |-> IF k < b THEN Bit(x, b - 1 - k) ELSE 0]
  <1>1. f \in [Nat -> 0..1]
    <2>1. ASSUME NEW k \in Nat, k < b PROVE Bit(x, b - 1 - k) \in 0..1
      <3>1. 2^(b - 1 - k) \in Nat /\ 2^(b - 1 - k) >= 1
        BY <2>1, NatPower
      <3>2. x \div 2^(b - 1 - k) \in Nat
        BY <1>0, <3>1
      <3> QED BY <3>2 DEF Bit
    <2> QED BY <2>1
  <1>2. \A k \in 0..(b - 1) : f[k] = Bit(x, b - 1 - k)
    OBVIOUS
  <1> HIDE DEF f
  <1>3. \E j \in 0..(2^b - 1) : \A k \in 0..(b - 1) :
          Bit(j, k) = Bit(x, b - 1 - k)
    BY <1>1, <1>2, BitsExist
  <1> QED BY <1>3 DEF reverse_bits, Bit

(* It is a permutation of 0..(2^b - 1), and its own inverse.               *)
LEMMA ReverseBits ==
  ASSUME NEW b \in Nat, NEW i \in 0..(2^b - 1)
  PROVE  reverse_bits(i, b) \in 0..(2^b - 1)
         /\ reverse_bits(reverse_bits(i, b), b) = i
  <1> DEFINE r == reverse_bits(i, b)
             z == reverse_bits(r, b)
  <1>2. r \in 0..(2^b - 1) /\ \A k \in 0..(b - 1) : Bit(r, k) = Bit(i, b - 1 - k)
    BY ReversedBits
  <1> HIDE DEF r
  <1>3. z \in 0..(2^b - 1) /\ \A k \in 0..(b - 1) : Bit(z, k) = Bit(r, b - 1 - k)
    BY <1>2, ReversedBits
  <1> HIDE DEF z
  <1>4. \A k \in 0..(b - 1) : Bit(z, k) = Bit(i, k)
    <2> SUFFICES ASSUME NEW k \in 0..(b - 1) PROVE Bit(z, k) = Bit(i, k)
      OBVIOUS
    <2>1. b - 1 - k \in 0..(b - 1) /\ b - 1 - (b - 1 - k) = k
      OBVIOUS
    <2> QED BY <1>2, <1>3, <2>1
  <1>5. z = i
    BY <1>3, <1>4, BitsDetermine
  <1> QED BY <1>2, <1>5 DEF r, z

(* Zero stays zero.                                                        *)
LEMMA ReverseZero == ASSUME NEW b \in Nat PROVE reverse_bits(0, b) = 0
  <1> DEFINE z == reverse_bits(0, b)
  <1>1. 2^b \in Nat /\ 2^b >= 1 /\ 0 \in 0..(2^b - 1)
    BY NatPower
  <1>2. z \in 0..(2^b - 1) /\ \A k \in 0..(b - 1) : Bit(z, k) = Bit(0, b - 1 - k)
    BY <1>1, ReversedBits
  <1> HIDE DEF z
  <1>3. ASSUME NEW k \in Nat PROVE Bit(0, k) = 0
    <2>1. 2^k \in Nat /\ 2^k >= 1
      BY NatPower
    <2>2. 0 \div 2^k = 0
      BY <2>1
    <2>3. 0 % 2 = 0
      OBVIOUS
    <2> QED BY <2>2, <2>3 DEF Bit
  <1>4. \A k \in 0..(b - 1) : Bit(z, k) = Bit(0, k)
    BY <1>2, <1>3
  <1>5. z = 0
    BY <1>1, <1>2, <1>4, BitsDetermine
  <1> QED BY <1>5 DEF z

(* The lowest bit goes to the top.                                         *)
LEMMA ReverseLowest ==
  ASSUME NEW b \in Nat, NEW y \in 0..(2^b - 1), NEW t \in 0..1
  PROVE  /\ 2 * y + t \in 0..(2^(b + 1) - 1)
         /\ reverse_bits(2 * y + t, b + 1) = t * 2^b + reverse_bits(y, b)
  <1> DEFINE P == 2^b
             u == 2 * y + t
             q == reverse_bits(y, b)
             z == IF t = 0 THEN q ELSE q + P
             r == reverse_bits(u, b + 1)
  <1>1. P \in Nat /\ P >= 1 /\ 2^(b + 1) = 2 * P
    BY NatPower, NextPower
  <1>2. q \in 0..(P - 1) /\ \A k \in 0..(b - 1) : Bit(q, k) = Bit(y, b - 1 - k)
    BY ReversedBits
  <1> HIDE DEF q
  <1>3. u \in 0..(2 * P - 1) /\ u \in Nat /\ y \in Nat
    BY <1>1
  <1>4. z = t * P + q /\ z \in 0..(2 * P - 1)
    <2>1. CASE t = 0
      BY <1>1, <1>2, <2>1
    <2>2. CASE t = 1
      BY <1>1, <1>2, <2>2
    <2> QED BY <2>1, <2>2
  <1>5. r \in 0..(2 * P - 1)
        /\ \A k \in 0..((b + 1) - 1) : Bit(r, k) = Bit(u, (b + 1) - 1 - k)
    BY <1>1, <1>3, ReversedBits
  <1> HIDE DEF r
  <1>6. ASSUME NEW k \in 0..((b + 1) - 1) PROVE Bit(r, k) = Bit(z, k)
    <2>1. CASE k < b
      <3> DEFINE j == b - 1 - k
      <3>1. j \in Nat /\ (b + 1) - 1 - k = j + 1 /\ k \in 0..(b - 1)
        BY <2>1
      <3>2. Bit(z, k) = Bit(q, k)
        BY <1>1, <1>2, <1>4, <2>1, BitBelow
      <3>3. Bit(u, j + 1) = Bit(y, j)
        <4> DEFINE H == 2^j
        <4>1. H \in Nat /\ H >= 1 /\ 2^(j + 1) = 2 * H
          BY <3>1, NatPower, NextPower
        <4> HIDE DEF j, H
        <4>2. (2 * y + t) \div (2 * H) = y \div H
          <5> DEFINE w == y \div H
                     m == y % H
          <5>1. w \in Nat /\ m \in 0..(H - 1) /\ y = w * H + m
            BY <1>3, <4>1, DivMod
          <5> HIDE DEF w, m
          <5> DEFINE D == 2 * H
                     e == 2 * m + t
          <5>2. D \in Nat /\ e \in 0..(D - 1) /\ 2 * y + t = w * D + e
            BY <4>1, <5>1
          <5> HIDE DEF D, e
          <5>3. (w * D + e) \div D = w
            BY <5>1, <5>2, DivModIs
          <5> QED BY <5>2, <5>3 DEF w, D
        <4> QED BY <4>1, <4>2 DEF Bit, H
      <3>4. Bit(r, k) = Bit(u, j + 1)
        BY <1>5, <3>1
      <3> QED BY <1>2, <3>1, <3>2, <3>3, <3>4
    <2>2. CASE k = b
      <3>1. Bit(r, k) = Bit(u, 0)
        BY <1>5, <2>2
      <3>2. Bit(u, 0) = t
        <4>1. 2^0 = 1
          BY PowerZero
        <4>2. u \div 1 = u /\ u % 2 = t
          BY <1>3
        <4> QED BY <4>1, <4>2 DEF Bit
      <3>3. Bit(z, b) = t
        <4>1. (t * P + q) \div P = t
          BY <1>1, <1>2, DivModIs
        <4>2. t % 2 = t
          OBVIOUS
        <4> QED BY <1>4, <4>1, <4>2 DEF Bit
      <3> QED BY <2>2, <3>1, <3>2, <3>3
    <2> QED BY <2>1, <2>2
  <1>7. r = z
    <2>1. b + 1 \in Nat /\ r \in 0..(2^(b + 1) - 1) /\ z \in 0..(2^(b + 1) - 1)
      BY <1>1, <1>4, <1>5
    <2> QED BY <1>6, <2>1, BitsDetermine
  <1> QED BY <1>1, <1>3, <1>4, <1>7 DEF r, q

(* The upper p bits and the lower h are reversed each on their own.        *)
LEMMA ReverseParts ==
  ASSUME NEW p \in Nat, NEW g \in 0..(2^p - 1), NEW h \in Nat,
         NEW x \in 0..(2^h - 1)
  PROVE  /\ g * 2^h + x \in 0..(2^(p + h) - 1)
         /\ x \in 0..(2^(p + h) - 1)
         /\ reverse_bits(g * 2^h + x, p + h)
              = reverse_bits(x, p + h) + reverse_bits(g, p)
  <1> DEFINE In(n, y) == g * 2^n + y \in 0..(2^(p + n) - 1)
                         /\ y \in 0..(2^(p + n) - 1)
             Q(n) == \A y \in 0..(2^n - 1) :
                       reverse_bits(g * 2^n + y, p + n)
                         = reverse_bits(y, p + n) + reverse_bits(g, p)
             T == {n \in Nat : ~Q(n)}
  <1>1. ASSUME NEW n \in Nat, NEW y \in 0..(2^n - 1) PROVE In(n, y)
    <2> DEFINE G == 2^p
               H == 2^n
    <2>1. G \in Nat /\ H \in Nat /\ H >= 1 /\ G >= 1 /\ 2^(p + n) = G * H
      BY NatPower, PowersMultiply
    <2> HIDE DEF G, H
    <2>2. g \in 0..(G - 1) /\ y \in 0..(H - 1)
      BY <1>1 DEF G, H
    <2>3. g * H <= (G - 1) * H /\ g * H \in Nat
      BY <2>1, <2>2
    <2>4. (G - 1) * H = G * H - H /\ G * H \in Nat
      BY <2>1
    <2> DEFINE gh == g * H
               GH == G * H
    <2>5. gh \in Nat /\ GH \in Nat /\ gh <= GH - H
      BY <2>3, <2>4
    <2> HIDE DEF gh, GH
    <2>6. gh + y \in 0..(GH - 1) /\ y \in 0..(GH - 1)
      BY <2>1, <2>2, <2>5
    <2> QED BY <2>1, <2>6 DEF gh, GH, H
  <1>2. T = {}
    <2> SUFFICES ASSUME T # {} PROVE FALSE
      OBVIOUS
    <2> HIDE DEF Q, In
    <2>1. PICK n \in T : \A j \in T : n <= j
      BY LeastNatural
    <2>2. CASE n = 0
      <3>1. 2^n = 1 /\ p + n = p
        BY <2>2, PowerZero
      <3>2. reverse_bits(g, p) \in 0..(2^p - 1) /\ 2^p \in Nat
        BY ReversedBits, NatPower
      <3>3. g * 1 + 0 = g /\ 0 + reverse_bits(g, p) = reverse_bits(g, p)
        BY <3>2
      <3>4. \A y \in 0..(2^n - 1) : y = 0
        BY <3>1
      <3>5. Q(n)
        BY <3>1, <3>3, <3>4, ReverseZero DEF Q
      <3> QED BY <2>1, <3>5
    <2>3. CASE n # 0
      <3> DEFINE m == n - 1
      <3>1. m \in Nat /\ n = m + 1 /\ p + n = (p + m) + 1 /\ p + m \in Nat
        BY <2>1, <2>3
      <3>2. Q(m)
        BY <2>1, <3>1
      <3>3. 2^m \in Nat /\ 2^m >= 1 /\ 2^n = 2 * 2^m
        BY <3>1, NatPower, NextPower
      <3> HIDE DEF m
      <3>4. ASSUME NEW y \in 0..(2^n - 1)
            PROVE  reverse_bits(g * 2^n + y, p + n)
                     = reverse_bits(y, p + n) + reverse_bits(g, p)
        <4> DEFINE w == y \div 2
                   t == y % 2
                   H == 2^m
                   v == g * H + w
                   TP == 2^(p + m)
        <4>1. w \in 0..(H - 1) /\ t \in 0..1 /\ y = 2 * w + t
          BY <3>3
        <4>2. v \in 0..(TP - 1) /\ w \in 0..(TP - 1) /\ TP \in Nat
          BY <1>1, <3>1, <4>1, NatPower DEF In
        <4> HIDE DEF w, t
        <4>3. g * 2^n + y = 2 * v + t
          <5>1. H \in Nat /\ 2^n = 2 * H
            BY <3>3
          <5> HIDE DEF H
          <5>2. g * (2 * H) = 2 * (g * H) /\ g * H \in Nat
            BY <5>1
          <5> DEFINE gH == g * H
          <5> HIDE DEF gH
          <5>3. 2 * gH + (2 * w + t) = 2 * (gH + w) + t
            BY <4>1, <5>2 DEF gH
          <5> QED BY <4>1, <5>1, <5>2, <5>3 DEF gH
        <4>4. reverse_bits(2 * v + t, (p + m) + 1) = t * TP + reverse_bits(v, p + m)
          BY <3>1, <4>1, <4>2, ReverseLowest
        <4>5. reverse_bits(2 * w + t, (p + m) + 1) = t * TP + reverse_bits(w, p + m)
          BY <3>1, <4>1, <4>2, ReverseLowest
        <4>6. reverse_bits(v, p + m) = reverse_bits(w, p + m) + reverse_bits(g, p)
          BY <3>2, <4>1 DEF Q
        <4>7. reverse_bits(w, p + m) \in Nat /\ reverse_bits(g, p) \in Nat
              /\ t * TP \in Nat
          <5>1. reverse_bits(w, p + m) \in 0..(TP - 1)
                /\ reverse_bits(g, p) \in 0..(2^p - 1)
            BY <3>1, <4>2, ReversedBits
          <5>2. 2^p \in Nat
            BY NatPower
          <5> QED BY <4>1, <4>2, <5>1, <5>2
        <4> DEFINE A == t * TP
                   X == reverse_bits(w, p + m)
                   Y == reverse_bits(g, p)
        <4> HIDE DEF A, X, Y, TP, v, H
        <4>8. A + (X + Y) = (A + X) + Y
          BY <4>7 DEF A, X, Y
        <4> QED BY <3>1, <4>1, <4>3, <4>4, <4>5, <4>6, <4>8 DEF A, X, Y
      <3>5. Q(n)
        BY <3>4 DEF Q
      <3> QED BY <2>1, <3>5
    <2> QED BY <2>2, <2>3
  <1>3. Q(h)
    BY <1>2
  <1> QED BY <1>1, <1>3

-----------------------------------------------------------------------------
(* Blocks of rows *)

(* The row at which block k of len rows begins when a block has B: the     *)
(* last one takes a row from the one before it when it would have only     *)
(* one.                                                                    *)
BlockRow(len, B, k) ==
  IF k >= CeilDiv(len, B) THEN len
  ELSE IF k > 0 /\ len = k * B + 1 THEN k * B - 1
  ELSE k * B

(* The rows of the block that begins at row i.                             *)
BlockDims(len, B, i) ==
  IF i + B > len THEN len - i ELSE IF i + B = len - 1 THEN B - 1 ELSE B

(* What CeilDiv computes, ...                                              *)
LEMMA CeilDivOf ==
  ASSUME NEW a \in Nat, NEW b \in Nat, b >= 1
  PROVE  /\ CeilDiv(a, b) \in Nat
         /\ a <= CeilDiv(a, b) * b /\ CeilDiv(a, b) * b < a + b
  <1> DEFINE q == (a + b - 1) \div b
             r == (a + b - 1) % b
  <1>1. a + b - 1 \in Nat
    OBVIOUS
  <1>2. q \in Nat /\ r \in 0..(b - 1) /\ a + b - 1 = (q * b) + r
    BY <1>1, DivMod
  <1> HIDE DEF q, r
  <1>3. q * b \in Nat
    BY <1>2
  <1>4. q \in Nat /\ a <= q * b /\ q * b < a + b
    BY <1>2, <1>3
  <1> QED BY <1>4 DEF CeilDiv, q

(* ... and that nothing else is it.                                        *)
LEMMA CeilDivIs ==
  ASSUME NEW a \in Nat, NEW b \in Nat, b >= 1, NEW q \in Nat,
         a <= q * b, q * b < a + b
  PROVE  CeilDiv(a, b) = q
  <1> DEFINE r == (a + b - 1) - (q * b)
  <1>1. q * b \in Nat
    OBVIOUS
  <1>2. r \in 0..(b - 1) /\ a + b - 1 = (q * b) + r
    BY <1>1
  <1> HIDE DEF r
  <1>3. ((q * b) + r) \div b = q
    BY <1>2, DivModIs
  <1> QED BY <1>2, <1>3 DEF CeilDiv

(* Multiples keep their order.                                             *)
LEMMA Multiples ==
  ASSUME NEW b \in Nat, NEW m \in Nat, NEW n \in Nat, m < n
  PROVE  m * b \in Nat /\ n * b \in Nat /\ (m + 1) * b = (m * b) + b
         /\ (m * b) + b <= n * b
  <1>1. PICK d \in Nat : n = (m + 1) + d
    <2>1. n - (m + 1) \in Nat /\ n = (m + 1) + (n - (m + 1))
      OBVIOUS
    <2> QED BY <2>1
  <1>2. n * b = (m * b) + b + (d * b) /\ d * b \in Nat /\ m * b \in Nat
    BY <1>1
  <1>3. (m + 1) * b = (m * b) + b
    OBVIOUS
  <1> QED BY <1>2, <1>3

(* From one row block to the next: BlockDims leads from the first row of   *)
(* block k to that of block k + 1, and rounding up gives k back.           *)
LEMMA BlockWalk ==
  ASSUME NEW len \in Nat, NEW B \in Nat, B >= 3,
         NEW k \in Nat, k < CeilDiv(len, B)
  PROVE  /\ BlockRow(len, B, k) \in Nat /\ BlockRow(len, B, k) < len
         /\ CeilDiv(BlockRow(len, B, k), B) = k
         /\ BlockRow(len, B, k) + BlockDims(len, B, BlockRow(len, B, k))
              = BlockRow(len, B, k + 1)
  <1> DEFINE R == CeilDiv(len, B)
             x == k * B
             i == BlockRow(len, B, k)
  <1>1. R \in Nat /\ len <= R * B /\ R * B < len + B
    BY CeilDivOf
  <1>2. x \in Nat /\ (k + 1) * B = x + B /\ x + B <= R * B
    BY <1>1, Multiples
  <1>3. R * B \in Nat
    BY <1>1
  <1>4. x < len
    BY <1>1, <1>2, <1>3
  <1>5. CASE k + 1 < R
    <2>1. (k + 1) + 1 <= R /\ ((k + 1) * B) + B <= R * B
      BY <1>1, <1>5, Multiples
    <2>2. x + B < len
      BY <1>1, <1>2, <1>3, <2>1
    <2>3. i = x
      BY <1>1, <1>2, <1>5, <2>2 DEF BlockRow
    <2>4. BlockRow(len, B, k + 1) = IF len = x + B + 1 THEN x + B - 1 ELSE x + B
      BY <1>1, <1>2, <1>5 DEF BlockRow
    <2>5. CeilDiv(x, B) = k
      BY <1>2, CeilDivIs
    <2>6. x + BlockDims(len, B, x) = BlockRow(len, B, k + 1)
      BY <1>2, <2>2, <2>4 DEF BlockDims
    <2> QED BY <1>4, <1>2, <2>3, <2>5, <2>6
  <1>6. CASE k + 1 = R
    <2>1. len <= x + B
      BY <1>1, <1>2, <1>6
    <2>2. BlockRow(len, B, k + 1) = len
      BY <1>1, <1>6 DEF BlockRow
    <2>3. CASE k > 0 /\ len = x + 1
      <3>1. i = x - 1
        BY <1>1, <1>6, <2>3 DEF BlockRow
      <3>2. x >= B
        <4>1. (0 * B) + B <= k * B
          BY <2>3, Multiples
        <4> QED BY <4>1
      <3>3. x - 1 \in Nat /\ CeilDiv(x - 1, B) = k
        BY <1>2, <3>2, CeilDivIs
      <3>4. (x - 1) + BlockDims(len, B, x - 1) = len
        BY <1>2, <2>3 DEF BlockDims
      <3> QED BY <1>2, <2>2, <2>3, <3>1, <3>3, <3>4
    <2>4. CASE ~(k > 0 /\ len = x + 1)
      <3>1. i = x
        BY <1>1, <1>6, <2>4 DEF BlockRow
      <3>2. CeilDiv(x, B) = k
        BY <1>2, CeilDivIs
      <3>3. x + BlockDims(len, B, x) = len
        BY <1>2, <1>4, <2>1 DEF BlockDims
      <3> QED BY <1>2, <1>4, <2>2, <3>1, <3>2, <3>3
    <2> QED BY <2>3, <2>4
  <1> QED BY <1>1, <1>5, <1>6

(* The blocks begin at row 0 and end at the last row.                      *)
LEMMA BlockEnds ==
  ASSUME NEW len \in Nat, len >= 1, NEW B \in Nat, B >= 3
  PROVE  /\ CeilDiv(len, B) \in 1..len
         /\ BlockRow(len, B, 0) = 0 /\ CeilDiv(0, B) = 0
         /\ \A k \in Nat : k >= CeilDiv(len, B) => BlockRow(len, B, k) = len
  <1> DEFINE R == CeilDiv(len, B)
  <1>1. R \in Nat /\ len <= R * B /\ R * B < len + B
    BY CeilDivOf
  <1>2. R # 0
    BY <1>1
  <1>3. R <= len
    <2>1. SUFFICES ASSUME len < R PROVE FALSE
      BY <1>1
    <2>2. (len * B) + B <= R * B /\ len * B \in Nat
      BY <1>1, <2>1, Multiples
    <2>3. len * B >= len
      BY <2>2
    <2> QED BY <1>1, <2>2, <2>3
  <1>4. CeilDiv(0, B) = 0
    BY CeilDivIs
  <1>5. BlockRow(len, B, 0) = 0
    BY <1>1, <1>2 DEF BlockRow
  <1> QED BY <1>1, <1>2, <1>3, <1>4, <1>5 DEF BlockRow
=============================================================================
