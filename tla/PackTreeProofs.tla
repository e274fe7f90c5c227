-------------------------- MODULE PackTreeProofs ---------------------------
(***************************************************************************)
(* The pipeline implements the packing tree.                               *)
(*                                                                         *)
(* DataInv says which block every stage, buffer and entry of the reduce    *)
(* buffer holds.  A block of level k is an interval of 2^(k - 1) leaves;   *)
(* the intervals that the pipeline holds are the forest of PackTree, and   *)
(* each step of the pipeline is one of the tree or leaves the forest as it *)
(* is.                                                                     *)
(***************************************************************************)
EXTENDS MvpPipelineProofs

-----------------------------------------------------------------------------
(* Blocks as intervals of leaf numbers *)

(* The numbers of the leaves of block i of level k.                        *)
Span(k, i) == (i * 2^(k - 1))..((i + 1) * 2^(k - 1) - 1)

(* The blocks of a tree of L levels that are not part of a larger one when *)
(* B[k] blocks of level k have been made.                                  *)
Lowest(L, B, k) == IF k = L THEN 0 ELSE 2 * B[k + 1]

Standing(L, B) ==
  UNION {{Span(k, i) : i \in Lowest(L, B, k)..(B[k] - 1)} : k \in 1..L}

(* Every made block of a level but the last is in pairs below the blocks   *)
(* of the next level, or stands.                                           *)
Paired(L, B) == \A k \in 1..(L - 1) : B[k] >= 2 * B[k + 1]

(* A block stands where it has a level and a place there.                  *)
LEMMA StandingIs ==
  ASSUME NEW L, NEW B, NEW x
  PROVE  x \in Standing(L, B) <=>
           \E k \in 1..L : \E i \in Lowest(L, B, k)..(B[k] - 1) : x = Span(k, i)
  <1> DEFINE R(k) == Lowest(L, B, k)..(B[k] - 1)
             S(k) == {Span(k, i) : i \in R(k)}
  <1>1. Standing(L, B) = UNION {S(k) : k \in 1..L}
    BY Zenon DEF Standing
  <1>2. \A k : x \in S(k) <=> \E i \in R(k) : x = Span(k, i)
    <2> HIDE DEF R
    <2> QED BY Zenon
  <1>3. x \in UNION {S(k) : k \in 1..L} <=> \E k \in 1..L : x \in S(k)
    <2> HIDE DEF S
    <2> QED BY Zenon
  <1> QED BY <1>1, <1>2, <1>3, Zenon

(* Two intervals that are not empty have the same ends if they are equal.  *)
LEMMA IntervalEnds ==
  ASSUME NEW a \in Int, NEW b \in Int, NEW c \in Int, NEW d \in Int,
         a <= b, a..b = c..d
  PROVE  a = c /\ b = d
  <1>1. a \in a..b /\ b \in a..b
    OBVIOUS
  <1>2. a \in c..d /\ b \in c..d
    BY <1>1
  <1>3. c <= a /\ a <= d /\ c <= b /\ b <= d
    BY <1>2
  <1>4. c \in c..d /\ d \in c..d
    BY <1>3
  <1>5. c \in a..b /\ d \in a..b
    BY <1>4
  <1> QED BY <1>3, <1>5

(* A block is as many leaves as its level says, from a multiple of that.   *)
LEMMA SpanIs ==
  ASSUME NEW k \in Nat, k >= 1, NEW i \in Nat
  PROVE  \E z \in Nat, a \in Nat : /\ z = 2^(k - 1) /\ z >= 1 /\ a = i * z
                                  /\ Span(k, i) = a..((a + z) - 1)
  <1>1. PICK z : z = 2^(k - 1)
    OBVIOUS
  <1>2. z \in Nat /\ z >= 1 /\ k - 1 \in Nat
    BY <1>1, NatPower
  <1>3. i * z \in Nat /\ (i + 1) * z = i * z + z
    BY <1>2
  <1>4. Span(k, i) = (i * z)..((i + 1) * z - 1)
    BY <1>1, Zenon DEF Span
  <1>5. PICK a \in Nat : a = i * z
    BY <1>3
  <1>6. Span(k, i) = a..((a + z) - 1)
    BY <1>3, <1>4, <1>5, Zenon
  <1> QED BY <1>1, <1>2, <1>5, <1>6, Zenon

(* A block is determined by its leaves.                                    *)
LEMMA SpanUnique ==
  ASSUME NEW k \in Nat, k >= 1, NEW i \in Nat, NEW m \in Nat, m >= 1, NEW j \in Nat,
         Span(k, i) = Span(m, j)
  PROVE  k = m /\ i = j
  <1>1. PICK z \in Nat, a \in Nat : /\ z = 2^(k - 1) /\ z >= 1 /\ a = i * z
                                  /\ Span(k, i) = a..((a + z) - 1)
    BY SpanIs, Zenon
  <1>2. PICK y \in Nat, c \in Nat : /\ y = 2^(m - 1) /\ y >= 1 /\ c = j * y
                                  /\ Span(m, j) = c..((c + y) - 1)
    BY SpanIs, Zenon
  <1>3. z >= 1 /\ y >= 1 /\ z = 2^(k - 1) /\ y = 2^(m - 1)
    BY <1>1, <1>2
  <1>4. a = c /\ (a + z) - 1 = (c + y) - 1
    <2>1. a..((a + z) - 1) = c..((c + y) - 1)
      BY <1>1, <1>2, Zenon
    <2>2. PICK b \in Int, d \in Int : b = (a + z) - 1 /\ d = (c + y) - 1
      OBVIOUS
    <2>3. a \in Int /\ c \in Int /\ a <= b
      BY ONLY <2>2, <1>3, z \in Nat, a \in Nat, c \in Nat, SMT
    <2>4. a..b = c..d
      BY <2>1, <2>2, Zenon
    <2>5. a = c /\ b = d
      BY <2>3, <2>4, IntervalEnds, Zenon
    <2> QED BY <2>2, <2>5, Zenon
  <1>6. z = y
    BY ONLY <1>4, z \in Nat, y \in Nat, a \in Nat, SMT
  <1>7. k = m
    <2>1. k - 1 \in Nat /\ m - 1 \in Nat
      OBVIOUS
    <2>2. 2^(k - 1) < 2^((m - 1) + 1)
      <3>1. 2^((m - 1) + 1) = 2 * 2^(m - 1)
        BY <2>1, NextPower
      <3> DEFINE w == 2^((m - 1) + 1)
      <3>2. w = 2 * y /\ z = y /\ y \in Nat /\ y >= 1
        BY <3>1, <1>3, <1>6
      <3> HIDE DEF w
      <3>3. z < w
        BY <3>2
      <3> QED BY <3>3, <1>3 DEF w
    <2>3. 2^(m - 1) < 2^((k - 1) + 1)
      <3>1. 2^((k - 1) + 1) = 2 * 2^(k - 1)
        BY <2>1, NextPower
      <3> DEFINE w == 2^((k - 1) + 1)
      <3>2. w = 2 * z /\ z = y /\ z \in Nat /\ z >= 1
        BY <3>1, <1>3, <1>6
      <3> HIDE DEF w
      <3>3. y < w
        BY <3>2
      <3> QED BY <3>3, <1>3 DEF w
    <2>4. k - 1 <= m - 1
      BY <2>1, <2>2, PowersOrdered
    <2>5. m - 1 <= k - 1
      BY <2>1, <2>3, PowersOrdered
    <2> QED BY <2>4, <2>5
  <1>8. i = j
    <2>1. i * z = j * z
      BY <1>1, <1>2, <1>4, <1>6, Zenon
    <2>2. i > j => i * z >= (j + 1) * z
      BY ONLY i \in Nat, j \in Nat, z \in Nat, SMT
    <2>3. j > i => j * z >= (i + 1) * z
      BY ONLY i \in Nat, j \in Nat, z \in Nat, SMT
    <2>4. (j + 1) * z = j * z + z /\ (i + 1) * z = i * z + z /\ i * z \in Nat
      BY ONLY i \in Nat, j \in Nat, z \in Nat, SMT
    <2> DEFINE u == i * z
               v == j * z
    <2>5. u = v /\ u \in Nat /\ (i > j => u >= v + z) /\ (j > i => v >= u + z)
      BY <2>1, <2>2, <2>3, <2>4, Zenon
    <2> HIDE DEF u, v
    <2> QED BY ONLY <2>5, <1>3, i \in Nat, j \in Nat, z \in Nat, SMT
  <1> QED BY <1>7, <1>8

(* A block above the leaves is its two halves.                             *)
LEMMA SpanHalves ==
  ASSUME NEW k \in Nat, k >= 1, NEW i \in Nat
  PROVE  /\ Span(k + 1, i) = Span(k, 2 * i) \cup Span(k, 2 * i + 1)
         /\ Span(1, i) = {i}
  <1> DEFINE z == 2^(k - 1)
             y == 2^((k + 1) - 1)
  <1>1. y = 2 * z /\ z \in Nat /\ z >= 1
    <2>1. k - 1 \in Nat /\ (k + 1) - 1 = (k - 1) + 1
      OBVIOUS
    <2> QED BY <2>1, NextPower, NatPower
  <1>2. Span(k + 1, i) = (i * y)..((i + 1) * y - 1)
    BY Zenon DEF Span
  <1>3. /\ Span(k, 2 * i) = ((2 * i) * z)..(((2 * i) + 1) * z - 1)
        /\ Span(k, 2 * i + 1) = ((2 * i + 1) * z)..(((2 * i + 1) + 1) * z - 1)
    BY Zenon DEF Span
  <1> HIDE DEF z, y
  <1> DEFINE u == i * z
  <1>4. /\ i * y = 2 * u /\ (i + 1) * y = 2 * u + 2 * z
        /\ (2 * i) * z = 2 * u /\ (2 * i + 1) * z = 2 * u + z
        /\ ((2 * i + 1) + 1) * z = 2 * u + 2 * z /\ u \in Nat
    BY <1>1
  <1> HIDE DEF u
  <1>5. (2 * u)..((2 * u + 2 * z) - 1) =
          ((2 * u)..((2 * u + z) - 1)) \cup ((2 * u + z)..((2 * u + 2 * z) - 1))
    BY <1>1, <1>4
  <1>6. Span(1, i) = {i}
    <2>1. 2^(1 - 1) = 1
      <3>1. 1 - 1 = 0
        OBVIOUS
      <3> QED BY <3>1, PowerZero
    <2>2. Span(1, i) = (i * 1)..((i + 1) * 1 - 1)
      BY <2>1, Zenon DEF Span
    <2>3. (i * 1)..((i + 1) * 1 - 1) = {i}
      OBVIOUS
    <2> QED BY <2>2, <2>3
  <1> QED BY <1>2, <1>3, <1>4, <1>5, <1>6, Zenon

(* Every block that was made is within the leaves that have arrived.       *)
LEMMA SpanWithin ==
  ASSUME NEW L \in Nat, L >= 1, NEW B \in [1..L -> Nat], Paired(L, B),
         NEW k \in 1..L, NEW i \in Nat, i < B[k]
  PROVE  Span(k, i) \subseteq 0..(B[1] - 1)
  <1> DEFINE Bad(m) == \E j \in Nat : j < B[m] /\ ~(Span(m, j) \subseteq 0..(B[1] - 1))
             T == {m \in 1..L : Bad(m)}
  <1> SUFFICES ASSUME T # {} PROVE FALSE
    BY Zenon
  <1>1. T \in SUBSET Nat
    OBVIOUS
  <1>2. PICK m \in T : \A j \in T : m <= j
    BY <1>1, LeastNatural
  <1>3. m \in 1..L /\ Bad(m)
    OBVIOUS
  <1>4. PICK j \in Nat : j < B[m] /\ ~(Span(m, j) \subseteq 0..(B[1] - 1))
    BY <1>3
  <1>5. CASE m = 1
    <2>1. Span(m, j) = {j}
      BY <1>5, SpanHalves
    <2>2. B[1] \in Nat /\ j < B[1]
      BY <1>4, <1>5
    <2>3. {j} \subseteq 0..(B[1] - 1)
      BY <2>2
    <2> QED BY <2>1, <2>3, <1>4, Zenon
  <1>6. CASE m # 1
    <2>1. PICK h \in 1..(L - 1) : m = h + 1
      BY <1>3, <1>6
    <2>2. h \in Nat /\ h >= 1 /\ h \in 1..L /\ h < m /\ m \in Nat
      BY <2>1, <1>3
    <2>3. Span(m, j) = Span(h, 2 * j) \cup Span(h, 2 * j + 1)
      BY <2>1, <2>2, SpanHalves
    <2>4. B[h] >= 2 * B[m] /\ B[h] \in Nat /\ B[m] \in Nat
      BY <2>1, <2>2, <1>3 DEF Paired
    <2>5. 2 * j \in Nat /\ 2 * j + 1 \in Nat /\ 2 * j < B[h] /\ 2 * j + 1 < B[h]
      <3>1. j \in Nat /\ j < B[m]
        BY <1>4, Zenon
      <3> QED BY ONLY <2>4, <3>1, SMT
    <2>6. ~Bad(h)
      <3>1. h \notin T
        BY <1>2, <2>2
      <3> QED BY <3>1, <2>2, Zenon
    <2>7. /\ Span(h, 2 * j) \subseteq 0..(B[1] - 1)
          /\ Span(h, 2 * j + 1) \subseteq 0..(B[1] - 1)
      BY <2>5, <2>6, Zenon
    <2> QED BY <2>3, <2>7, <1>4, Zenon
  <1> QED BY <1>5, <1>6

(* Every leaf that has arrived is in the largest block that was made of    *)
(* it, and that one stands.                                                *)
LEMMA LeafStands ==
  ASSUME NEW L \in Nat, L >= 1, NEW B \in [1..L -> Nat],
         NEW l \in Nat, l < B[1]
  PROVE  \E k \in 1..L : \E i \in Lowest(L, B, k)..(B[k] - 1) : l \in Span(k, i)
  <1> DEFINE In(k) == \E i \in Nat : i < B[k] /\ l \in Span(k, i)
             T == {e \in 0..(L - 1) : In(L - e)}
  <1>1. T \in SUBSET Nat
    OBVIOUS
  <1>2. T # {}
    <2>1. L - 1 \in 0..(L - 1) /\ L - (L - 1) = 1
      OBVIOUS
    <2>2. l \in Span(1, l)
      <3>1. Span(1, l) = {l}
        BY SpanHalves
      <3> QED BY <3>1
    <2>3. In(1)
      BY <2>2, Zenon
    <2>4. In(L - (L - 1))
      BY <2>1, <2>3, Zenon
    <2> HIDE DEF In
    <2> QED BY <2>1, <2>4, Zenon
  <1>3. PICK e \in T : \A f \in T : e <= f
    BY <1>1, <1>2, LeastNatural
  <1>4. e \in 0..(L - 1) /\ In(L - e)
    BY Zenon
  <1>5. PICK k \in 1..L : k = L - e
    BY <1>4
  <1>6. PICK i \in Nat : i < B[k] /\ l \in Span(k, i)
    BY <1>4, <1>5
  <1>7. B[k] \in Nat /\ i <= B[k] - 1
    BY <1>6
  <1>8. CASE k = L
    <2>1. Lowest(L, B, k) = 0
      BY <1>8 DEF Lowest
    <2>2. i \in Lowest(L, B, k)..(B[k] - 1)
      BY <2>1, <1>7
    <2> QED BY <2>2, <1>6, Zenon
  <1>9. CASE k # L
    <2>1. k + 1 \in 1..L /\ k \in Nat /\ k >= 1 /\ B[k + 1] \in Nat
      BY <1>9
    <2>2. Lowest(L, B, k) = 2 * B[k + 1]
      BY <1>9 DEF Lowest
    <2>3. i >= 2 * B[k + 1]
      <3> SUFFICES ASSUME i < 2 * B[k + 1] PROVE FALSE
        BY <2>1
      <3>1. PICK h \in Nat : i = 2 * h \/ i = 2 * h + 1
        <4>1. i \div 2 \in Nat /\ (i = 2 * (i \div 2) \/ i = 2 * (i \div 2) + 1)
          OBVIOUS
        <4> QED BY <4>1
      <3>2. h < B[k + 1]
        BY <3>1, <2>1
      <3>3. Span(k + 1, h) = Span(k, 2 * h) \cup Span(k, 2 * h + 1)
        BY <2>1, SpanHalves
      <3>4. l \in Span(k + 1, h)
        BY <3>1, <3>3, <1>6, Zenon
      <3>5. In(k + 1)
        BY <3>2, <3>4, Zenon
      <3>6. e - 1 \in 0..(L - 1) /\ L - (e - 1) = k + 1 /\ ~(e <= e - 1)
        BY <1>4, <1>5, <1>9
      <3>7. In(L - (e - 1))
        BY <3>5, <3>6, Zenon
      <3>8. e - 1 \in T
        <4> HIDE DEF In
        <4> QED BY <3>6, <3>7, Zenon
      <3> QED BY <3>6, <3>8, <1>3, Zenon
    <2>4. i \in Lowest(L, B, k)..(B[k] - 1)
      BY <2>1, <2>2, <2>3, <1>7
    <2> QED BY <2>4, <1>6, Zenon
  <1> QED BY <1>8, <1>9

(* A place where a block stands is a number.                               *)
LEMMA PlaceStands ==
  ASSUME NEW L \in Nat, NEW B \in [1..L -> Nat], NEW k \in 1..L,
         NEW i \in Lowest(L, B, k)..(B[k] - 1)
  PROVE  i \in Nat /\ i < B[k]
  <1>1. Lowest(L, B, k) \in Nat
    <2>1. CASE k = L
      BY <2>1 DEF Lowest
    <2>2. CASE k # L
      <3>1. B[k + 1] \in Nat
        BY <2>2
      <3> QED BY <3>1, <2>2 DEF Lowest
    <2> QED BY <2>1, <2>2
  <1>2. B[k] \in Nat
    OBVIOUS
  <1> QED BY <1>1, <1>2

(* The blocks that stand have exactly the leaves that have arrived.        *)
LEMMA Covered ==
  ASSUME NEW L \in Nat, L >= 1, NEW B \in [1..L -> Nat], Paired(L, B)
  PROVE  UNION Standing(L, B) = 0..(B[1] - 1)
  <1>1. ASSUME NEW x \in Standing(L, B) PROVE x \subseteq 0..(B[1] - 1)
    <2>0. x \in Standing(L, B) <=>
            \E k \in 1..L : \E i \in Lowest(L, B, k)..(B[k] - 1) : x = Span(k, i)
      BY StandingIs
    <2>1. PICK k \in 1..L : \E i \in Lowest(L, B, k)..(B[k] - 1) : x = Span(k, i)
      BY <2>0, Zenon
    <2>2. PICK i \in Lowest(L, B, k)..(B[k] - 1) : x = Span(k, i)
      BY <2>1, Zenon
    <2>3. i \in Nat /\ i < B[k]
      BY PlaceStands
    <2>4. Span(k, i) \subseteq 0..(B[1] - 1)
      BY <2>3, SpanWithin
    <2> QED BY <2>2, <2>4, Zenon
  <1>2. ASSUME NEW l \in 0..(B[1] - 1) PROVE \E x \in Standing(L, B) : l \in x
    <2>1. l \in Nat /\ l < B[1]
      <3>1. B[1] \in Nat
        OBVIOUS
      <3> QED BY <3>1
    <2>2. PICK k \in 1..L : \E i \in Lowest(L, B, k)..(B[k] - 1) : l \in Span(k, i)
      BY <2>1, LeafStands
    <2>3. PICK i \in Lowest(L, B, k)..(B[k] - 1) : l \in Span(k, i)
      BY <2>2, Zenon
    <2>4. Span(k, i) \in Standing(L, B)
      BY StandingIs, Zenon
    <2> QED BY <2>3, <2>4, Zenon
  <1>3. \A l : l \in UNION Standing(L, B) <=> l \in 0..(B[1] - 1)
    BY <1>1, <1>2, Zenon
  <1> QED BY <1>3, Zenon

(* One more block of level k.                                              *)
OneMore(L, B, C, k) == \A m \in 1..L : C[m] = IF m = k THEN B[m] + 1 ELSE B[m]

(* The places of the blocks that stand, by level.                          *)
PlacesOf(L, B) == [m \in 1..L |-> Lowest(L, B, m)..(B[m] - 1)]

(* Levels and places are numbers.                                          *)
Numbered(K, R) == \A m \in K : m \in Nat /\ m >= 1 /\ \A i \in R[m] : i \in Nat

(* X has the blocks of the levels in K and the places in R.                *)
AtPlaces(K, R, X) == \A x : x \in X <=> \E m \in K : \E i \in R[m] : x = Span(m, i)

(* The places S are the places R after the two blocks 2b and 2b + 1 of     *)
(* level k have become block b of the next level.                          *)
PairMoved(K, R, S, k, b) ==
  \A m \in K : \A i : i \in S[m] <=>
     \/ i \in R[m] /\ ~(m = k /\ (i = 2 * b \/ i = 2 * b + 1))
     \/ m = k + 1 /\ i = b

(* Y has the union of u and v in their place.                              *)
Replaced(X, Y, u, v) ==
  u \in X /\ v \in X /\ Y = (X \ {u, v}) \cup {u \cup v}

(* The blocks that stand are those at their places.                        *)
LEMMA StandingPlaces ==
  ASSUME NEW L, NEW B PROVE AtPlaces(1..L, PlacesOf(L, B), Standing(L, B))
  <1>1. \A m \in 1..L : PlacesOf(L, B)[m] = Lowest(L, B, m)..(B[m] - 1)
    BY Zenon DEF PlacesOf
  <1>2. \A x : x \in Standing(L, B) <=>
             \E m \in 1..L : \E i \in Lowest(L, B, m)..(B[m] - 1) : x = Span(m, i)
    BY ONLY StandingIs
  <1> QED BY <1>1, <1>2, Zenon DEF AtPlaces

(* A leaf arrives.                                                         *)
LEMMA LeafArrives ==
  ASSUME NEW L \in Nat, L >= 1, NEW B \in [1..L -> Nat], Paired(L, B),
         NEW C \in [1..L -> Nat], OneMore(L, B, C, 1)
  PROVE  Standing(L, C) = Standing(L, B) \cup {{B[1]}}
  <1> DEFINE R(m) == Lowest(L, B, m)..(B[m] - 1)
             S(m) == Lowest(L, C, m)..(C[m] - 1)
  <1>1. ASSUME NEW m \in 1..L
        PROVE  \A i : i \in S(m) <=> i \in R(m) \/ (m = 1 /\ i = B[1])
    <2>1. Lowest(L, C, m) = Lowest(L, B, m)
      <3>1. m # L => m + 1 \in 1..L /\ m + 1 # 1
        OBVIOUS
      <3> QED BY <3>1 DEF Lowest, OneMore
    <2>2. Lowest(L, B, m) \in Nat /\ Lowest(L, B, m) <= B[m] /\ B[m] \in Nat
      <3>1. m = L => Lowest(L, B, m) = 0
        BY DEF Lowest
      <3>2. m # L => Lowest(L, B, m) = 2 * B[m + 1] /\ B[m + 1] \in Nat /\ B[m] >= 2 * B[m + 1]
        BY DEF Lowest, Paired
      <3>3. B[m] \in Nat
        OBVIOUS
      <3> QED BY <3>1, <3>2, <3>3
    <2>3. PICK a \in Nat : a = Lowest(L, B, m)
      BY <2>2
    <2>4. C[m] = IF m = 1 THEN B[m] + 1 ELSE B[m]
      BY DEF OneMore
    <2> QED BY <2>1, <2>2, <2>3, <2>4
  <1>2. \A x : x \in Standing(L, B) <=> \E m \in 1..L : \E i \in R(m) : x = Span(m, i)
    BY ONLY StandingIs
  <1>3. \A x : x \in Standing(L, C) <=> \E m \in 1..L : \E i \in S(m) : x = Span(m, i)
    BY ONLY StandingIs
  <1>4. 1 \in 1..L /\ B[1] \in Nat
    OBVIOUS
  <1>5. Span(1, B[1]) = {B[1]}
    BY <1>4, SpanHalves
  <1> HIDE DEF R, S
  <1>6. \A x : x \in Standing(L, C) <=> x \in Standing(L, B) \/ x = {B[1]}
    BY <1>1, <1>2, <1>3, <1>4, <1>5, Zenon
  <1> QED BY <1>6, Zenon

(* The first block of a level that stands is no later than the next one to *)
(* be made.                                                                *)
LEMMA LowestBound ==
  ASSUME NEW L \in Nat, NEW B \in [1..L -> Nat], Paired(L, B), NEW m \in 1..L
  PROVE  Lowest(L, B, m) \in Nat /\ Lowest(L, B, m) <= B[m] /\ B[m] \in Nat
  <1>1. m = L => Lowest(L, B, m) = 0
    BY DEF Lowest
  <1>2. m # L => Lowest(L, B, m) = 2 * B[m + 1] /\ B[m + 1] \in Nat /\ B[m] >= 2 * B[m + 1]
    BY DEF Lowest, Paired
  <1>3. B[m] \in Nat
    OBVIOUS
  <1> QED BY <1>1, <1>2, <1>3

(* When a block of level k + 1 is made, the places of its two halves are   *)
(* no longer there, and its own place is new.                              *)
LEMMA PairPlaces ==
  ASSUME NEW L \in Nat, NEW B \in [1..L -> Nat], Paired(L, B),
         NEW k \in 1..(L - 1), NEW b \in Nat, b = B[k + 1], B[k] >= 2 * b + 2,
         NEW C, OneMore(L, B, C, k + 1)
  PROVE  PairMoved(1..L, PlacesOf(L, B), PlacesOf(L, C), k, b)
  <1> SUFFICES ASSUME NEW m \in 1..L, NEW i
               PROVE  i \in Lowest(L, C, m)..(C[m] - 1) <=>
                        \/ /\ i \in Lowest(L, B, m)..(B[m] - 1)
                           /\ ~(m = k /\ (i = 2 * b \/ i = 2 * b + 1))
                        \/ m = k + 1 /\ i = b
    <2>1. /\ \A m \in 1..L : PlacesOf(L, B)[m] = Lowest(L, B, m)..(B[m] - 1)
          /\ \A m \in 1..L : PlacesOf(L, C)[m] = Lowest(L, C, m)..(C[m] - 1)
      BY Zenon DEF PlacesOf
    <2> QED BY <2>1, ZenonT(60) DEF PairMoved
  <1>1. k # L /\ k + 1 \in 1..L /\ k \in 1..L /\ k \in Nat /\ m \in Nat
    BY ONLY k \in 1..(L - 1), L \in Nat, m \in 1..L, SMT
  <1>2. PICK a \in Nat, p \in Nat : a = Lowest(L, B, m) /\ p = B[m] /\ a <= p
    BY LowestBound
  <1>3. C[m] = IF m = k + 1 THEN p + 1 ELSE p
    BY <1>2, Zenon DEF OneMore
  <1>4. Lowest(L, C, m) = IF m = k THEN 2 * b + 2 ELSE a
    <2>1. CASE m = L
      BY <2>1, <1>1, <1>2, Zenon DEF Lowest
    <2>2. CASE m # L
      <3>1. m + 1 \in 1..L /\ (m + 1 = k + 1 <=> m = k)
        BY ONLY <2>2, <1>1, m \in 1..L, L \in Nat, SMT
      <3>2. Lowest(L, C, m) = 2 * C[m + 1] /\ a = 2 * B[m + 1]
        BY <2>2, <1>2, Zenon DEF Lowest
      <3>3. C[m + 1] = IF m = k THEN b + 1 ELSE B[m + 1]
        <4>1. C[m + 1] = IF m + 1 = k + 1 THEN B[m + 1] + 1 ELSE B[m + 1]
          BY <3>1, Zenon DEF OneMore
        <4>2. m = k => B[m + 1] = b
          BY Zenon
        <4> QED BY <4>1, <4>2, <3>1, Zenon
      <3> QED BY ONLY <3>2, <3>3, b \in Nat, SMT
    <2> QED BY <2>1, <2>2
  <1>5. m = k => a = 2 * b /\ p >= 2 * b + 2
    BY <1>1, <1>2, Zenon DEF Lowest
  <1>6. m = k + 1 => p = b
    BY <1>2, Zenon
  <1> DEFINE x == Lowest(L, C, m)
             y == C[m]
  <1>7. /\ y = IF m = k + 1 THEN p + 1 ELSE p
        /\ x = IF m = k THEN 2 * b + 2 ELSE a
    BY <1>3, <1>4
  <1> HIDE DEF x, y
  <1>8. i \in x..(y - 1) <=>
           \/ i \in a..(p - 1) /\ ~(m = k /\ (i = 2 * b \/ i = 2 * b + 1))
           \/ m = k + 1 /\ i = b
    <2>1. CASE m = k
      <3>1. x = 2 * b + 2 /\ y = p /\ a = 2 * b /\ p >= 2 * b + 2 /\ m # k + 1
        BY ONLY <2>1, <1>1, <1>5, <1>7, SMT
      <3> QED BY ONLY <2>1, <3>1, b \in Nat, p \in Nat, SMT
    <2>2. CASE m = k + 1
      <3>1. x = a /\ y = p + 1 /\ p = b /\ m # k /\ a <= p
        BY ONLY <2>2, <1>1, <1>2, <1>6, <1>7, SMT
      <3> QED BY ONLY <2>2, <3>1, a \in Nat, p \in Nat, SMT
    <2>3. CASE m # k /\ m # k + 1
      BY <2>3, <1>7, Zenon
    <2> QED BY <2>1, <2>2, <2>3, Zenon
  <1> QED BY <1>2, <1>8, Zenon DEF x, y

(* Two blocks are replaced by their union when the places change so.       *)
LEMMA PairReplaced ==
  ASSUME NEW k \in Nat, k >= 1, NEW b \in Nat, NEW K, NEW R, NEW S, NEW X, NEW Y,
         k \in K, k + 1 \in K,
         Numbered(K, R),
         PairMoved(K, R, S, k, b), AtPlaces(K, R, X), AtPlaces(K, S, Y),
         2 * b \in R[k], 2 * b + 1 \in R[k],
         NEW u, NEW v, u = Span(k, 2 * b), v = Span(k, 2 * b + 1)
  PROVE  Replaced(X, Y, u, v)
  <1>a. /\ \A x : x \in X <=> \E m \in K : \E i \in R[m] : x = Span(m, i)
        /\ \A x : x \in Y <=> \E m \in K : \E i \in S[m] : x = Span(m, i)
    BY Zenon DEF AtPlaces
  <1>1. PICK e \in Nat, f \in Nat : e = 2 * b /\ f = 2 * b + 1
    BY ONLY b \in Nat, SMT
  <1>2. Span(k + 1, b) = u \cup v
    BY ONLY SpanHalves, k \in Nat, k >= 1, b \in Nat, u = Span(k, 2 * b), v = Span(k, 2 * b + 1),
            Zenon
  <1>3. u = Span(k, e) /\ v = Span(k, f) /\ e \in R[k] /\ f \in R[k]
    BY <1>1, Zenon
  <1>4. u \in X /\ v \in X
    BY <1>a, <1>3, Zenon
  <1>5. ASSUME NEW m \in K, NEW i \in R[m]
        PROVE  /\ Span(m, i) = u <=> m = k /\ i = e
               /\ Span(m, i) = v <=> m = k /\ i = f
    <2>1. i \in Nat /\ m \in Nat /\ m >= 1
      BY Zenon DEF Numbered
    <2>2. Span(m, i) = Span(k, e) => m = k /\ i = e
      BY ONLY <2>1, e \in Nat, k \in Nat, k >= 1, SpanUnique, Zenon
    <2>3. Span(m, i) = Span(k, f) => m = k /\ i = f
      BY ONLY <2>1, f \in Nat, k \in Nat, k >= 1, SpanUnique, Zenon
    <2> QED BY <2>2, <2>3, <1>3, Zenon
  <1>6. \A m \in K : \A i : i \in S[m] <=>
            \/ i \in R[m] /\ ~(m = k /\ (i = e \/ i = f))
            \/ m = k + 1 /\ i = b
    BY <1>1, Zenon DEF PairMoved
  <1>7. ASSUME NEW x \in Y PROVE x \in (X \ {u, v}) \cup {u \cup v}
    <2>0. PICK m \in K : \E i \in S[m] : x = Span(m, i)
      BY <1>a, Zenon
    <2>1. PICK i \in S[m] : x = Span(m, i)
      BY <2>0, Zenon
    <2>2. \/ i \in R[m] /\ ~(m = k /\ (i = e \/ i = f))
          \/ m = k + 1 /\ i = b
      BY <1>6, <2>1, Zenon
    <2>3. CASE m = k + 1 /\ i = b
      BY <2>1, <2>3, <1>2, Zenon
    <2>4. CASE i \in R[m] /\ ~(m = k /\ (i = e \/ i = f))
      <3>1. x # u /\ x # v
        BY <2>1, <2>4, <1>5, Zenon
      <3>2. x \in X
        BY <1>a, <2>1, <2>4, Zenon
      <3> QED BY <3>1, <3>2, Zenon
    <2> QED BY <2>2, <2>3, <2>4, Zenon
  <1>8. ASSUME NEW x \in (X \ {u, v}) \cup {u \cup v} PROVE x \in Y
    <2>1. CASE x = u \cup v
      <3>1. b \in S[k + 1]
        BY <1>6, Zenon
      <3> QED BY <1>a, <3>1, <2>1, <1>2, Zenon
    <2>2. CASE x \in X /\ x # u /\ x # v
      <3>0. PICK m \in K : \E i \in R[m] : x = Span(m, i)
        BY <1>a, <2>2, Zenon
      <3>1. PICK i \in R[m] : x = Span(m, i)
        BY <3>0, Zenon
      <3>2. ~(m = k /\ (i = e \/ i = f))
        BY <3>1, <2>2, <1>5, Zenon
      <3>3. i \in S[m]
        BY <3>1, <3>2, <1>6, Zenon
      <3> QED BY <1>a, <3>1, <3>3, Zenon
    <2> QED BY <2>1, <2>2, Zenon
  <1>9. Y = (X \ {u, v}) \cup {u \cup v}
    BY <1>7, <1>8, Zenon
  <1> QED BY <1>4, <1>9, Zenon DEF Replaced

(* Two blocks of level k are packed.                                       *)
LEMMA PairPacked ==
  ASSUME NEW L \in Nat, L >= 1, NEW B \in [1..L -> Nat], Paired(L, B),
         NEW k \in 1..(L - 1), NEW b \in Nat, b = B[k + 1], B[k] >= 2 * b + 2,
         NEW C, OneMore(L, B, C, k + 1),
         NEW u, NEW v, u = Span(k, 2 * b), v = Span(k, 2 * b + 1)
  PROVE  Replaced(Standing(L, B), Standing(L, C), u, v)
  <1>1. \A m \in 1..L : PlacesOf(L, B)[m] = Lowest(L, B, m)..(B[m] - 1)
    BY Zenon DEF PlacesOf
  <1>2. k \in 1..L /\ k + 1 \in 1..L /\ k \in Nat /\ k >= 1 /\ k # L
    BY ONLY k \in 1..(L - 1), L \in Nat, SMT
  <1>3. Numbered(1..L, PlacesOf(L, B))
    <2> SUFFICES ASSUME NEW m \in 1..L
                 PROVE  m \in Nat /\ m >= 1 /\ \A i \in PlacesOf(L, B)[m] : i \in Nat
      BY Zenon DEF Numbered
    <2>1. m \in Nat /\ m >= 1
      BY ONLY m \in 1..L, L \in Nat, SMT
    <2>2. \A i \in Lowest(L, B, m)..(B[m] - 1) : i \in Nat /\ i < B[m]
      BY PlaceStands, Zenon
    <2> QED BY <2>1, <2>2, <1>1, Zenon
  <1>4. PairMoved(1..L, PlacesOf(L, B), PlacesOf(L, C), k, b)
    BY PairPlaces, Zenon
  <1>5. AtPlaces(1..L, PlacesOf(L, B), Standing(L, B))
    BY StandingPlaces, Zenon
  <1>6. AtPlaces(1..L, PlacesOf(L, C), Standing(L, C))
    BY StandingPlaces, Zenon
  <1>7. 2 * b \in PlacesOf(L, B)[k] /\ 2 * b + 1 \in PlacesOf(L, B)[k]
    <2>1. Lowest(L, B, k) = 2 * b
      BY <1>2, Zenon DEF Lowest
    <2>2. PICK p \in Nat : p = B[k]
      BY <1>2
    <2>3. 2 * b \in (2 * b)..(p - 1) /\ 2 * b + 1 \in (2 * b)..(p - 1)
      BY <2>2
    <2> QED BY <2>1, <2>2, <2>3, <1>1, <1>2, Zenon
  <1> QED BY <1>2, <1>3, <1>4, <1>5, <1>6, <1>7, PairReplaced, Zenon

-----------------------------------------------------------------------------
(* The forest that the pipeline holds *)

(* Different leaves are different data.                                    *)
LEMMA LeafInjective ==
  ASSUME job \in Jobs, NEW l \in Nat, NEW m \in Nat, TheLeaf(l) = TheLeaf(m)
  PROVE  l = m
  <1> DEFINE d == job.index
             e == job.split
             g == l \div d
             h == m \div d
             F(w, v) == <<Batch(e + w * e + v, 1), Batch(v, 1)>>
             P(w) == {F(w, v) : v \in 0..(e - 1)}
  <1>1. d \in Nat /\ d >= 1 /\ e \in Nat /\ e >= 1
    BY JobFacts
  <1>2. /\ TheLeaf(l) = Leaf(Group(P(g), 1), l % d)
        /\ TheLeaf(m) = Leaf(Group(P(h), 1), m % d)
    BY Zenon DEF TheLeaf
  <1> HIDE DEF d, e, P
  <1>3. P(g) = P(h) /\ l % d = m % d
    <2>1. ASSUME NEW p, NEW q, NEW r, NEW s, Leaf(Group(p, 1), r) = Leaf(Group(q, 1), s)
          PROVE  p = q /\ r = s
      <3>1. Group(p, 1) = Group(q, 1) /\ r = s
        BY <2>1 DEF Leaf
      <3>2. Group(p, 1).prods = p /\ Group(q, 1).prods = q
        BY DEF Group
      <3> QED BY <3>1, <3>2, Zenon
    <2>2. Leaf(Group(P(g), 1), l % d) = Leaf(Group(P(h), 1), m % d)
      BY <1>2, Zenon
    <2> QED BY <2>1, <2>2, Zenon
  <1>4. g \in Nat /\ h \in Nat /\ l = g * d + (l % d) /\ m = h * d + (m % d)
    BY <1>1, DivMod
  <1> HIDE DEF g, h
  <1>5. g = h
    <2>1. F(g, 0) \in P(g)
      <3>1. 0 \in 0..(e - 1)
        BY <1>1
      <3> HIDE DEF F
      <3> QED BY <3>1, Zenon DEF P
    <2>2. PICK v \in 0..(e - 1) : F(g, 0) = F(h, v)
      <3>1. F(g, 0) \in P(h)
        BY <2>1, <1>3, Zenon
      <3> HIDE DEF F
      <3> QED BY <3>1, Zenon DEF P
    <2>3. Batch(e + g * e + 0, 1) = Batch(e + h * e + v, 1) /\ Batch(0, 1) = Batch(v, 1)
      BY <2>2
    <2>4. e + g * e + 0 = e + h * e + v /\ v = 0
      BY <2>3 DEF Batch
    <2>5. g * e \in Nat /\ h * e \in Nat
      BY <1>1, <1>4
    <2> DEFINE x == g * e
               y == h * e
    <2>6. x \in Nat /\ y \in Nat /\ e + x + 0 = e + y + v /\ v = 0
      BY <2>4, <2>5
    <2>7. x = y
      <3> HIDE DEF x, y
      <3> QED BY ONLY <2>6, <1>1, SMT
    <2>8. g * e = h * e
      BY <2>7
    <2>9. g < h => g * e + e <= h * e
      BY <1>1, <1>4
    <2>10. h < g => h * e + e <= g * e
      BY <1>1, <1>4
    <2> HIDE DEF x, y
    <2>11. (g < h => x + e <= y) /\ (h < g => y + e <= x)
      BY <2>9, <2>10 DEF x, y
    <2> QED BY ONLY <2>6, <2>7, <2>11, <1>1, <1>4, SMT
  <1> QED BY <1>3, <1>4, <1>5, Zenon

(* A block of a run is within its leaves.                                  *)
LEMMA SpanInLeaves ==
  ASSUME NEW L \in Nat, NEW k \in 1..L, L = job.level, NEW i \in Nat, i < 2^(L - k)
  PROVE  Span(k, i) \subseteq Leaves
  <1>1. k \in Nat /\ k >= 1 /\ k - 1 \in Nat /\ L - k \in Nat /\ (k - 1) + (L - k) = L - 1
    OBVIOUS
  <1>2. PICK z \in Nat, a \in Nat : /\ z = 2^(k - 1) /\ z >= 1 /\ a = i * z
                                  /\ Span(k, i) = a..((a + z) - 1)
    BY <1>1, SpanIs, Zenon
  <1>3. PICK y \in Nat : y = 2^(L - k)
    BY <1>1, NatPower
  <1>4. 2^(L - 1) = z * y
    <2>1. 2^((k - 1) + (L - k)) = 2^(k - 1) * 2^(L - k)
      BY <1>1, PowersMultiply
    <2> QED BY <2>1, <1>1, <1>2, <1>3, Zenon
  <1>5. i + 1 <= y
    BY <1>3
  <1>6. (i + 1) * z <= y * z /\ (i + 1) * z = i * z + z /\ y * z = z * y /\ z * y \in Nat
    BY ONLY <1>5, i \in Nat, y \in Nat, z \in Nat, SMT
  <1>7. PICK t \in Nat : t = 2^(L - 1)
    BY <1>4, <1>6
  <1>8. a + z <= t
    BY ONLY <1>2, <1>4, <1>6, <1>7
  <1>9. a..((a + z) - 1) \subseteq 0..(t - 1)
    BY ONLY <1>8, a \in Nat, z \in Nat, t \in Nat, SMT
  <1> QED BY <1>2, <1>7, <1>9, Zenon DEF Leaves

(* The leaves of a block, by number.                                       *)
LEMMA NumbersAre ==
  ASSUME job \in Jobs, NEW L \in Nat, L = job.level, NEW k \in Nat, k >= 1, L >= 1,
         NEW i \in Nat, i < 2^(L - Level(k)), NEW b, b.leaves = Cluster(k, i)
  PROVE  Numbers(b) = Span(Level(k), i)
  <1>1. Level(k) \in 1..L
    BY DEF Level
  <1>2. PICK v \in 1..L : v = Level(k)
    BY <1>1
  <1>3. Span(v, i) \subseteq Leaves
    BY <1>2, SpanInLeaves
  <1>4. PICK z \in Nat, a \in Nat : /\ z = 2^(v - 1) /\ z >= 1 /\ a = i * z
                                  /\ Span(v, i) = a..((a + z) - 1)
    <2>1. v \in Nat /\ v >= 1
      OBVIOUS
    <2> QED BY <2>1, SpanIs, Zenon
  <1>5. Cluster(k, i) = {TheLeaf(a + j) : j \in 0..(z - 1)}
    <2>1. Size(k) = z
      BY <1>2, <1>4, Zenon DEF Size
    <2> QED BY <2>1, <1>4, Zenon DEF Cluster
  <1>6. Leaves \subseteq Nat
    BY DEF Leaves
  <1>7. ASSUME NEW l \in Leaves PROVE TheLeaf(l) \in Cluster(k, i) <=> l \in Span(v, i)
    <2>1. l \in Nat
      BY <1>6
    <2>2. ASSUME TheLeaf(l) \in Cluster(k, i) PROVE l \in Span(v, i)
      <3>1. PICK j \in 0..(z - 1) : TheLeaf(l) = TheLeaf(a + j)
        BY <2>2, <1>5, Zenon
      <3>2. a + j \in Nat /\ a + j \in a..((a + z) - 1)
        BY ONLY j \in 0..(z - 1), a \in Nat, z \in Nat, SMT
      <3>3. l = a + j
        BY <2>1, <3>1, <3>2, LeafInjective
      <3> QED BY <3>2, <3>3, <1>4, Zenon
    <2>3. ASSUME l \in Span(v, i) PROVE TheLeaf(l) \in Cluster(k, i)
      <3>1. l \in a..((a + z) - 1)
        BY <2>3, <1>4, Zenon
      <3>2. l - a \in 0..(z - 1) /\ a + (l - a) = l
        BY ONLY <3>1, a \in Nat, z \in Nat, SMT
      <3>3. TheLeaf(l) = TheLeaf(a + (l - a))
        BY <3>2, Zenon
      <3> QED BY <3>2, <3>3, <1>5, Zenon
    <2> QED BY <2>2, <2>3
  <1>8. Numbers(b) = {l \in Leaves : TheLeaf(l) \in Cluster(k, i)}
    BY Zenon DEF Numbers
  <1>9. \A l : l \in Numbers(b) <=> l \in Span(v, i)
    BY <1>3, <1>7, <1>8, Zenon
  <1> QED BY <1>2, <1>9, Zenon

(* Stage 5 has been given its block and has not made it yet.               *)
Pending == status[5] /\ (start_pulse \/ ~done[5])

(* The blocks that stage 5 has made, by level.                             *)
Built(c) == [k \in 1..job.level |-> c[k] - Num(Pending /\ n[5] = k)]

(* Where block i of level k is: in a stage, in the reduce buffer as the    *)
(* left half of what stage 5 packs, or there waiting for its sibling.      *)
Shown(c, k, i) ==
  \/ \E s \in 5..9 : /\ status[s] /\ k = n[s] /\ i = Index(c, s)
                     /\ s = 5 => ~Pending
                     /\ s = 9 => ~Packing \/ Pending
  \/ Packing /\ Pending /\ k = n[9] /\ i = Sibling(c)
  \/ k \in 1..(job.level - 1) /\ rb_status[k] /\ n[9] # k /\ i = 2 * c[k + 1]

(* The registers of the tree.                                              *)
LEMMA TreeRegisters ==
  ASSUME Registers
  PROVE  /\ job \in Jobs /\ MaxN \in Nat /\ job.level \in 1..MaxN
         /\ \A s \in 5..9 : n[s] \in 0..MaxN
         /\ \A k \in 0..MaxN : rb_status[k] \in BOOLEAN
         /\ status \in [Stages -> BOOLEAN] /\ done \in [Signals -> BOOLEAN]
         /\ start_pulse \in BOOLEAN /\ stall \in BOOLEAN /\ reduce_trace \in BOOLEAN
  <1>1. job \in Jobs /\ n \in [5..9 -> 0..MaxN] /\ rb_status \in [0..MaxN -> BOOLEAN]
    BY DEF Registers
  <1>2. MaxN \in Nat /\ job.level \in 1..MaxN
    BY <1>1, JobFacts
  <1>3. /\ status \in [Stages -> BOOLEAN] /\ done \in [Signals -> BOOLEAN]
        /\ start_pulse \in BOOLEAN /\ stall \in BOOLEAN /\ reduce_trace \in BOOLEAN
    BY DEF Registers
  <1> QED BY <1>1, <1>2, <1>3

(* Stage 5 packs two blocks of level k exactly when it makes one of the    *)
(* level above that is still part of the tree.                             *)
LEMMA PackingIs ==
  ASSUME Registers, Levels, StageModes, NEW k \in 1..(job.level - 1)
  PROVE  /\ Pending /\ n[5] = k + 1 => Packing /\ n[9] = k
         /\ Packing => n[5] = n[9] + 1 /\ n[9] \in 1..(job.level - 1) /\ ~rb_status[n[9]]
         /\ Packing /\ n[9] = k => ~rb_status[k] /\ n[5] = k + 1
         /\ n[9] = k => (stall <=> ~rb_status[k])
         /\ Packing <=> stall
  <1>1. /\ MaxN \in Nat /\ job.level \in 1..MaxN /\ n[5] \in 0..MaxN /\ n[9] \in 0..MaxN
        /\ stall \in BOOLEAN
    BY TreeRegisters
  <1>2. status[5] <=> n[5] # 0
    BY DEF Levels
  <1>3. /\ stall => ~reduce_trace /\ n[9] # 0 /\ n[5] = n[9] + 1 /\ n[5] <= job.level
        /\ status[5] /\ ~stall /\ ~reduce_trace => n[5] = 1
        /\ status[5] /\ reduce_trace => n[5] = n[9] + 1 /\ n[9] >= job.level
        /\ n[9] \in 1..(job.level - 1) => (stall <=> ~rb_status[n[9]])
    BY Zenon DEF StageModes
  <1>4. Packing <=> stall
    BY <1>1, <1>2, <1>3 DEF Packing
  <1>5. stall => n[9] \in 1..(job.level - 1)
    BY <1>1, <1>3
  <1>6. Pending /\ n[5] = k + 1 => stall
    BY <1>1, <1>3 DEF Pending
  <1>7. stall /\ n[5] = k + 1 => n[9] = k
    BY <1>1, <1>3
  <1>8. n[9] = k => (stall <=> ~rb_status[k])
    BY <1>3, Zenon
  <1>9. stall => n[5] = n[9] + 1 /\ ~rb_status[n[9]]
    BY <1>3, <1>5, Zenon
  <1> QED BY <1>4, <1>5, <1>6, <1>7, <1>8, <1>9, Zenon

(* A bit as a number.                                                      *)
LEMMA BitFacts ==
  /\ \A a \in BOOLEAN : Num(a) \in {0, 1} /\ (Num(a) = 1 <=> a)
  /\ \A a, b : Same(a, b) \in {0, 1} /\ (Same(a, b) = 1 <=> a = b)
  BY DEF Num, Same

(* Below the last level, a block is shown exactly where one stands.        *)
LEMMA ShownBelow ==
  ASSUME Registers, Levels, StageModes, NEW L \in Nat, L = job.level,
         NEW c \in [1..L -> Nat], Tally(c), NEW k \in 1..(L - 1), NEW i
  PROVE  Shown(c, k, i) <=> i \in Lowest(L, Built(c), k)..(Built(c)[k] - 1)
  <1>1. /\ k \in Nat /\ k >= 1 /\ k # L /\ k < L /\ k \in 1..L /\ k + 1 \in 1..L
        /\ k # 0 /\ k # k + 1
    BY ONLY k \in 1..(L - 1), L \in Nat, SMT
  <1> DEFINE u5 == Same(n[5], k)
             u6 == Same(n[6], k)
             u7 == Same(n[7], k)
             u8 == Same(n[8], k)
             r == Num(rb_status[k])
             p == Num(Pending /\ n[5] = k)
             p2 == Num(Pending /\ n[5] = k + 1)
             x == c[k]
             y == c[k + 1]
  <1>2. /\ x \in Nat /\ y \in Nat
        /\ x = ((((u5 + u6) + u7) + u8) + r) + 2 * y
    <2>1. c[k] = (InFlight(k) + Num(rb_status[k])) + 2 * c[k + 1]
      BY <1>1, Zenon DEF Tally
    <2>2. c[k] \in Nat /\ c[k + 1] \in Nat
      BY <1>1
    <2> QED BY <2>1, <2>2, Zenon DEF InFlight
  <1>3. Built(c)[k] = x - p /\ Lowest(L, Built(c), k) = 2 * (y - p2)
    <2>1. \A m \in 1..L : Built(c)[m] = c[m] - Num(Pending /\ n[5] = m)
      BY Zenon DEF Built
    <2>2. Lowest(L, Built(c), k) = 2 * Built(c)[k + 1]
      BY <1>1, Zenon DEF Lowest
    <2> QED BY <2>1, <2>2, <1>1, Zenon
  <1>4. /\ u5 \in {0, 1} /\ u6 \in {0, 1} /\ u7 \in {0, 1} /\ u8 \in {0, 1} /\ r \in {0, 1}
        /\ p \in {0, 1} /\ p2 \in {0, 1}
        /\ (u5 = 1 <=> n[5] = k) /\ (u6 = 1 <=> n[6] = k) /\ (u7 = 1 <=> n[7] = k)
        /\ (u8 = 1 <=> n[8] = k) /\ (r = 1 <=> rb_status[k])
        /\ (p = 1 <=> Pending /\ n[5] = k) /\ (p2 = 1 <=> Pending /\ n[5] = k + 1)
    <2>1. /\ u5 \in {0, 1} /\ u6 \in {0, 1} /\ u7 \in {0, 1} /\ u8 \in {0, 1}
          /\ (u5 = 1 <=> n[5] = k) /\ (u6 = 1 <=> n[6] = k) /\ (u7 = 1 <=> n[7] = k)
          /\ (u8 = 1 <=> n[8] = k)
      BY BitFacts, Zenon
    <2>2. r \in {0, 1} /\ (r = 1 <=> rb_status[k])
      BY DEF Num
    <2>3. p \in {0, 1} /\ (p = 1 <=> Pending /\ n[5] = k)
      BY DEF Num
    <2>4. p2 \in {0, 1} /\ (p2 = 1 <=> Pending /\ n[5] = k + 1)
      BY DEF Num
    <2> QED BY <2>1, <2>2, <2>3, <2>4, Zenon
  <1>5. \A s \in 5..9 : status[s] <=> n[s] # 0
    BY Zenon DEF Levels
  <1>6. /\ Pending /\ n[5] = k + 1 => Packing /\ n[9] = k
        /\ Packing /\ n[9] = k => ~rb_status[k] /\ n[5] = k + 1
        /\ n[9] = k => (stall <=> ~rb_status[k])
        /\ Packing <=> stall
    <2>1. k \in 1..(job.level - 1)
      BY Zenon
    <2> QED BY <2>1, PackingIs
  <1>7. /\ n[5] = k => Index(c, 5) = x - 1
        /\ n[6] = k => Index(c, 6) = (x - 1) - u5
        /\ n[7] = k => Index(c, 7) = (x - 1) - (u5 + u6)
        /\ n[8] = k => Index(c, 8) = (x - 1) - ((u5 + u6) + u7)
        /\ n[9] = k => Index(c, 9) = (x - 1) - (((u5 + u6) + u7) + u8)
    <2>1. \A s : n[s] = k => Index(c, s) = (c[k] - 1) - Behind(s, k)
      <3>1. k < job.level
        BY <1>1, Zenon
      <3> QED BY <3>1, Zenon DEF Index
    <2>2. /\ Behind(5, k) = 0 /\ Behind(6, k) = u5 /\ Behind(7, k) = u5 + u6
          /\ Behind(8, k) = (u5 + u6) + u7 /\ Behind(9, k) = ((u5 + u6) + u7) + u8
      BY DEF Behind, InFlight
    <2>3. n[5] = k => Index(c, 5) = (x - 1) - 0
      BY <2>1, <2>2, Zenon
    <2>4. (x - 1) - 0 = x - 1
      <3> HIDE DEF x
      <3> QED BY <1>2
    <2> QED BY <2>1, <2>2, <2>3, <2>4, Zenon
  <1>8. p <= u5
    <2> HIDE DEF p, u5
    <2> QED BY ONLY <1>4
  <1> HIDE DEF u5, u6, u7, u8, r, p, p2, x, y
  <1>9. n[9] = k => Index(c, 9) = (r + 2 * y) - 1
    <2>1. (x - 1) - (((u5 + u6) + u7) + u8) = (r + 2 * y) - 1
      BY ONLY <1>2, <1>4, SMT
    <2> QED BY <2>1, <1>7, Zenon
  <1> DEFINE D5 == u5 = 1 /\ p = 0 /\ i = x - 1
             D6 == u6 = 1 /\ i = (x - 1) - u5
             D7 == u7 = 1 /\ i = (x - 1) - (u5 + u6)
             D8 == u8 = 1 /\ i = (x - 1) - ((u5 + u6) + u7)
             DR == r = 1 /\ i = 2 * y
             DA == p2 = 1 /\ i = 2 * y - 1
             DB == p2 = 1 /\ i = 2 * y - 2
             E(s) == /\ status[s] /\ k = n[s] /\ i = Index(c, s)
                     /\ s = 5 => ~Pending
                     /\ s = 9 => ~Packing \/ Pending
             EB == Packing /\ Pending /\ k = n[9] /\ i = Sibling(c)
             EW == k \in 1..(job.level - 1) /\ rb_status[k] /\ n[9] # k /\ i = 2 * c[k + 1]
  <1>10. i \in (2 * (y - p2))..((x - p) - 1) <=>
           D5 \/ D6 \/ D7 \/ D8 \/ DR \/ DA \/ DB
    <2>1. /\ u5 \in {0, 1} /\ u6 \in {0, 1} /\ u7 \in {0, 1} /\ u8 \in {0, 1}
          /\ r \in {0, 1} /\ p \in {0, 1} /\ p2 \in {0, 1} /\ x \in Nat /\ y \in Nat
          /\ x = ((((u5 + u6) + u7) + u8) + r) + 2 * y /\ p <= u5
      BY <1>2, <1>4, <1>8, Zenon
    <2>2. i \in (2 * (y - p2))..((x - p) - 1) => D5 \/ D6 \/ D7 \/ D8 \/ DR \/ DA \/ DB
      BY ONLY <2>1, SMT
    <2>3. ASSUME D5 \/ D6 \/ D7 \/ D8 \/ DR \/ DA \/ DB
          PROVE  i \in (2 * (y - p2))..((x - p) - 1)
      BY ONLY <2>1, <2>3, SMT
    <2> QED BY <2>2, <2>3
  <1>11. E(5) <=> D5
    <2>1. p = 0 <=> ~(Pending /\ n[5] = k)
      BY <1>4
    <2>2. 5 \in 5..9 /\ 5 # 9
      OBVIOUS
    <2>3. status[5] <=> n[5] # 0
      BY <2>2, <1>5, Zenon
    <2> QED BY <2>1, <2>2, <2>3, <1>1, <1>4, <1>7, Zenon
  <1>12. (E(6) <=> D6) /\ (E(7) <=> D7) /\ (E(8) <=> D8)
    <2>1. 6 # 5 /\ 6 # 9 /\ 7 # 5 /\ 7 # 9 /\ 8 # 5 /\ 8 # 9 /\ 6 \in 5..9 /\ 7 \in 5..9 /\ 8 \in 5..9
      OBVIOUS
    <2>2. status[6] <=> n[6] # 0
      BY <1>5, <2>1, Zenon
    <2>3. status[7] <=> n[7] # 0
      BY <1>5, <2>1, Zenon
    <2>4. status[8] <=> n[8] # 0
      BY <1>5, <2>1, Zenon
    <2>5. E(6) <=> D6
      BY <2>1, <2>2, <1>1, <1>4, <1>7, Zenon
    <2>6. E(7) <=> D7
      BY <2>1, <2>3, <1>1, <1>4, <1>7, Zenon
    <2>7. E(8) <=> D8
      BY <2>1, <2>4, <1>1, <1>4, <1>7, Zenon
    <2> QED BY <2>5, <2>6, <2>7
  <1>13. E(9) => DR \/ DA
    <2> SUFFICES ASSUME E(9) PROVE DR \/ DA
      OBVIOUS
    <2>1. n[9] = k /\ i = (r + 2 * y) - 1 /\ (~Packing \/ Pending)
      BY <1>9, Zenon
    <2>2. CASE r = 1
      <3>1. i = 2 * y
        BY ONLY <2>1, <2>2, <1>2, SMT
      <3> QED BY <3>1, <2>2, Zenon
    <2>3. CASE r # 1
      <3>1. Packing
        BY <2>1, <2>3, <1>4, <1>6, Zenon
      <3>2. p2 = 1
        BY <3>1, <2>1, <1>4, <1>6, Zenon
      <3>3. i = 2 * y - 1
        BY ONLY <2>1, <2>3, <1>2, <1>4, SMT
      <3> QED BY <3>2, <3>3, Zenon
    <2> QED BY <2>2, <2>3
  <1>14. EB => DB
    <2> SUFFICES ASSUME EB PROVE DB
      OBVIOUS
    <2>1. n[9] = k /\ i = ((r + 2 * y) - 1) - 1 /\ Packing /\ Pending
      BY <1>9, Zenon DEF Sibling
    <2>2. r # 1 /\ p2 = 1
      BY <2>1, <1>4, <1>6, Zenon
    <2>3. i = 2 * y - 2
      BY ONLY <2>1, <2>2, <1>2, <1>4, SMT
    <2> QED BY <2>2, <2>3, Zenon
  <1>15. EW => DR
    BY <1>4, Zenon DEF y
  <1>16. DR => E(9) \/ EW
    <2> SUFFICES ASSUME DR PROVE E(9) \/ EW
      OBVIOUS
    <2>1. rb_status[k] /\ i = 2 * y
      BY <1>4, Zenon
    <2>2. CASE n[9] = k
      <3>1. i = (r + 2 * y) - 1
        <4>1. r = 1
          BY Zenon
        <4> QED BY ONLY <2>1, <4>1, <1>2, SMT
      <3>2. ~Packing
        BY <2>1, <2>2, <1>6, Zenon
      <3>3. 9 \in 5..9 /\ 9 # 5
        OBVIOUS
      <3>4. status[9]
        BY <2>2, <3>3, <1>1, <1>5, Zenon
      <3> QED BY <3>1, <3>2, <3>3, <3>4, <2>2, <1>9, Zenon
    <2>3. CASE n[9] # k
      <3>1. k \in 1..(job.level - 1)
        BY Zenon
      <3> QED BY <3>1, <2>1, <2>3, Zenon DEF y
    <2> QED BY <2>2, <2>3
  <1>17. DA \/ DB => E(9) \/ EB
    <2> SUFFICES ASSUME DA \/ DB PROVE E(9) \/ EB
      OBVIOUS
    <2>1. Pending /\ Packing /\ n[9] = k /\ ~rb_status[k]
      BY <1>4, <1>6, Zenon
    <2>2. r = 0
      BY <2>1, <1>4
    <2>3. Index(c, 9) = 2 * y - 1
      <3>1. (r + 2 * y) - 1 = 2 * y - 1
        BY ONLY <2>2, <1>2, SMT
      <3> QED BY <3>1, <2>1, <1>9, Zenon
    <2>4. Sibling(c) = 2 * y - 2
      <3>1. (2 * y - 1) - 1 = 2 * y - 2
        BY ONLY <1>2, SMT
      <3> QED BY <3>1, <2>3, Zenon DEF Sibling
    <2>5. 9 \in 5..9 /\ 9 # 5
      OBVIOUS
    <2>6. status[9]
      BY <2>1, <2>5, <1>1, <1>5, Zenon
    <2> QED BY <2>1, <2>3, <2>4, <2>5, <2>6, Zenon
  <1>18. Shown(c, k, i) <=> E(5) \/ E(6) \/ E(7) \/ E(8) \/ E(9) \/ EB \/ EW
    <2>1. Shown(c, k, i) <=> (\E s \in 5..9 : E(s)) \/ EB \/ EW
      BY Zenon DEF Shown
    <2>2. 5..9 = {5, 6, 7, 8, 9}
      OBVIOUS
    <2> HIDE DEF E, EB, EW
    <2>3. (\E s \in 5..9 : E(s)) <=> E(5) \/ E(6) \/ E(7) \/ E(8) \/ E(9)
      BY <2>2, Zenon
    <2> QED BY <2>1, <2>3, Zenon
  <1> HIDE DEF D5, D6, D7, D8, DR, DA, DB, E, EB, EW
  <1> QED BY <1>3, <1>10, <1>11, <1>12, <1>13, <1>14, <1>15, <1>16, <1>17, <1>18, Zenon

(* The blocks made add up like the blocks begun.                           *)
LEMMA BuiltRight ==
  ASSUME Registers, NEW L \in Nat, L = job.level, L >= 1, NEW c \in [1..L -> Nat], Tally(c)
  PROVE  /\ Built(c) \in [1..L -> Nat] /\ Paired(L, Built(c))
         /\ \A k \in 1..L : /\ Built(c)[k] = c[k] - Num(Pending /\ n[5] = k)
                            /\ Built(c)[k] <= c[k]
  <1>1. \A k \in 1..L : Built(c)[k] = c[k] - Num(Pending /\ n[5] = k)
    BY Zenon DEF Built
  <1>2. ASSUME NEW k \in 1..L
        PROVE  /\ Num(Pending /\ n[5] = k) \in {0, 1}
               /\ Num(Pending /\ n[5] = k) = 1 => n[5] = k
    BY DEF Num
  <1>3. ASSUME NEW k \in 1..(L - 1)
        PROVE  /\ c[k] >= Num(Pending /\ n[5] = k) + 2 * c[k + 1]
               /\ k \in 1..L /\ k + 1 \in 1..L
    <2>1. k \in 1..L /\ k + 1 \in 1..L /\ c[k + 1] \in Nat /\ c[k] \in Nat
      OBVIOUS
    <2>2. c[k] = (InFlight(k) + Num(rb_status[k])) + 2 * c[k + 1]
      BY Zenon DEF Tally
    <2> DEFINE p == Num(Pending /\ n[5] = k)
               r == Num(rb_status[k])
               f == InFlight(k)
               x == c[k]
               y == c[k + 1]
    <2>3. f \in Nat /\ (n[5] = k => f >= 1)
      BY DEF InFlight, Same
    <2>4. r \in {0, 1}
      BY DEF Num
    <2>5. p \in {0, 1} /\ (p = 1 => n[5] = k)
      BY <1>2, <2>1
    <2>6. x = (f + r) + 2 * y /\ x \in Nat /\ y \in Nat
      BY <2>1, <2>2
    <2> HIDE DEF p, r, f, x, y
    <2>7. x >= p + 2 * y
      BY ONLY <2>3, <2>4, <2>5, <2>6, SMT
    <2> QED BY <2>1, <2>7 DEF p, x, y
  <1>4. Num(Pending /\ n[5] = L) <= c[L]
    <2>1. L \in 1..L /\ c[L] \in Nat
      OBVIOUS
    <2>2. c[L] = 0 => n[5] < L
      <3>1. 5 \in 5..9
        OBVIOUS
      <3> QED BY <3>1, Zenon DEF Tally
    <2>3. c[L] = 0 => n[5] # L
      BY <2>2
    <2>4. /\ Num(Pending /\ n[5] = L) \in {0, 1}
          /\ Num(Pending /\ n[5] = L) = 1 => n[5] = L
      BY <2>1, <1>2
    <2> DEFINE p == Num(Pending /\ n[5] = L)
               x == c[L]
    <2>5. p \in {0, 1} /\ (p = 1 => x # 0) /\ x \in Nat
      BY <2>1, <2>3, <2>4
    <2> HIDE DEF p, x
    <2>6. p <= x
      BY ONLY <2>5, SMT
    <2> QED BY <2>6 DEF p, x
  <1>5. ASSUME NEW k \in 1..L PROVE Built(c)[k] \in Nat /\ Built(c)[k] <= c[k]
    <2> DEFINE p == Num(Pending /\ n[5] = k)
               x == c[k]
               y == Built(c)[k]
    <2>1. y = x - p /\ p \in {0, 1} /\ x \in Nat
      BY <1>1, <1>2
    <2>2. p <= x
      <3>1. CASE k = L
        BY <3>1, <1>4
      <3>2. CASE k # L
        <4>1. k \in 1..(L - 1) /\ k + 1 \in 1..L
          BY <3>2
        <4>2. c[k + 1] \in Nat
          BY <4>1
        <4> DEFINE z == c[k + 1]
        <4>3. x >= p + 2 * z /\ z \in Nat
          BY <4>1, <4>2, <1>3
        <4> HIDE DEF p, x, y, z
        <4> QED BY ONLY <4>3, <2>1, SMT
      <3> QED BY <3>1, <3>2
    <2> HIDE DEF p, x, y
    <2>3. y \in Nat /\ y <= x
      BY ONLY <2>1, <2>2, SMT
    <2> QED BY <2>3 DEF x, y
  <1>6. Built(c) \in [1..L -> Nat]
    <2>1. Built(c) = [k \in 1..L |-> Built(c)[k]]
      BY DEF Built
    <2> QED BY <2>1, <1>5
  <1>7. ASSUME NEW k \in 1..(L - 1) PROVE Built(c)[k] >= 2 * Built(c)[k + 1]
    <2>1. k \in 1..L /\ k + 1 \in 1..L
      BY <1>3
    <2> DEFINE p == Num(Pending /\ n[5] = k)
               x == c[k]
               z == c[k + 1]
               u == Built(c)[k]
               v == Built(c)[k + 1]
    <2>2. x >= p + 2 * z /\ u = x - p /\ v <= z /\ v \in Nat
      BY <2>1, <1>1, <1>3, <1>5
    <2>3. p \in {0, 1} /\ x \in Nat /\ z \in Nat
      BY <2>1, <1>2
    <2> HIDE DEF p, x, z, u, v
    <2>4. u >= 2 * v
      BY ONLY <2>2, <2>3, SMT
    <2> QED BY <2>4 DEF u, v
  <1>8. Paired(L, Built(c))
    BY <1>7, Zenon DEF Paired
  <1> QED BY <1>1, <1>5, <1>6, <1>8, Zenon

(* The root is shown exactly when it stands.                               *)
LEMMA ShownTop ==
  ASSUME Registers, Levels, StageModes, NEW L \in Nat, L = job.level, L >= 1, L <= MaxN,
         NEW c \in [1..L -> Nat], Tally(c), c[L] \in {0, 1}, NEW i
  PROVE  (\E m \in L..MaxN : Shown(c, m, i)) <=> i \in 0..(Built(c)[L] - 1)
  <1>1. MaxN \in Nat /\ \A s \in 5..9 : n[s] \in Nat /\ n[s] <= MaxN
    <2>1. MaxN \in Nat /\ \A s \in 5..9 : n[s] \in 0..MaxN
      BY TreeRegisters, Zenon
    <2> QED BY <2>1, SMTT(60)
  <1>2. \A s \in 5..9 : status[s] <=> n[s] # 0
    BY Zenon DEF Levels
  <1>3. /\ c[L] = 0 => \A s \in 5..9 : n[s] < L
        /\ c[L] # 0 => \E s \in 5..9, m \in L..MaxN : Root(s, m)
    BY Zenon DEF Tally
  <1>4. Built(c)[L] = c[L] - Num(Pending /\ n[5] = L)
    <2>1. L \in 1..L
      OBVIOUS
    <2> QED BY <2>1, BuiltRight, Zenon
  <1>5. c[L] = 1 /\ ~(Pending /\ n[5] = L) => 0..(Built(c)[L] - 1) = {0}
    <2> SUFFICES ASSUME c[L] = 1, ~(Pending /\ n[5] = L) PROVE Built(c)[L] = 1
      OBVIOUS
    <2>1. Num(Pending /\ n[5] = L) = 0
      BY DEF Num
    <2> QED BY <2>1, <1>4
  <1>6. ~(c[L] = 1 /\ ~(Pending /\ n[5] = L)) => 0..(Built(c)[L] - 1) = {}
    <2>1. c[L] = 0 => ~(Pending /\ n[5] = L)
      <3>1. c[L] = 0 => n[5] < L
        BY <1>3
      <3> QED BY <3>1, <1>1
    <2>2. CASE c[L] = 0
      <3>1. Num(Pending /\ n[5] = L) = 0
        BY <2>1, <2>2 DEF Num
      <3>2. Built(c)[L] = 0
        BY <3>1, <2>2, <1>4
      <3> QED BY <3>2, <2>2
    <2>3. CASE c[L] = 1 /\ Pending /\ n[5] = L
      <3>1. Num(Pending /\ n[5] = L) = 1
        BY <2>3 DEF Num
      <3>2. Built(c)[L] = 0
        BY <3>1, <2>3, <1>4
      <3> QED BY <3>2
    <2>4. CASE c[L] = 1 /\ ~(Pending /\ n[5] = L)
      BY <2>4
    <2> QED BY <2>2, <2>3, <2>4
  <1>7. \A s \in 5..9 : n[s] >= L => Index(c, s) = 0
    BY <1>1, SMTT(60) DEF Index
  <1>8. stall => n[9] < L
    <2>1. stall => n[5] = n[9] + 1 /\ n[5] <= L
      BY Zenon DEF StageModes
    <2>2. 5 \in 5..9 /\ 9 \in 5..9
      OBVIOUS
    <2>3. n[5] \in Nat /\ n[9] \in Nat
      BY <2>2, <1>1
    <2> QED BY <2>1, <2>3
  <1>9. ASSUME NEW t \in 5..9, NEW w \in L..MaxN, Root(t, w)
        PROVE  /\ n[t] = w /\ w \in Nat /\ w >= L
               /\ t # 5 => n[5] = 0
               /\ t = 5 => n[9] = w - 1 /\ n[6] = 0 /\ n[7] = 0 /\ n[8] = 0
    <2>1. n[t] = w /\ \A s \in (5..9) \ {t} : n[s] = IF t = 5 /\ s = 9 THEN w - 1 ELSE 0
      BY <1>9, Zenon DEF Root
    <2>2. w \in Nat /\ w >= L
      BY <1>1
    <2>3. t # 5 => n[5] = 0
      <3>1. t # 5 => 5 \in (5..9) \ {t} /\ ~(t = 5 /\ 5 = 9)
        OBVIOUS
      <3> QED BY <2>1, <3>1, Zenon
    <2>4. t = 5 => n[9] = w - 1 /\ n[6] = 0 /\ n[7] = 0 /\ n[8] = 0
      <3> SUFFICES ASSUME t = 5 PROVE n[9] = w - 1 /\ n[6] = 0 /\ n[7] = 0 /\ n[8] = 0
        OBVIOUS
      <3>1. /\ 9 \in (5..9) \ {t} /\ 6 \in (5..9) \ {t} /\ 7 \in (5..9) \ {t}
            /\ 8 \in (5..9) \ {t} /\ 6 # 9 /\ 7 # 9 /\ 8 # 9
        OBVIOUS
      <3> QED BY <2>1, <3>1, Zenon
    <2> QED BY <2>1, <2>2, <2>3, <2>4
  <1>10. ASSUME NEW m \in L..MaxN, Shown(c, m, i) PROVE i \in 0..(Built(c)[L] - 1)
    <2>1. ~(Packing /\ m = n[9])
      <3>1. Packing => stall
        BY Zenon DEF Packing
      <3>2. m \in Nat /\ m >= L
        BY <1>1
      <3>3. 9 \in 5..9
        OBVIOUS
      <3>4. n[9] \in Nat
        BY <3>3, <1>1
      <3> QED BY <3>1, <3>2, <3>4, <1>8
    <2>2. m \notin 1..(job.level - 1)
      BY <1>1
    <2>3. PICK s \in 5..9 : /\ status[s] /\ m = n[s] /\ i = Index(c, s)
                            /\ s = 5 => ~Pending
      BY <1>10, <2>1, <2>2, Zenon DEF Shown
    <2>4. n[s] >= L /\ n[s] \in Nat
      BY <2>3, <1>1
    <2>5. c[L] = 1
      BY <2>4, <1>3
    <2>6. PICK t \in 5..9, w \in L..MaxN : Root(t, w)
      BY <2>5, <1>3
    <2>7. ~(Pending /\ n[5] = L)
      <3> SUFFICES ASSUME Pending, n[5] = L PROVE FALSE
        OBVIOUS
      <3>1. t = 5 /\ w = L
        BY <2>6, <1>9
      <3>2. n[9] = L - 1 /\ n[6] = 0 /\ n[7] = 0 /\ n[8] = 0
        BY <2>6, <3>1, <1>9
      <3>3. s = 5 \/ s = 6 \/ s = 7 \/ s = 8 \/ s = 9
        OBVIOUS
      <3>4. s # 5
        BY <2>3
      <3> QED BY <3>2, <3>3, <3>4, <2>4
    <2>8. i = 0
      BY <2>3, <2>4, <1>7
    <2> QED BY <2>5, <2>7, <2>8, <1>5
  <1>11. ASSUME i \in 0..(Built(c)[L] - 1) PROVE \E m \in L..MaxN : Shown(c, m, i)
    <2>1. c[L] = 1 /\ ~(Pending /\ n[5] = L)
      BY <1>6, <1>11, Zenon
    <2>2. i = 0
      BY <2>1, <1>5, <1>11, Zenon
    <2>3. PICK t \in 5..9, w \in L..MaxN : Root(t, w)
      BY <2>1, <1>3
    <2>4. /\ n[t] = w /\ w \in Nat /\ w >= L
          /\ t # 5 => n[5] = 0
          /\ t = 5 => n[9] = w - 1
      BY <2>3, <1>9
    <2>5. ASSUME NEW s \in 5..9, n[s] >= L, s = 5 => ~Pending, s = 9 => ~Packing \/ Pending
          PROVE  \E m \in L..MaxN : Shown(c, m, i)
      <3>1. n[s] \in L..MaxN /\ status[s]
        BY <2>5, <1>1, <1>2, SMTT(60)
      <3>2. i = Index(c, s)
        BY <2>2, <2>5, <1>7, Zenon
      <3>3. Shown(c, n[s], i)
        BY <3>1, <3>2, <2>5, Zenon DEF Shown
      <3> QED BY <3>1, <3>3, Zenon
    <2>6. n[t] >= L
      BY <2>4
    <2>7. CASE t = 5 /\ Pending
      <3>1. n[9] >= L
        BY <2>1, <2>4, <2>7
      <3>2. 9 \in 5..9 /\ 9 # 5
        OBVIOUS
      <3> QED BY <3>1, <3>2, <2>5, <2>7, Zenon
    <2>8. CASE t = 5 /\ ~Pending
      <3>1. 5 # 9
        OBVIOUS
      <3> QED BY <3>1, <2>5, <2>6, <2>8, Zenon
    <2>9. CASE t # 5
      <3>1. ~Packing
        <4>1. 5 \in 5..9
          OBVIOUS
        <4>2. ~status[5]
          BY <4>1, <2>4, <2>9, <1>2, Zenon
        <4> QED BY <4>2, Zenon DEF Packing
      <3> QED BY <3>1, <2>5, <2>6, <2>9, Zenon
    <2> QED BY <2>7, <2>8, <2>9, Zenon
  <1> QED BY <1>10, <1>11, Zenon

(* The blocks of a run that are somewhere in the pipeline.                 *)
Blocks == InStage5 \cup InStages6To9 \cup Waiting

(* The leaves of a block that a stage holds.                               *)
LEMMA StageLeaves ==
  ASSUME NEW c, StagesRight(c)
  PROVE  /\ status[5] /\ done[5] /\ ~start_pulse => pp1.a.leaves = Cluster(n[5], Index(c, 5))
         /\ \A s \in 6..9 : status[s] => Held(s).leaves = Cluster(n[s], Index(c, s))
  <1>1. ASSUME NEW k, NEW i, NEW t, NEW b, b = Made(k, i, t) \/ b = Open(k, i, t)
        PROVE  b.leaves = Cluster(k, i)
    BY <1>1 DEF Made, Open, Block
  <1>2. status[5] /\ done[5] /\ ~start_pulse => pp1.a.leaves = Cluster(n[5], Index(c, 5))
    <2>1. status[5] /\ done[5] /\ ~start_pulse => pp1.a = Open(n[5], Index(c, 5), 0)
      BY Zenon DEF StagesRight
    <2> QED BY <2>1, <1>1
  <1>3. status[6] => Held(6).leaves = Cluster(n[6], Index(c, 6))
    <2>1. status[6] => Held(6) = Open(n[6], Index(c, 6), Step(6))
      BY Zenon DEF StagesRight
    <2> QED BY <2>1, <1>1
  <1>4. status[7] => Held(7).leaves = Cluster(n[7], Index(c, 7))
    <2>1. status[7] => Held(7) = Open(n[7], Index(c, 7), 1)
      BY Zenon DEF StagesRight
    <2> QED BY <2>1, <1>1
  <1>5. status[8] => Held(8).leaves = Cluster(n[8], Index(c, 8))
    <2>1. status[8] => Held(8) = Made(n[8], Index(c, 8), 2 + Step(8))
      BY Zenon DEF StagesRight
    <2> QED BY <2>1, <1>1
  <1>6. status[9] => Held(9).leaves = Cluster(n[9], Index(c, 9))
    <2>1. status[9] => Held(9) = Made(n[9], Index(c, 9), 3)
      BY Zenon DEF StagesRight
    <2> QED BY <2>1, <1>1
  <1>7. ASSUME NEW s \in 6..9, status[s] PROVE Held(s).leaves = Cluster(n[s], Index(c, s))
    <2>1. s = 6 \/ s = 7 \/ s = 8 \/ s = 9
      OBVIOUS
    <2> QED BY <2>1, <1>3, <1>4, <1>5, <1>6, <1>7, Zenon
  <1> QED BY <1>2, <1>7

(* The leaves of a block in the reduce buffer.                             *)
LEMMA RedbufLeaves ==
  ASSUME NEW c, RedbufRight(c)
  PROVE  /\ stall => redbuf[n[9] - 1].leaves = Cluster(n[9], Sibling(c))
         /\ \A k \in 1..(job.level - 1) : rb_status[k] /\ n[9] # k =>
              redbuf[k - 1].leaves = Cluster(k, 2 * c[k + 1])
  <1>1. ASSUME NEW k, NEW i, NEW t, NEW b, b = Made(k, i, t) PROVE b.leaves = Cluster(k, i)
    BY <1>1 DEF Made, Block
  <1>2. stall => redbuf[n[9] - 1].leaves = Cluster(n[9], Sibling(c))
    <2>1. stall => redbuf[n[9] - 1] = Made(n[9], Sibling(c), 3)
      BY Zenon DEF RedbufRight
    <2> QED BY <2>1, <1>1
  <1>3. ASSUME NEW k \in 1..(job.level - 1), rb_status[k], n[9] # k
        PROVE  redbuf[k - 1].leaves = Cluster(k, 2 * c[k + 1])
    <2>1. redbuf[k - 1] = Made(k, 2 * c[k + 1], 3)
      BY <1>3, Zenon DEF RedbufRight
    <2> QED BY <2>1, <1>1
  <1> QED BY <1>2, <1>3

(* Every block in the pipeline is one that is shown.                       *)
LEMMA BlockShown ==
  ASSUME Registers, Levels, StageModes, NEW c, StagesRight(c), RedbufRight(c),
         NEW b \in Blocks
  PROVE  \E k \in 1..MaxN : \E i : Shown(c, k, i) /\ b.leaves = Cluster(k, i)
  <1>1. /\ status[5] /\ done[5] /\ ~start_pulse => pp1.a.leaves = Cluster(n[5], Index(c, 5))
        /\ \A s \in 6..9 : status[s] => Held(s).leaves = Cluster(n[s], Index(c, s))
    BY StageLeaves
  <1>2. /\ stall => redbuf[n[9] - 1].leaves = Cluster(n[9], Sibling(c))
        /\ \A k \in 1..(job.level - 1) : rb_status[k] /\ n[9] # k =>
              redbuf[k - 1].leaves = Cluster(k, 2 * c[k + 1])
    BY RedbufLeaves
  <1>3. \A s \in 5..9 : status[s] <=> n[s] # 0
    BY Zenon DEF Levels
  <1>4. MaxN \in Nat /\ job.level \in 1..MaxN /\ \A s \in 5..9 : n[s] \in 0..MaxN
    BY TreeRegisters, Zenon
  <1>5. \A s \in 5..9 : status[s] => n[s] \in 1..MaxN
    BY <1>3, <1>4
  <1>6. 5 \in 5..9 /\ 9 \in 5..9 /\ 5 # 9
    OBVIOUS
  <1>7. CASE b \in InStage5
    <2>1. CASE status[5] /\ done[5] /\ ~start_pulse
      <3>1. b = pp1.a
        BY <1>7, <2>1, Zenon DEF InStage5
      <3>2. ~Pending
        BY <2>1, Zenon DEF Pending
      <3>3. Shown(c, n[5], Index(c, 5))
        BY <3>2, <2>1, <1>6, Zenon DEF Shown
      <3> QED BY <3>1, <3>3, <2>1, <1>1, <1>5, <1>6, Zenon
    <2>2. CASE ~(status[5] /\ done[5] /\ ~start_pulse)
      <3>1. Packing /\ b = redbuf[n[9] - 1]
        BY <1>7, <2>2, Zenon DEF InStage5
      <3>2. stall /\ Pending
        BY <2>2, <3>1, Zenon DEF Packing, Pending
      <3>3. Shown(c, n[9], Sibling(c))
        BY <3>1, <3>2, Zenon DEF Shown
      <3>4. n[9] \in 1..MaxN
        <4>1. n[9] # 0
          BY <3>2, Zenon DEF StageModes
        <4> QED BY <4>1, <1>4, <1>6
      <3> QED BY <3>1, <3>2, <3>3, <3>4, <1>2, Zenon
    <2> QED BY <2>1, <2>2
  <1>8. CASE b \in InStages6To9
    <2>1. PICK s \in 6..9 : /\ status[s] /\ b = Held(s)
                            /\ ~(s = 9 /\ Packing /\ done[5] /\ ~start_pulse)
      BY <1>8, Zenon DEF InStages6To9
    <2>2. s \in 5..9 /\ s # 5
      OBVIOUS
    <2>3. s = 9 => ~Packing \/ Pending
      BY <2>1, Zenon DEF Packing, Pending
    <2>4. Shown(c, n[s], Index(c, s))
      BY <2>1, <2>2, <2>3, Zenon DEF Shown
    <2> QED BY <2>1, <2>2, <2>4, <1>1, <1>5, Zenon
  <1>9. CASE b \in Waiting
    <2>1. PICK k \in 1..(job.level - 1) : /\ rb_status[k] /\ ~(status[9] /\ n[9] = k)
                                          /\ b = redbuf[k - 1]
      BY <1>9, Zenon DEF Waiting
    <2>2. k \in 1..MaxN /\ k # 0
      BY <1>4
    <2>3. n[9] # k
      BY <2>1, <2>2, <1>3, <1>6, Zenon
    <2>4. Shown(c, k, 2 * c[k + 1])
      BY <2>1, <2>3, Zenon DEF Shown
    <2> QED BY <2>1, <2>2, <2>3, <2>4, <1>2, Zenon
  <1> QED BY <1>7, <1>8, <1>9, Zenon DEF Blocks

(* Every block that is shown is in the pipeline.                           *)
LEMMA ShownBlock ==
  ASSUME Registers, Levels, NEW c, StagesRight(c), RedbufRight(c), NEW k, NEW i,
         Shown(c, k, i)
  PROVE  \E b \in Blocks : b.leaves = Cluster(k, i)
  <1>1. /\ status[5] /\ done[5] /\ ~start_pulse => pp1.a.leaves = Cluster(n[5], Index(c, 5))
        /\ \A s \in 6..9 : status[s] => Held(s).leaves = Cluster(n[s], Index(c, s))
    BY StageLeaves
  <1>2. /\ stall => redbuf[n[9] - 1].leaves = Cluster(n[9], Sibling(c))
        /\ \A m \in 1..(job.level - 1) : rb_status[m] /\ n[9] # m =>
              redbuf[m - 1].leaves = Cluster(m, 2 * c[m + 1])
    BY RedbufLeaves
  <1>3. CASE \E s \in 5..9 : /\ status[s] /\ k = n[s] /\ i = Index(c, s)
                             /\ s = 5 => ~Pending
                             /\ s = 9 => ~Packing \/ Pending
    <2>1. PICK s \in 5..9 : /\ status[s] /\ k = n[s] /\ i = Index(c, s)
                            /\ s = 5 => ~Pending
                            /\ s = 9 => ~Packing \/ Pending
      BY <1>3
    <2>2. CASE s = 5
      <3>1. status[5] /\ done[5] /\ ~start_pulse
        BY <2>1, <2>2, Zenon DEF Pending
      <3>2. pp1.a \in Blocks
        BY <3>1, Zenon DEF Blocks, InStage5
      <3> QED BY <3>1, <3>2, <2>1, <2>2, <1>1, Zenon
    <2>3. CASE s # 5
      <3>1. s \in 6..9
        BY <2>3
      <3>2. ~(s = 9 /\ Packing /\ done[5] /\ ~start_pulse)
        BY <2>1, Zenon DEF Pending
      <3>3. Held(s) \in InStages6To9
        BY <3>1, <3>2, <2>1, Zenon DEF InStages6To9
      <3>4. Held(s) \in Blocks
        BY <3>3, Zenon DEF Blocks
      <3> QED BY <3>1, <3>4, <2>1, <1>1, Zenon
    <2> QED BY <2>2, <2>3
  <1>4. CASE Packing /\ Pending /\ k = n[9] /\ i = Sibling(c)
    <2>1. redbuf[n[9] - 1] \in InStage5
      BY <1>4, Zenon DEF InStage5, Pending
    <2>2. redbuf[n[9] - 1] \in Blocks
      BY <2>1, Zenon DEF Blocks
    <2>3. stall
      BY <1>4, Zenon DEF Packing
    <2> QED BY <2>2, <2>3, <1>2, <1>4, Zenon
  <1>5. CASE k \in 1..(job.level - 1) /\ rb_status[k] /\ n[9] # k /\ i = 2 * c[k + 1]
    <2>1. redbuf[k - 1] \in Waiting
      BY <1>5, Zenon DEF Waiting
    <2>2. redbuf[k - 1] \in Blocks
      BY <2>1, Zenon DEF Blocks
    <2> QED BY <2>2, <1>2, <1>5, Zenon
  <1> QED BY <1>3, <1>4, <1>5, Zenon DEF Shown

(* Where a block that is shown stands.                                     *)
LEMMA ShownStands ==
  ASSUME Registers, Levels, StageModes, NEW L \in Nat, L = job.level, L >= 1, L <= MaxN,
         NEW c \in [1..L -> Nat], Tally(c), c[1] <= 2^(L - 1), c[L] \in {0, 1},
         NEW k \in 1..MaxN, NEW i, Shown(c, k, i)
  PROVE  /\ Level(k) \in 1..L /\ i \in Lowest(L, Built(c), Level(k))..(Built(c)[Level(k)] - 1)
         /\ i \in Nat /\ i < 2^(L - Level(k))
  <1>1. MaxN \in Nat
    BY TreeRegisters
  <1>2. /\ Level(k) \in 1..L
        /\ i \in Lowest(L, Built(c), Level(k))..(Built(c)[Level(k)] - 1)
    <2>1. CASE k < L
      <3>1. k \in 1..(L - 1) /\ k \in 1..L
        BY <2>1, <1>1
      <3>2. Level(k) = k
        BY <2>1 DEF Level
      <3>3. i \in Lowest(L, Built(c), k)..(Built(c)[k] - 1)
        BY <3>1, ShownBelow
      <3> QED BY <3>1, <3>2, <3>3, Zenon
    <2>2. CASE ~(k < L)
      <3>1. k \in L..MaxN /\ L \in 1..L
        BY <2>2, <1>1
      <3>2. Level(k) = L
        BY <2>2 DEF Level
      <3>3. i \in 0..(Built(c)[L] - 1)
        <4>1. \E m \in L..MaxN : Shown(c, m, i)
          BY <3>1, Zenon
        <4> QED BY <4>1, ShownTop
      <3>4. Lowest(L, Built(c), L) = 0
        BY DEF Lowest
      <3> QED BY <3>1, <3>2, <3>3, <3>4, Zenon
    <2> QED BY <2>1, <2>2
  <1>3. PICK m \in 1..L : m = Level(k)
    BY <1>2, Zenon
  <1>4. i \in Lowest(L, Built(c), m)..(Built(c)[m] - 1)
    BY <1>2, <1>3, Zenon
  <1>5. Built(c) \in [1..L -> Nat] /\ Built(c)[m] <= c[m]
    BY BuiltRight
  <1>6. i \in Nat /\ i < Built(c)[m]
    BY <1>4, <1>5, PlaceStands
  <1>7. c[m] <= 2^(L - m)
    BY PlaceBound
  <1>8. 2^(L - m) \in Nat
    <2>1. L - m \in Nat
      OBVIOUS
    <2> QED BY <2>1, NatPower
  <1>9. i < 2^(L - m)
    <2>1. c[m] \in Nat /\ Built(c)[m] \in Nat
      BY <1>5
    <2> QED BY <2>1, <1>5, <1>6, <1>7, <1>8
  <1> QED BY <1>2, <1>3, <1>6, <1>9, Zenon

(* A block that stands is shown.                                           *)
LEMMA StandsShown ==
  ASSUME Registers, Levels, StageModes, NEW L \in Nat, L = job.level, L >= 1, L <= MaxN,
         NEW c \in [1..L -> Nat], Tally(c), c[L] \in {0, 1},
         NEW m \in 1..L, NEW i \in Lowest(L, Built(c), m)..(Built(c)[m] - 1)
  PROVE  \E k \in 1..MaxN : Level(k) = m /\ Shown(c, k, i)
  <1>1. MaxN \in Nat
    BY TreeRegisters
  <1>2. CASE m < L
    <2>1. m \in 1..(L - 1) /\ m \in 1..MaxN
      BY <1>2, <1>1
    <2>2. Shown(c, m, i)
      BY <2>1, ShownBelow
    <2>3. Level(m) = m
      BY <1>2 DEF Level
    <2> QED BY <2>1, <2>2, <2>3, Zenon
  <1>3. CASE ~(m < L)
    <2>1. m = L
      BY <1>3
    <2>2. i \in 0..(Built(c)[L] - 1)
      BY <2>1 DEF Lowest
    <2>3. PICK k \in L..MaxN : Shown(c, k, i)
      BY <2>2, ShownTop
    <2>4. k \in 1..MaxN /\ Level(k) = m
      BY <2>1, <1>1 DEF Level
    <2> QED BY <2>3, <2>4, Zenon
  <1> QED BY <1>2, <1>3

(* In a run, the forest of the packing tree is given by how many blocks    *)
(* of each level stage 5 has made.                                         *)
LEMMA ForestStands ==
  ASSUME Registers, Levels, StageModes, ~wr, ~ap_idle,
         NEW L \in Nat, L = job.level, L >= 1, L <= MaxN,
         NEW c \in [1..L -> Nat], Tally(c), c[1] <= 2^(L - 1), c[L] \in {0, 1},
         StagesRight(c), RedbufRight(c)
  PROVE  Forest = Standing(L, Built(c))
  <1>1. Forest = {Numbers(b) : b \in Blocks}
    BY Zenon DEF Forest, Blocks
  <1>2. job \in Jobs /\ MaxN \in Nat
    BY TreeRegisters
  <1>3. ASSUME NEW k \in 1..MaxN, NEW i, Shown(c, k, i), NEW b, b.leaves = Cluster(k, i)
        PROVE  Numbers(b) = Span(Level(k), i)
    <2>1. i \in Nat /\ i < 2^(L - Level(k))
      BY <1>3, ShownStands
    <2>2. k \in Nat /\ k >= 1
      BY <1>2
    <2> QED BY <2>1, <2>2, <1>2, <1>3, NumbersAre
  <1>4. ASSUME NEW x, x \in Forest PROVE x \in Standing(L, Built(c))
    <2>1. PICK b \in Blocks : x = Numbers(b)
      BY <1>1, <1>4, Zenon
    <2>2. PICK k \in 1..MaxN : \E i : Shown(c, k, i) /\ b.leaves = Cluster(k, i)
      BY BlockShown, Zenon
    <2>3. PICK i : Shown(c, k, i) /\ b.leaves = Cluster(k, i)
      BY <2>2, Zenon
    <2>4. x = Span(Level(k), i)
      BY <2>1, <2>3, <1>3, Zenon
    <2>5. /\ Level(k) \in 1..L
          /\ i \in Lowest(L, Built(c), Level(k))..(Built(c)[Level(k)] - 1)
      BY <2>3, ShownStands
    <2>6. \E m \in 1..L : \E j \in Lowest(L, Built(c), m)..(Built(c)[m] - 1) : x = Span(m, j)
      BY <2>4, <2>5, Zenon
    <2> QED BY <2>6, StandingIs, Zenon
  <1>5. ASSUME NEW x, x \in Standing(L, Built(c)) PROVE x \in Forest
    <2>1. \E m \in 1..L : \E j \in Lowest(L, Built(c), m)..(Built(c)[m] - 1) : x = Span(m, j)
      <3>1. PICK B : B = Built(c)
        OBVIOUS
      <3>2. x \in Standing(L, B) <=>
              \E m \in 1..L : \E j \in Lowest(L, B, m)..(B[m] - 1) : x = Span(m, j)
        BY ONLY StandingIs
      <3> QED BY <3>1, <3>2, <1>5, Zenon
    <2>2. PICK m \in 1..L : \E j \in Lowest(L, Built(c), m)..(Built(c)[m] - 1) : x = Span(m, j)
      BY <2>1, Zenon
    <2>3. PICK j \in Lowest(L, Built(c), m)..(Built(c)[m] - 1) : x = Span(m, j)
      BY <2>2, Zenon
    <2>4. PICK k \in 1..MaxN : Level(k) = m /\ Shown(c, k, j)
      BY StandsShown, Zenon
    <2>5. PICK b \in Blocks : b.leaves = Cluster(k, j)
      BY <2>4, ShownBlock, Zenon
    <2>6. x = Numbers(b)
      BY <2>3, <2>4, <2>5, <1>3, Zenon
    <2> QED BY <2>5, <2>6, <1>1, Zenon
  <1> QED BY <1>4, <1>5, Zenon

(* The same with the counts of the invariant.                              *)
StandsAt(c) ==
  /\ Forest = Standing(job.level, Built(c))
  /\ Built(c) \in [1..job.level -> Nat]
  /\ Paired(job.level, Built(c))
  /\ \A k \in 1..job.level : Built(c)[k] <= 2^(job.level - k)

ForestRight ==
  ~idle => \A g, q \in Nat : \A c \in [1..job.level -> Nat] : DataAt(g, q, c) => StandsAt(c)

LEMMA ForestRunning == DataInv => ForestRight
  <1> SUFFICES ASSUME DataInv, ~idle, NEW g \in Nat, NEW q \in Nat,
                      NEW c \in [1..job.level -> Nat], DataAt(g, q, c)
               PROVE  StandsAt(c)
    BY Zenon DEF ForestRight
  <1>1. /\ Registers /\ RoundsApart /\ Levels /\ ReaderRight /\ NoBubble /\ StageModes /\ Ends
    BY DataParts
  <1>2. ~wr /\ ~ap_idle
    BY <1>1, Zenon DEF Ends
  <1>3. /\ GroupsInOrder(g, q) /\ Taken(g) >= 0 /\ c[1] = Taken(g) /\ Tally(c)
        /\ StagesRight(c) /\ RedbufRight(c)
    BY Zenon DEF DataAt
  <1>4. PICK L \in Nat : L = job.level
    <2>1. job.level \in 1..MaxN /\ MaxN \in Nat
      BY <1>1, TreeRegisters
    <2>2. job.level \in Nat
      BY <2>1
    <2> QED BY <2>2, Zenon
  <1>5. c \in [1..L -> Nat]
    BY <1>4, Zenon
  <1>6. L \in 1..MaxN /\ MaxN \in Nat /\ c[1] <= 2^(L - 1) /\ c[L] \in {0, 1}
    BY <1>1, <1>3, <1>4, <1>5, TreeFacts
  <1>7. L >= 1 /\ L <= MaxN
    BY <1>6
  <1>8. Forest = Standing(L, Built(c))
    BY <1>1, <1>2, <1>3, <1>4, <1>5, <1>6, <1>7, ForestStands
  <1>9. /\ Built(c) \in [1..L -> Nat] /\ Paired(L, Built(c))
        /\ \A k \in 1..L : Built(c)[k] <= c[k]
    BY <1>1, <1>3, <1>4, <1>5, <1>7, BuiltRight
  <1>10. ASSUME NEW k \in 1..L PROVE Built(c)[k] <= 2^(L - k)
    <2>1. c[k] <= 2^(L - k)
      BY <1>3, <1>4, <1>5, <1>6, PlaceBound
    <2>2. L - k \in Nat
      OBVIOUS
    <2>3. 2^(L - k) \in Nat
      BY <2>2, NatPower
    <2>4. c[k] \in Nat /\ Built(c)[k] \in Nat /\ Built(c)[k] <= c[k]
      BY <1>5, <1>9
    <2> QED BY <2>1, <2>3, <2>4
  <1> QED BY <1>4, <1>8, <1>9, <1>10, Zenon DEF StandsAt

(* And in the next state.                                                  *)
LEMMA ForestStaysRight == DataInv' => ForestRight'
  BY ForestRunning, PTL

(* The block that all leaves are packed in.                                *)
LEMMA WholeBlock ==
  ASSUME job \in Jobs, NEW b, b = Made(MaxN, 0, 3)
  PROVE  Numbers(b) = Tree!All
  <1>1. MaxN \in Nat /\ job.level \in 1..MaxN
    BY JobFacts
  <1>2. PICK L \in Nat : L = job.level /\ L >= 1 /\ L <= MaxN
    BY <1>1
  <1>3. Level(MaxN) = L
    BY <1>1, <1>2 DEF Level
  <1>4. b.leaves = Cluster(MaxN, 0)
    BY DEF Made, Block
  <1>5. 0 < 2^(L - Level(MaxN))
    <2>1. L - L = 0
      OBVIOUS
    <2>2. L - Level(MaxN) = 0
      BY <2>1, <1>3, Zenon
    <2>3. 2^(L - Level(MaxN)) = 1
      BY <2>2, PowerZero
    <2> QED BY <2>3
  <1>6. Numbers(b) = Span(L, 0)
    <2>1. MaxN >= 1 /\ 0 \in Nat
      BY <1>1, <1>2
    <2>2. Numbers(b) = Span(Level(MaxN), 0)
      BY <2>1, <1>1, <1>2, <1>4, <1>5, NumbersAre
    <2> QED BY <2>2, <1>3, Zenon
  <1>7. Span(L, 0) = 0..(2^(L - 1) - 1)
    <2>1. PICK z \in Nat, a \in Nat : /\ z = 2^(L - 1) /\ z >= 1 /\ a = 0 * z
                                      /\ Span(L, 0) = a..((a + z) - 1)
      BY <1>2, SpanIs
    <2>2. a = 0 /\ (a + z) - 1 = z - 1
      BY <2>1
    <2> QED BY <2>1, <2>2, Zenon
  <1> QED BY <1>2, <1>6, <1>7, Zenon DEF Tree!All

(* Between runs there is nothing, or the result that is being written.     *)
ForestBetween == idle => Forest = IF ap_idle THEN {} ELSE {Tree!All}

LEMMA ForestIdle == DataInv => ForestBetween
  <1> SUFFICES ASSUME DataInv, idle PROVE Forest = IF ap_idle THEN {} ELSE {Tree!All}
    BY Zenon DEF ForestBetween
  <1>1. Quiet /\ Outcome /\ Ends /\ Registers
    BY Zenon DEF DataInv, ControlInv
  <1>2. \A s \in 5..9 : ~status[s]
    <2>1. \A s \in 5..9 : s \in Stages
      BY DEF Stages
    <2> QED BY <1>1, <2>1, Zenon DEF Quiet
  <1>3. \A s \in 6..9 : ~status[s]
    BY <1>2
  <1>4. ~status[5]
    BY <1>2
  <1>5. InStage5 = {}
    BY <1>4, Zenon DEF InStage5, Packing
  <1>6. InStages6To9 = {}
    BY <1>3 DEF InStages6To9
  <1>7. Waiting = {}
    <2>1. \A k \in 1..(job.level - 1) : ~rb_status[k]
      BY <1>1, Zenon DEF Outcome
    <2> QED BY <2>1, Zenon DEF Waiting
  <1>8. CASE ap_idle
    BY <1>8 DEF Forest
  <1>9. CASE ~ap_idle
    <2>1. wr /\ redbuf[0] = Made(MaxN, 0, 3)
      BY <1>1, <1>9, Zenon DEF Outcome
    <2>2. Forest = {Numbers(b) : b \in {redbuf[0]}}
      <3>1. InStage5 \cup InStages6To9 \cup Waiting \cup {redbuf[0]} = {redbuf[0]}
        BY <1>5, <1>6, <1>7
      <3> QED BY <3>1, <2>1, <1>9, Zenon DEF Forest
    <2>3. job \in Jobs
      BY <1>1, Zenon DEF Registers
    <2>4. Numbers(redbuf[0]) = Tree!All
      BY <2>1, <2>3, WholeBlock, Zenon
    <2>5. Forest = {Tree!All}
      BY <2>2, <2>4, Zenon
    <2> QED BY <2>5, <1>9
  <1> QED BY <1>8, <1>9

(* And in the next state.                                                  *)
LEMMA ForestStaysBetween == DataInv' => ForestBetween'
  BY ForestIdle, PTL

(* At the end of the last round, stage 9 has the result.                   *)
LEMMA ForestLast ==
  ASSUME DataInv, ~idle, all_stage_done, Tick, o_mvp_done
  PROVE  /\ Forest = {Tree!All} /\ idle' /\ ~ap_idle /\ ~ap_idle' /\ job' = job
  <1>4. /\ ControlInv /\ StageModes
        /\ Registers /\ RoundsApart /\ Levels /\ Ends /\ ReaderRight /\ NoBubble
        /\ \E g, q \in Nat : \E L \in Nat : L = job.level /\ \E c \in [1..L -> Nat] :
             DataAt(g, q, c)
    BY DataParts
  <1>5. PICK g \in Nat, q \in Nat, L \in Nat : L = job.level /\ \E c \in [1..L -> Nat] :
             DataAt(g, q, c)
    BY <1>4, Zenon
  <1>6. PICK c \in [1..L -> Nat] : DataAt(g, q, c)
    BY <1>5, Zenon
  <1>7. /\ GroupsInOrder(g, q) /\ Taken(g) >= 0
        /\ c[1] = Taken(g) /\ Tally(c) /\ StagesRight(c)
    BY <1>6, Zenon DEF DataAt
  <1>8. Round
    BY <1>4, Zenon DEF Round
  <1>10. c[L] # 0
    <2>1. Levels /\ NoBubble
      BY <1>4, Zenon
    <2>2. L = job.level
      BY <1>5, Zenon
    <2> QED BY <1>7, <1>8, <2>1, <2>2, RoundTally, Zenon
  <1>11. /\ L \in 1..MaxN /\ MaxN \in Nat
         /\ \A k \in 1..(L - 1) : ~rb_status[k]
         /\ \E s \in 5..9, m \in L..MaxN : Root(s, m)
    BY <1>4, <1>5, <1>7, <1>10, TreeFacts
  <1>12. n[9] = MaxN /\ \A t \in 5..8 : n[t] = 0
    <2>1. n[9] = MaxN
      BY DEF o_mvp_done
    <2>2. PICK s \in 5..9, m \in L..MaxN : Root(s, m)
      BY <1>11
    <2>3. s = 9
      BY <2>1, <2>2, <1>4, <1>5, RootPlace
    <2>4. ASSUME NEW t \in 5..8 PROVE n[t] = 0
      <3>1. t \in (5..9) \ {s}
        BY <2>3
      <3> QED BY <3>1, <2>2, <2>3 DEF Root
    <2> QED BY <2>1, <2>4
  <1>13. ~wr /\ ~ap_idle
    BY <1>4, Zenon DEF Ends
  <1>14. idle' /\ ap_idle' = ap_idle /\ job' = job
    BY <1>8, RoundFacts, RoundRegisters
  <1>15. \A s \in 5..9 : status[s] <=> n[s] # 0
    BY <1>4, Zenon DEF Levels
  <1>16. ~status[5] /\ ~status[6] /\ ~status[7] /\ ~status[8] /\ status[9]
    <2>1. n[5] = 0 /\ n[6] = 0 /\ n[7] = 0 /\ n[8] = 0 /\ n[9] # 0
      BY <1>11, <1>12
    <2>2. 5 \in 5..9 /\ 6 \in 5..9 /\ 7 \in 5..9 /\ 8 \in 5..9 /\ 9 \in 5..9
      OBVIOUS
    <2> QED BY <2>1, <2>2, <1>15, Zenon
  <1>17. InStage5 = {} /\ ~Packing
    BY <1>16, Zenon DEF InStage5, Packing
  <1>18. InStages6To9 = {Held(9)}
    <2>1. {t \in 6..9 : status[t] /\ ~(t = 9 /\ Packing /\ done[5] /\ ~start_pulse)} = {9}
      <3>1. \A t \in 6..9 : t = 6 \/ t = 7 \/ t = 8 \/ t = 9
        OBVIOUS
      <3>2. 9 \in 6..9
        OBVIOUS
      <3> QED BY <3>1, <3>2, <1>16, <1>17, Zenon
    <2> QED BY <2>1, Zenon DEF InStages6To9
  <1>19. Waiting = {}
    <2>1. \A k \in 1..(job.level - 1) : ~rb_status[k]
      BY <1>5, <1>11, Zenon
    <2> QED BY <2>1, Zenon DEF Waiting
  <1>20. Forest = {Numbers(b) : b \in {Held(9)}}
    <2>1. InStage5 \cup InStages6To9 \cup Waiting \cup {} = {Held(9)}
      BY <1>17, <1>18, <1>19
    <2> QED BY <2>1, <1>13, Zenon DEF Forest
  <1>21. Held(9) = Made(MaxN, 0, 3)
    <2>1. Held(9) = Made(n[9], Index(c, 9), 3)
      BY <1>7, <1>16, Zenon DEF StagesRight
    <2>2. ~(n[9] < job.level)
      BY <1>5, <1>11, <1>12
    <2>3. Index(c, 9) = 0
      BY <2>2, Zenon DEF Index
    <2> QED BY <2>1, <2>3, <1>12, Zenon
  <1>22. job \in Jobs
    BY <1>4, Zenon DEF Registers
  <1>23. Numbers(Held(9)) = Tree!All
    BY <1>21, <1>22, WholeBlock, Zenon
  <1>24. Forest = {Tree!All}
    BY <1>20, <1>23, Zenon
  <1> QED BY <1>24, <1>13, <1>14, Zenon

-----------------------------------------------------------------------------
(* Every step is one of the packing tree *)

(* What the forest is in a run, before a step.                             *)
LEMMA ForestBefore ==
  ASSUME DataInv, ~idle, NEW g \in Nat, NEW q \in Nat, NEW L \in Nat, L = job.level,
         NEW c \in [1..L -> Nat], DataAt(g, q, c)
  PROVE  StandsAt(c) /\ ~ap_idle /\ L >= 1
  <1>1. ForestRight
    BY ForestRunning
  <1>2. c \in [1..job.level -> Nat]
    BY Zenon
  <1>3. StandsAt(c)
    BY <1>1, <1>2, Zenon DEF ForestRight
  <1>4. Ends /\ Registers
    BY Zenon DEF DataInv, ControlInv
  <1>5. ~ap_idle
    BY <1>4, Zenon DEF Ends
  <1>6. L >= 1
    <2>1. MaxN \in Nat /\ job.level \in 1..MaxN
      BY <1>4, TreeRegisters
    <2> QED BY <2>1
  <1> QED BY <1>3, <1>5, <1>6

(* And after it.                                                           *)
LEMMA ForestAfter ==
  ASSUME DataInv', ~idle', NEW g \in Nat, NEW q \in Nat, NEW L \in Nat, L = job'.level,
         NEW c \in [1..L -> Nat], DataAt(g, q, c)'
  PROVE  StandsAt(c)' /\ ~ap_idle'
  <1>1. ForestRight'
    BY ForestStaysRight
  <1>2. c \in [1..job'.level -> Nat]
    BY Zenon
  <1>3. StandsAt(c)'
    BY <1>1, <1>2, Zenon DEF ForestRight
  <1>4. Ends'
    BY Zenon DEF DataInv, ControlInv
  <1>5. ~ap_idle'
    BY <1>4, Zenon DEF Ends
  <1> QED BY <1>3, <1>5

(* A step that makes no block leaves the tree as it is.                    *)
LEMMA NothingMade ==
  ASSUME DataInv, DataInv', ~idle, ~idle', job' = job,
         NEW g \in Nat, NEW q \in Nat, NEW L \in Nat, L = job.level,
         NEW c \in [1..L -> Nat], DataAt(g, q, c),
         NEW h \in Nat, NEW p \in Nat, NEW d \in [1..L -> Nat], DataAt(h, p, d)',
         Built(d)' = Built(c)
  PROVE  UNCHANGED Tree!vars
  <1>1. StandsAt(c) /\ ~ap_idle
    BY ForestBefore
  <1>2. StandsAt(d)' /\ ~ap_idle'
    <2>1. L = job'.level
      BY Zenon
    <2> QED BY <2>1, ForestAfter
  <1>3. Forest' = Forest
    <2>1. Forest = Standing(job.level, Built(c))
      BY <1>1, Zenon DEF StandsAt
    <2>2. Forest' = Standing(job'.level, Built(d)')
      BY <1>2, Zenon DEF StandsAt
    <2> QED BY <2>1, <2>2, Zenon
  <1>4. (~ap_idle)' = (~ap_idle)
    BY <1>1, <1>2
  <1>5. (IF ap_idle THEN Numbers(out) ELSE {})' = (IF ap_idle THEN Numbers(out) ELSE {})
    BY <1>1, <1>2, Zenon
  <1>6. (job.level)' = job.level
    BY Zenon
  <1> QED BY <1>3, <1>4, <1>5, <1>6 DEF Tree!vars

(* No block is made where stage 5 has, or has not, made its block before   *)
(* and after.                                                              *)
LEMMA SameBuilt ==
  ASSUME NEW c, job' = job, n' = n, Pending' <=> Pending
  PROVE  Built(c)' = Built(c)
  <1>1. ASSUME NEW k PROVE Num(Pending' /\ n'[5] = k) = Num(Pending /\ n[5] = k)
    BY DEF Num
  <1>2. Built(c)' = [k \in 1..job'.level |-> c[k] - Num(Pending' /\ n'[5] = k)]
    BY DEF Built
  <1> QED BY <1>1, <1>2 DEF Built

(* Stages other than 5 make no block.                                      *)
LEMMA StageQuiet ==
  ASSUME DataInv, NEW s \in 1..10, StageWork(s), s # 5
  PROVE  UNCHANGED Tree!vars
  <1>1. ControlInv /\ StageDone(s)
    BY Zenon DEF DataInv, StageWork
  <1>2. /\ ~idle /\ ~idle' /\ ~start_pulse /\ ~start_pulse' /\ job' = job /\ n' = n
        /\ status' = status /\ \A t \in 0..10 : t # s => done'[t] = done[t]
    BY <1>1, StageFacts
  <1>3. \E g, q \in Nat : \E L \in Nat : L = job.level /\ \E c \in [1..L -> Nat] :
          DataAt(g, q, c)
    BY <1>2, DataParts
  <1>4. PICK g \in Nat, q \in Nat, L \in Nat : L = job.level /\ \E c \in [1..L -> Nat] :
             DataAt(g, q, c)
    BY <1>3, Zenon
  <1>5. PICK c \in [1..L -> Nat] : DataAt(g, q, c)
    BY <1>4, Zenon
  <1>6. DataInv' /\ DataAt(g, q, c)'
    BY <1>4, <1>5, StageAt, Zenon
  <1>7. done'[5] = done[5]
    <2>1. 5 \in 0..10 /\ 5 # s
      OBVIOUS
    <2> QED BY <2>1, <1>2, Zenon
  <1>8. Pending' <=> Pending
    BY <1>2, <1>7, Zenon DEF Pending
  <1>9. Built(c)' = Built(c)
    BY <1>2, <1>8, SameBuilt
  <1> QED BY <1>2, <1>4, <1>5, <1>6, <1>9, NothingMade

(* Neither does the reader.                                                *)
LEMMA BatchQuiet ==
  ASSUME DataInv, BatchRead
  PROVE  UNCHANGED Tree!vars
  <1>1. ControlInv
    BY Zenon DEF DataInv
  <1>2. /\ ~idle /\ ~idle' /\ ~start_pulse /\ ~start_pulse' /\ job' = job /\ n' = n
        /\ status' = status /\ done' = done
    BY <1>1, BatchFacts
  <1>3. \E g, q \in Nat : \E L \in Nat : L = job.level /\ \E c \in [1..L -> Nat] :
          DataAt(g, q, c)
    BY <1>2, DataParts
  <1>4. PICK g \in Nat, q \in Nat, L \in Nat : L = job.level /\ \E c \in [1..L -> Nat] :
             DataAt(g, q, c)
    BY <1>3, Zenon
  <1>5. PICK c \in [1..L -> Nat] : DataAt(g, q, c)
    BY <1>4, Zenon
  <1>6. DataInv' /\ DataAt(g, q, c)'
    BY <1>4, <1>5, BatchAt, Zenon
  <1>8. Pending' <=> Pending
    BY <1>2, Zenon DEF Pending
  <1>9. Built(c)' = Built(c)
    BY <1>2, <1>8, SameBuilt
  <1> QED BY <1>2, <1>4, <1>5, <1>6, <1>9, NothingMade

(* A clock edge within a round makes no block: stage 5 only lowers its     *)
(* done when it is started.                                                *)
LEMMA PlainQuiet ==
  ASSUME DataInv, ~idle, ~all_stage_done, Tick
  PROVE  UNCHANGED Tree!vars
  <1>1. ControlInv
    BY Zenon DEF DataInv
  <1>2. /\ ~idle' /\ ~start_pulse' /\ job' = job /\ n' = n
        /\ status' = status /\ \A t \in 1..10 : done'[t] <=> done[t] /\ ~o_start(t)
    BY <1>1, PlainFacts
  <1>3. \E g, q \in Nat : \E L \in Nat : L = job.level /\ \E c \in [1..L -> Nat] :
          DataAt(g, q, c)
    BY <1>2, DataParts
  <1>4. PICK g \in Nat, q \in Nat, L \in Nat : L = job.level /\ \E c \in [1..L -> Nat] :
             DataAt(g, q, c)
    BY <1>3, Zenon
  <1>5. PICK c \in [1..L -> Nat] : DataAt(g, q, c)
    BY <1>4, Zenon
  <1>6. DataInv' /\ DataAt(g, q, c)'
    BY <1>4, <1>5, PlainAt, Zenon
  <1>7. done'[5] <=> done[5] /\ ~(start_pulse /\ status[5])
    <2>1. 5 \in 1..10
      OBVIOUS
    <2>2. o_start(5) <=> start_pulse /\ status[5]
      BY SignalList DEF o_start
    <2> QED BY <2>1, <2>2, <1>2, Zenon
  <1>8. Pending' <=> Pending
    BY <1>2, <1>7, Zenon DEF Pending
  <1>9. Built(c)' = Built(c)
    BY <1>2, <1>8, SameBuilt
  <1> QED BY <1>2, <1>4, <1>5, <1>6, <1>9, NothingMade

(* The end of a round gives stage 5 a block to make; it has made the one   *)
(* before, and not this one.                                               *)
LEMMA RoundQuiet ==
  ASSUME DataInv, ~idle, all_stage_done, Tick, ~o_mvp_done
  PROVE  UNCHANGED Tree!vars
  <1>1. \E g, q \in Nat : \E L \in Nat : L = job.level /\ \E c \in [1..L -> Nat] :
          DataAt(g, q, c)
    BY DataParts
  <1>2. PICK g \in Nat, q \in Nat, L \in Nat : L = job.level /\ \E c \in [1..L -> Nat] :
             DataAt(g, q, c)
    BY <1>1, Zenon
  <1>3. PICK c \in [1..L -> Nat] : DataAt(g, q, c)
    BY <1>2, Zenon
  <1>4. /\ DataInv'
        /\ \E h, p \in Nat, d \in [1..L -> Nat] : DataAt(h, p, d)' /\ Grown(c, d)
    BY <1>2, <1>3, RoundAt, Zenon
  <1>5. PICK h \in Nat, p \in Nat, d \in [1..L -> Nat] : DataAt(h, p, d)' /\ Grown(c, d)
    BY <1>4, Zenon
  <1>6. Round
    <2>1. ControlInv /\ Registers /\ RoundsApart /\ Levels /\ ReaderRight /\ NoBubble
      BY DataParts
    <2> QED BY <2>1, Zenon DEF Round
  <1>7. /\ ~start_pulse /\ start_pulse' /\ job' = job /\ ~idle' /\ done[5]
    <2>1. \A s \in 1..10 : done[s]
      BY <1>6, RoundFacts
    <2>2. done[5]
      BY <2>1
    <2> QED BY <2>2, <1>6, RoundRegisters, RoundFacts
  <1>8. status'[5] <=> n'[5] # 0
    <2>1. Levels'
      BY <1>4, Zenon DEF DataInv, ControlInv
    <2>2. 5 \in 5..9
      OBVIOUS
    <2> QED BY <2>1, <2>2, Zenon DEF Levels
  <1>9. ~Pending /\ (Pending' <=> n'[5] # 0)
    BY <1>7, <1>8, Zenon DEF Pending
  <1>10. ASSUME NEW k \in 1..L
         PROVE  d[k] - Num(Pending' /\ n'[5] = k) = c[k] - Num(Pending /\ n[5] = k)
    <2>1. d[k] = c[k] + Same(n'[5], k)
      BY <1>2, <1>5, Zenon DEF Grown
    <2>2. Num(Pending /\ n[5] = k) = 0
      BY <1>9 DEF Num
    <2>3. Num(Pending' /\ n'[5] = k) = Same(n'[5], k)
      <3>1. k # 0
        OBVIOUS
      <3> QED BY <3>1, <1>9 DEF Num, Same
    <2>4. Same(n'[5], k) \in {0, 1}
      BY DEF Same
    <2>5. c[k] \in Nat
      OBVIOUS
    <2> QED BY <2>1, <2>2, <2>3, <2>4, <2>5
  <1>11. Built(d)' = Built(c)
    <2>1. Built(d)' = [k \in 1..job'.level |-> d[k] - Num(Pending' /\ n'[5] = k)]
      BY DEF Built
    <2>2. 1..job'.level = 1..L
      BY <1>2, <1>7
    <2>3. Built(c) = [k \in 1..L |-> c[k] - Num(Pending /\ n[5] = k)]
      BY <1>2 DEF Built
    <2> QED BY <2>1, <2>2, <2>3, <1>10, Zenon
  <1> QED BY <1>2, <1>3, <1>4, <1>5, <1>7, <1>11, NothingMade

(* What stays when stage 5 has made a block.                               *)
LEMMA TreeKept ==
  ASSUME ~ap_idle, ~ap_idle', job' = job
  PROVE  /\ (~ap_idle)' = (~ap_idle) /\ ~ap_idle
         /\ (IF ap_idle THEN Numbers(out) ELSE {})' = (IF ap_idle THEN Numbers(out) ELSE {})
         /\ (job.level)' = job.level
  <1>1. (IF ap_idle THEN Numbers(out) ELSE {})' = (IF ap_idle THEN Numbers(out) ELSE {})
    BY Zenon
  <1>2. (job.level)' = job.level
    BY Zenon
  <1>3. (~ap_idle)' = (~ap_idle)
    OBVIOUS
  <1> QED BY <1>1, <1>2, <1>3

(* The tree counts as the pipeline does.                                   *)
LEMMA CardinalitySame == ASSUME NEW S PROVE Tree!Cardinality(S) = Cardinality(S)
  BY DEF Tree!Cardinality, Cardinality

(* A block of level 1 is the next leaf.                                    *)
LEMMA LeafStep ==
  ASSUME ~ap_idle, ~ap_idle', job' = job, NEW L \in Nat, L = job.level, L >= 1,
         NEW B \in [1..L -> Nat], NEW C \in [1..L -> Nat], Paired(L, B),
         Forest = Standing(L, B), Forest' = Standing(L, C), OneMore(L, B, C, 1),
         C[1] <= 2^(L - 1)
  PROVE  Tree!Arrive
  <1>1. PICK x \in Nat : x = B[1]
    <2>1. 1 \in 1..L
      OBVIOUS
    <2>2. B[1] \in Nat
      BY <2>1
    <2> QED BY <2>2, Zenon
  <1>2. Cardinality(UNION Forest) = x
    <2>1. UNION Standing(L, B) = 0..(B[1] - 1)
      BY Covered
    <2>2. UNION Forest = 0..(x - 1)
      BY <2>1, <1>1, Zenon
    <2>3. Cardinality(0..(x - 1)) = IF 0 > x - 1 THEN 0 ELSE (x - 1) - 0 + 1
      BY FS_Interval
    <2>4. (IF 0 > x - 1 THEN 0 ELSE (x - 1) - 0 + 1) = x
      OBVIOUS
    <2> QED BY <2>2, <2>3, <2>4, Zenon
  <1>3. x \in Tree!All
    <2>1. PICK z \in Nat : z = 2^(L - 1)
      <3>1. L - 1 \in Nat
        OBVIOUS
      <3>2. 2^(L - 1) \in Nat
        BY <3>1, NatPower
      <3> QED BY <3>2, Zenon
    <2>2. 1 \in 1..L
      OBVIOUS
    <2>3. C[1] = IF 1 = 1 THEN B[1] + 1 ELSE B[1]
      BY <2>2, Zenon DEF OneMore
    <2>4. x + 1 <= z
      <3>1. C[1] = x + 1
        BY <2>3, <1>1
      <3> QED BY <3>1, <2>1, Zenon
    <2>5. x \in 0..(z - 1)
      BY <2>4
    <2> QED BY <2>1, <2>5, Zenon DEF Tree!All
  <1>4. Forest' = Forest \cup {{x}}
    <2>1. Standing(L, C) = Standing(L, B) \cup {{B[1]}}
      BY LeafArrives
    <2> QED BY <2>1, <1>1, Zenon
  <1>5. /\ (~ap_idle)' = (~ap_idle) /\ ~ap_idle
        /\ (IF ap_idle THEN Numbers(out) ELSE {})' = (IF ap_idle THEN Numbers(out) ELSE {})
        /\ (job.level)' = job.level
    BY TreeKept
  <1>6. Tree!Cardinality(UNION Forest) = x
    BY <1>2, CardinalitySame, Zenon
  <1> QED BY <1>3, <1>4, <1>5, <1>6, Zenon DEF Tree!Arrive

(* A block of a higher level is packed from two siblings.                  *)
LEMMA PairStep ==
  ASSUME ~ap_idle, ~ap_idle', job' = job, NEW L \in Nat, L = job.level, L >= 1,
         NEW B \in [1..L -> Nat], NEW C \in [1..L -> Nat], Paired(L, B), Paired(L, C),
         Forest = Standing(L, B), Forest' = Standing(L, C),
         NEW k \in 1..(L - 1), OneMore(L, B, C, k + 1), C[k + 1] <= 2^(L - (k + 1))
  PROVE  Tree!Pack
  <1>1. k \in 1..L /\ k + 1 \in 1..L /\ k # k + 1
    OBVIOUS
  <1>2. PICK b \in Nat : b = B[k + 1]
    <2>1. B[k + 1] \in Nat
      BY <1>1
    <2> QED BY <2>1, Zenon
  <1>3. C[k] = B[k] /\ C[k + 1] = b + 1
    BY <1>1, <1>2 DEF OneMore
  <1>4. B[k] >= 2 * b + 2
    <2>1. C[k] >= 2 * C[k + 1]
      BY Zenon DEF Paired
    <2>2. B[k] \in Nat
      BY <1>1
    <2> QED BY <2>1, <2>2, <1>3
  <1>5. PICK u : u = Span(k, 2 * b)
    OBVIOUS
  <1>6. PICK v : v = Span(k, 2 * b + 1)
    OBVIOUS
  <1>7. Replaced(Standing(L, B), Standing(L, C), u, v)
    BY <1>2, <1>4, <1>5, <1>6, PairPacked
  <1>8. u \in Forest /\ v \in Forest /\ Forest' = (Forest \ {u, v}) \cup {u \cup v}
    BY <1>7, Zenon DEF Replaced
  <1>9. Tree!Siblings(u, v)
    <2>1. PICK e \in Nat : e = k - 1
      OBVIOUS
    <2>2. e \in 0..(L - 2) /\ (L - 2) - e = L - (k + 1) /\ L - (k + 1) \in Nat
      BY <2>1
    <2>3. PICK z \in Nat : z = 2^(L - (k + 1))
      <3>1. 2^(L - (k + 1)) \in Nat
        BY <2>2, NatPower
      <3> QED BY <3>1, Zenon
    <2>4. b + 1 <= z
      BY <2>3, <1>3, Zenon
    <2>5. b \in 0..(z - 1)
      BY <2>4
    <2>6. b \in 0..(2^(L - 2 - e) - 1)
      BY <2>2, <2>3, <2>5, Zenon
    <2>7. u = (2 * b * 2^e)..((2 * b + 1) * 2^e - 1)
      BY <2>1, <1>5, Zenon DEF Span
    <2>8. v = ((2 * b + 1) * 2^e)..((2 * b + 2) * 2^e - 1)
      <3>1. (2 * b + 1) + 1 = 2 * b + 2
        OBVIOUS
      <3>2. v = ((2 * b + 1) * 2^e)..(((2 * b + 1) + 1) * 2^e - 1)
        BY <2>1, <1>6, Zenon DEF Span
      <3> QED BY <3>1, <3>2, Zenon
    <2>9. e \in 0..(job.level - 2) /\ b \in 0..(2^(job.level - 2 - e) - 1)
      BY <2>2, <2>6, Zenon
    <2> QED BY <2>7, <2>8, <2>9, Zenon DEF Tree!Siblings
  <1>10. /\ (~ap_idle)' = (~ap_idle) /\ ~ap_idle
         /\ (IF ap_idle THEN Numbers(out) ELSE {})' = (IF ap_idle THEN Numbers(out) ELSE {})
         /\ (job.level)' = job.level
    BY TreeKept
  <1> QED BY <1>8, <1>9, <1>10, Zenon DEF Tree!Pack

(* Stage 5 makes a block: the next leaf, two siblings packed, or, in the   *)
(* trace, nothing new.                                                     *)
LEMMA Stage5Tree ==
  ASSUME DataInv, StageWork(5)
  PROVE  [Tree!Next]_(Tree!vars)
  <1>0. 5 \in 1..10 /\ 5 # 10
    OBVIOUS
  <1>1. ControlInv /\ StageDone(5)
    BY Zenon DEF DataInv, StageWork
  <1>2. /\ ~idle /\ ~idle' /\ ~start_pulse /\ ~start_pulse' /\ job' = job /\ n' = n
        /\ status' = status /\ ~done[5] /\ done'[5]
        /\ (IF 5 = 10 THEN status[2] ELSE status[5])
    BY <1>0, <1>1, StageFacts
  <1>3. Pending /\ ~Pending'
    BY <1>0, <1>2, Zenon DEF Pending
  <1>4. \E g, q \in Nat : \E L \in Nat : L = job.level /\ \E c \in [1..L -> Nat] :
          DataAt(g, q, c)
    BY <1>2, DataParts
  <1>5. PICK g \in Nat, q \in Nat, L \in Nat : L = job.level /\ \E c \in [1..L -> Nat] :
             DataAt(g, q, c)
    BY <1>4, Zenon
  <1>6. PICK c \in [1..L -> Nat] : DataAt(g, q, c)
    BY <1>5, Zenon
  <1>7. DataInv' /\ DataAt(g, q, c)'
    BY <1>0, <1>5, <1>6, StageAt, Zenon
  <1>8. StandsAt(c) /\ ~ap_idle /\ L >= 1
    BY <1>2, <1>5, <1>6, ForestBefore
  <1>9. StandsAt(c)' /\ ~ap_idle' /\ L = job'.level
    <2>1. L = job'.level
      BY <1>2, <1>5
    <2> QED BY <2>1, <1>2, <1>7, ForestAfter
  <1>10. PICK B : B = Built(c)
    OBVIOUS
  <1>11. PICK C : C = Built(c)'
    OBVIOUS
  <1>12. /\ Forest = Standing(L, B) /\ B \in [1..L -> Nat] /\ Paired(L, B)
    BY <1>5, <1>8, <1>10, Zenon DEF StandsAt
  <1>13. /\ Forest' = Standing(L, C) /\ C \in [1..L -> Nat] /\ Paired(L, C)
         /\ \A k \in 1..L : C[k] <= 2^(L - k)
    BY <1>9, <1>11, Zenon DEF StandsAt
  <1>14. OneMore(L, B, C, n[5])
    <2> SUFFICES ASSUME NEW m \in 1..L PROVE C[m] = IF m = n[5] THEN B[m] + 1 ELSE B[m]
      BY Zenon DEF OneMore
    <2>1. B[m] = c[m] - Num(Pending /\ n[5] = m)
      BY <1>5, <1>10, Zenon DEF Built
    <2>2. C[m] = c[m] - Num(Pending' /\ n'[5] = m)
      BY <1>9, <1>11, Zenon DEF Built
    <2>3. Num(Pending /\ n[5] = m) = IF m = n[5] THEN 1 ELSE 0
      BY <1>3 DEF Num
    <2>4. Num(Pending' /\ n'[5] = m) = 0
      BY <1>3 DEF Num
    <2>5. c[m] \in Nat
      OBVIOUS
    <2> QED BY <2>1, <2>2, <2>3, <2>4, <2>5
  <1>15. PICK x \in Nat : x = n[5] /\ x >= 1
    <2>1. Registers /\ Levels
      BY <1>1, Zenon DEF ControlInv
    <2>2. MaxN \in Nat /\ \A s \in 5..9 : n[s] \in 0..MaxN
      BY <2>1, TreeRegisters, Zenon
    <2>3. 5 \in 5..9
      OBVIOUS
    <2>4. n[5] \in 0..MaxN
      BY <2>2, <2>3, Zenon
    <2>5. n[5] # 0
      BY <2>1, <2>3, <1>0, <1>2, Zenon DEF Levels
    <2>6. n[5] \in Nat /\ n[5] >= 1
      BY <2>2, <2>4, <2>5
    <2> QED BY <2>6, Zenon
  <1>16. OneMore(L, B, C, x)
    BY <1>14, <1>15, Zenon
  <1>17. CASE x = 1
    <2>1. 1 \in 1..L
      BY <1>8
    <2>2. C[1] <= 2^(L - 1)
      BY <2>1, <1>13, Zenon
    <2>3. OneMore(L, B, C, 1)
      BY <1>16, <1>17, Zenon
    <2>4. Tree!Arrive
      BY <2>2, <2>3, <1>2, <1>5, <1>8, <1>9, <1>12, <1>13, LeafStep
    <2> QED BY <2>4, Zenon DEF Tree!Next
  <1>18. CASE x > 1 /\ x <= L
    <2>1. PICK k \in 1..(L - 1) : x = k + 1
      <3>1. x - 1 \in 1..(L - 1) /\ x = (x - 1) + 1
        BY <1>18
      <3> QED BY <3>1, Zenon
    <2>2. k + 1 \in 1..L
      OBVIOUS
    <2>3. C[k + 1] <= 2^(L - (k + 1))
      BY <2>2, <1>13, Zenon
    <2>4. OneMore(L, B, C, k + 1)
      BY <2>1, <1>16, Zenon
    <2>5. Tree!Pack
      BY <2>3, <2>4, <1>2, <1>5, <1>8, <1>9, <1>12, <1>13, PairStep
    <2> QED BY <2>5, Zenon DEF Tree!Next
  <1>19. CASE x > L
    <2>1. \A m \in 1..L : C[m] = B[m]
      <3> SUFFICES ASSUME NEW m \in 1..L PROVE C[m] = B[m]
        OBVIOUS
      <3>1. m # x
        BY <1>19
      <3> QED BY <3>1, <1>16, Zenon DEF OneMore
    <2>2. C = B
      BY <2>1, <1>12, <1>13
    <2>3. Built(c)' = Built(c)
      BY <2>2, <1>10, <1>11, Zenon
    <2>4. UNCHANGED Tree!vars
      BY <2>3, <1>2, <1>5, <1>6, <1>7, NothingMade
    <2> QED BY <2>4, Zenon
  <1>20. x = 1 \/ (x > 1 /\ x <= L) \/ x > L
    BY <1>15
  <1> QED BY <1>17, <1>18, <1>19, <1>20

(* While a run is over, the tree changes only with the writer's end.       *)
LEMMA IdleQuiet ==
  ASSUME DataInv, idle, Tick
  PROVE  UNCHANGED Tree!vars
  <1>1. ControlInv
    BY Zenon DEF DataInv
  <1>2. idle' /\ job' = job /\ ap_idle' = ap_idle /\ out' = out
    BY <1>1, IdleFacts
  <1>3. DataInv'
    BY IdleData
  <1>4. ForestBetween /\ ForestBetween'
    BY <1>3, ForestIdle, ForestStaysBetween
  <1>5. Tree!All' = Tree!All
    BY <1>2, Zenon DEF Tree!All
  <1>6. Forest' = Forest
    <2>1. Forest = IF ap_idle THEN {} ELSE {Tree!All}
      BY <1>4, Zenon DEF ForestBetween
    <2>2. Forest' = IF ap_idle' THEN {} ELSE {Tree!All'}
      BY <1>2, <1>4, Zenon DEF ForestBetween
    <2> QED BY <2>1, <2>2, <1>2, <1>5, Zenon
  <1>7. Numbers(out)' = Numbers(out)
    BY <1>2, Zenon DEF Numbers, Leaves, TheLeaf
  <1>8. (IF ap_idle THEN Numbers(out) ELSE {})' = (IF ap_idle THEN Numbers(out) ELSE {})
    BY <1>2, <1>7, Zenon
  <1>9. (~ap_idle)' = (~ap_idle) /\ (job.level)' = job.level
    BY <1>2, Zenon
  <1> QED BY <1>6, <1>8, <1>9 DEF Tree!vars

(* The last round hands the complete block to the writer.                  *)
LEMMA LastQuiet ==
  ASSUME DataInv, ~idle, all_stage_done, Tick, o_mvp_done
  PROVE  UNCHANGED Tree!vars
  <1>1. Forest = {Tree!All} /\ idle' /\ ~ap_idle /\ ~ap_idle' /\ job' = job
    BY ForestLast
  <1>2. DataInv'
    BY LastData
  <1>3. ForestBetween'
    BY <1>2, ForestStaysBetween
  <1>4. Forest' = {Tree!All'}
    BY <1>1, <1>3, Zenon DEF ForestBetween
  <1>5. Tree!All' = Tree!All
    BY <1>1, Zenon DEF Tree!All
  <1>6. Forest' = Forest
    BY <1>1, <1>4, <1>5, Zenon
  <1>7. /\ (~ap_idle)' = (~ap_idle)
        /\ (IF ap_idle THEN Numbers(out) ELSE {})' = (IF ap_idle THEN Numbers(out) ELSE {})
        /\ (job.level)' = job.level
    BY <1>1, TreeKept
  <1> QED BY <1>6, <1>7 DEF Tree!vars

(* What is written is the complete block.                                  *)
WholeOut == job \in Jobs /\ out = Made(MaxN, 0, 3) => Numbers(out) = Tree!All

LEMMA WholeResult == WholeOut
  BY WholeBlock, Zenon DEF WholeOut

LEMMA WholeResultNext == WholeOut'
  BY WholeResult, PTL

(* The end of the writer delivers it.                                      *)
LEMMA WriteDelivers ==
  ASSUME DataInv, WriteDone
  PROVE  Tree!Deliver
  <1>1. ControlInv /\ Outcome /\ Ends /\ Registers
    BY Zenon DEF DataInv, ControlInv
  <1>2. wr /\ job' = job /\ idle' = idle /\ out' = redbuf[o_uram_index] /\ ap_idle' = TRUE
    BY DEF WriteDone, control
  <1>3. idle /\ ~ap_idle
    BY <1>1, <1>2, Zenon DEF Ends
  <1>4. DataInv'
    BY WriteData
  <1>5. ForestBetween /\ ForestBetween'
    BY <1>4, ForestIdle, ForestStaysBetween
  <1>6. Forest = {Tree!All}
    BY <1>3, <1>5, Zenon DEF ForestBetween
  <1>7. Forest' = {}
    BY <1>2, <1>3, <1>5, Zenon DEF ForestBetween
  <1>8. out' = Made(MaxN, 0, 3)'
    <2>1. o_uram_index = 0
      BY <1>3 DEF o_uram_index
    <2>2. redbuf[0] = Made(MaxN, 0, 3)
      BY <1>1, <1>2, Zenon DEF Outcome
    <2>3. Made(MaxN, 0, 3)' = Made(MaxN, 0, 3)
      BY <1>2, MadeStill
    <2> QED BY <2>1, <2>2, <2>3, <1>2, Zenon
  <1>9. job' \in Jobs
    BY <1>1, <1>2, Zenon DEF Registers
  <1>10. Numbers(out)' = Tree!All
    <2>1. WholeOut'
      BY WholeResultNext
    <2>2. Numbers(out)' = Tree!All'
      BY <2>1, <1>8, <1>9, Zenon DEF WholeOut
    <2>3. Tree!All' = Tree!All
      BY <1>2, Zenon DEF Tree!All
    <2> QED BY <2>2, <2>3, Zenon
  <1>11. (IF ap_idle THEN Numbers(out) ELSE {})' = Tree!All
    BY <1>2, <1>10, Zenon
  <1>12. (~ap_idle)' = FALSE /\ ~ap_idle /\ (job.level)' = job.level
    BY <1>2, <1>3
  <1> QED BY <1>6, <1>7, <1>11, <1>12 DEF Tree!Deliver

(* A start begins with an empty forest.                                    *)
LEMMA StartBegins ==
  ASSUME DataInv, NEW j \in Jobs, Start(j)
  PROVE  Tree!Begin
  <1>1. ControlInv
    BY Zenon DEF DataInv
  <1>2. /\ ap_idle /\ ~ap_idle' /\ ~wr' /\ job' = j
        /\ \A s \in 0..9 : ~status'[s]
        /\ \A k \in 0..MaxN : ~rb_status'[k]
    BY <1>1, StartFacts
  <1>3. MaxN \in Nat /\ j.level \in 1..MaxN
    BY JobsAssumption
  <1>4. ~status'[5] /\ \A t \in 6..9 : ~status'[t]
    BY <1>2
  <1>5. InStage5' = {}
    BY <1>4, Zenon DEF InStage5, Packing
  <1>6. InStages6To9' = {}
    BY <1>4 DEF InStages6To9
  <1>7. Waiting' = {}
    <2>1. \A k \in 1..(job'.level - 1) : ~rb_status'[k]
      BY <1>2, <1>3
    <2> QED BY <2>1, Zenon DEF Waiting
  <1>8. Forest' = {}
    <2>1. InStage5' \cup InStages6To9' \cup Waiting' \cup {} = {}
      BY <1>5, <1>6, <1>7
    <2> QED BY <2>1, <1>2, Zenon DEF Forest
  <1>9. (~ap_idle)' = TRUE /\ ap_idle /\ (job.level)' \in 1..MaxN
    BY <1>2, <1>3
  <1>10. (IF ap_idle THEN Numbers(out) ELSE {})' = {}
    BY <1>2, Zenon
  <1> QED BY <1>8, <1>9, <1>10 DEF Tree!Begin

(* At first there is no block.                                             *)
LEMMA InitTree == Init => Tree!Init
  <1> SUFFICES ASSUME Init PROVE Tree!Init
    OBVIOUS
  <1>1. ap_idle = TRUE /\ out = NoBlock /\ job \in Jobs
    BY DEF Init
  <1>2. job.level \in 1..MaxN
    BY <1>1, JobsAssumption
  <1>3. Forest = {}
    BY <1>1 DEF Forest
  <1>4. Numbers(out) = {}
    BY <1>1 DEF Numbers, NoBlock, Block
  <1> QED BY <1>1, <1>2, <1>3, <1>4 DEF Tree!Init

(* A step that changes nothing.                                            *)
LEMMA StutterTree ==
  ASSUME UNCHANGED vars
  PROVE  UNCHANGED Tree!vars
  <1>1. /\ job' = job /\ ap_idle' = ap_idle /\ out' = out /\ wr' = wr
        /\ status' = status /\ done' = done /\ start_pulse' = start_pulse
        /\ stall' = stall /\ reduce_trace' = reduce_trace /\ n' = n
        /\ rb_status' = rb_status /\ redbuf' = redbuf /\ pp1' = pp1 /\ pp2' = pp2
    BY DEF vars, control, stalls, buffers
  <1>2. Numbers(out)' = Numbers(out)
    BY <1>1, Zenon DEF Numbers, Leaves, TheLeaf
  <1>3. \A b : Numbers(b)' = Numbers(b)
    BY <1>1, Zenon DEF Numbers, Leaves, TheLeaf
  <1>4. InStage5' = InStage5 /\ Waiting' = Waiting
    BY <1>1, Zenon DEF InStage5, Packing, Waiting
  <1>5. InStages6To9' = InStages6To9
    <2>1. Packing' <=> Packing
      BY <1>1, Zenon DEF Packing
    <2>2. ASSUME NEW s PROVE Held(s)' = Held(s)
      BY <1>1 DEF Held
    <2> QED BY <2>1, <2>2, <1>1, Zenon DEF InStages6To9
  <1>6. Forest' = Forest
    BY <1>1, <1>3, <1>4, <1>5, Zenon DEF Forest
  <1>7. /\ (IF ap_idle THEN Numbers(out) ELSE {})' = (IF ap_idle THEN Numbers(out) ELSE {})
        /\ (~ap_idle)' = (~ap_idle) /\ (job.level)' = job.level
    BY <1>1, <1>2, Zenon
  <1> QED BY <1>6, <1>7 DEF Tree!vars

(* Every step is one of the packing tree or leaves it as it is.            *)
LEMMA NextTree == DataInv /\ [Next]_vars => [Tree!Next]_(Tree!vars)
  <1> SUFFICES ASSUME DataInv, [Next]_vars PROVE [Tree!Next]_(Tree!vars)
    OBVIOUS
  <1>1. CASE Tick
    <2>1. UNCHANGED Tree!vars
      BY <1>1, RoundQuiet, LastQuiet, PlainQuiet, IdleQuiet, Zenon
    <2> QED BY <2>1, Zenon
  <1>2. CASE \E j \in Jobs : Start(j)
    <2>1. Tree!Begin
      BY <1>2, StartBegins, Zenon
    <2> QED BY <2>1, Zenon DEF Tree!Next
  <1>3. CASE WriteDone
    <2>1. Tree!Deliver
      BY <1>3, WriteDelivers, Zenon
    <2> QED BY <2>1, Zenon DEF Tree!Next
  <1>4. CASE BatchRead
    <2>1. UNCHANGED Tree!vars
      BY <1>4, BatchQuiet, Zenon
    <2> QED BY <2>1, Zenon
  <1>5. CASE Work /\ ~BatchRead /\ ~WriteDone
    <2>1. PICK s \in 1..10 : StageWork(s)
      BY <1>5, WorkStages, Zenon
    <2>2. CASE s = 5
      BY <2>1, <2>2, Stage5Tree, Zenon
    <2>3. CASE s # 5
      <3>1. UNCHANGED Tree!vars
        BY <2>1, <2>3, StageQuiet, Zenon
      <3> QED BY <3>1, Zenon
    <2> QED BY <2>2, <2>3
  <1>6. CASE UNCHANGED vars
    <2>1. UNCHANGED Tree!vars
      BY <1>6, StutterTree, Zenon
    <2> QED BY <2>1, Zenon
  <1> QED BY <1>1, <1>2, <1>3, <1>4, <1>5, <1>6, Zenon DEF Next

(* The pipeline computes the packing tree: whatever the job, the order in  *)
(* which the stages finish and the number of runs, each step brings in the *)
(* next leaf, packs two siblings, begins a run, delivers the block that    *)
(* has every leaf, or does nothing to the tree.                            *)
THEOREM PipelineIsTree == Spec => Tree!Init /\ [][Tree!Next]_(Tree!vars)
  BY InitTree, NextTree, DataAlwaysRight, PTL DEF Spec
=============================================================================
