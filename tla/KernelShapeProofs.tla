------------------------- MODULE KernelShapeProofs --------------------------
(***************************************************************************)
(* Every shape that the constructor of MVPPrivImpl takes gets through the  *)
(* checks of MatVecCore and the register checks of the card, for every     *)
(* ring degree up to 4096.                                                 *)
(***************************************************************************)
EXTENDS KernelShape, SdkShapeProofs

(* The ring degree is one that the lemmas about shapes take.               *)
LEMMA DegreeRight == Degree(N) /\ N \in Nat
  <1>1. PICK k \in 2..12 : N = 2^k
    BY DegreeAssumption
  <1>2. k \in Nat
    OBVIOUS
  <1>3. 2^k \in Nat
    BY <1>2, NatPower
  <1> QED BY <1>1, <1>3 DEF Degree

(* What the calls need of a shape: MatVec wants two rows.                  *)
MatVecShape(s) == s \in [nrows : Nat, ncols : Nat] /\ config_ok(s)

(* What check_config of the multiplication accepts is a good shape.        *)
LEMMA MatVecShapeGood ==
  ASSUME NEW s, MatVecShape(s)
  PROVE  GoodShape(s, N) /\ s.nrows \in Nat /\ s.nrows >= 2 /\ s.ncols \in Nat
         /\ s.ncols >= 1 /\ s.ncols <= 4 * N
  BY DegreeRight
  DEF MatVecShape, GoodShape, config_ok, public_config_ok, kMaxNumRows, kMaxNumCols

(* The columns that the card is told of, and the parts they make.          *)
Cols(s, K, h)  == Greatest(s.ncols, 2^(K - h))
Parts(s, K, h) == CeilDiv(s.ncols, 2^(K - h))

-----------------------------------------------------------------------------
(* Division *)

(* CeilDiv of a multiple.                                                  *)
LEMMA CeilDivExact ==
  ASSUME NEW x \in Nat, NEW y \in Nat, y >= 1 PROVE CeilDiv(x * y, y) = x
  BY DEF CeilDiv

(* What m parts hold needs at least one and at most m of them.             *)
LEMMA CeilDivBound ==
  ASSUME NEW x \in Nat, NEW y \in Nat, NEW m \in Nat, x >= 1, y >= 1, x <= m * y
  PROVE  CeilDiv(x, y) \in 1..m
  <1>1. (x + y - 1) \div y <= m
    OBVIOUS
  <1>2. (x + y - 1) \div y >= 1 /\ (x + y - 1) \div y \in Nat
    OBVIOUS
  <1> QED BY <1>1, <1>2 DEF CeilDiv

(* There are at least two rows, and at most half of them share a           *)
(* polynomial.                                                             *)
LEMMA TwoHalves ==
  ASSUME NEW s, MatVecShape(s), NEW K, NEW a, NEW h, Exponents(s, N, K, a, h)
  PROVE  /\ a \in Nat /\ h \in Nat /\ K \in Nat /\ h + 1 <= a /\ a <= K
         /\ 2^h < s.nrows
  <1>1. a \in Nat /\ h \in Nat /\ K \in Nat /\ a <= K
    BY DEF Exponents
  <1>2. 2^a \in Nat /\ 2^h \in Nat
    BY <1>1, NatPower
  <1>3. a # 0
    <2>1. a = 0 => 2^a = 1
      BY PowerZero
    <2>2. s.nrows >= 2 /\ s.nrows \in Nat
      BY MatVecShapeGood
    <2>3. s.nrows <= 2^a
      BY DEF Exponents
    <2> QED BY <2>1, <2>2, <2>3
  <1>4. h + 1 <= a
    BY <1>1, <1>3 DEF Exponents
  <1>5. 2 * 2^h <= 2^a
    <2>1. 2^(h + 1) <= 2^a /\ 2^(h + 1) = 2 * 2^h
      BY <1>1, <1>4, PowersGrow, NextPower
    <2> QED BY <2>1
  <1>6. 2^a < 2 * s.nrows
    BY DEF Exponents
  <1> QED BY <1>1, <1>2, <1>4, <1>5, <1>6, MatVecShapeGood

(* The arguments of KernelRun.                                             *)
LEMMA CoreArgsAre ==
  ASSUME NEW s, MatVecShape(s), NEW K, NEW a, NEW h, Exponents(s, N, K, a, h)
  PROVE  /\ CoreArgs(s) = [n |-> 2^a, m |-> Cols(s, K, h),
                           vec |-> Parts(s, K, h)]
         /\ num_row_blks(s) = 2^(a - h)
         /\ num_col_blks(s) = Parts(s, K, h)
  <1>1. /\ GetSubmatrixShape(s, N).rows = 2^h
        /\ GetSubmatrixShape(s, N).cols = 2^(K - h)
        /\ NextPow2(s.nrows) = 2^a
    BY DEF Exponents
  <1>2. a \in Nat /\ h \in Nat /\ h <= a /\ a - h \in Nat /\ 2^h < s.nrows
    BY TwoHalves
  <1>3. 2^a = 2^(a - h) * 2^h
    BY <1>2, PowersDivide
  <1>4. 2^h \in Nat /\ 2^h >= 1 /\ 2^(a - h) \in Nat
    BY <1>2, NatPower
  <1>5. num_row_blks(s) = 2^(a - h)
    BY <1>1, <1>3, <1>4, CeilDivExact DEF num_row_blks
  <1>6. Greatest(s.nrows, 2^h) = s.nrows
    BY <1>2, <1>4, MatVecShapeGood DEF Greatest
  <1> QED BY <1>1, <1>5, <1>6 DEF CoreArgs, num_col_blks, Cols, Parts

(* Several rows share a polynomial, or a row spans up to four.             *)
LEMMA TwoCases ==
  ASSUME NEW s, MatVecShape(s), NEW K, NEW a, NEW h, Exponents(s, N, K, a, h)
  PROVE  \/ /\ h >= 1 /\ Parts(s, K, h) = 1
            /\ Cols(s, K, h) = 2^(K - h) /\ 2^(K - h) < N
         \/ /\ h = 0 /\ Parts(s, K, h) \in 1..4
            /\ Cols(s, K, h) \in N..(4 * N)
            /\ Parts(s, K, h) = CeilDiv(Cols(s, K, h), N)
            /\ s.ncols <= 2 * N => Parts(s, K, h) <= 2
  <1>1. K \in Nat /\ h \in Nat /\ h + 1 <= K /\ K - h \in Nat
    BY TwoHalves
  <1>2. N = 2^K /\ N \in Nat /\ N >= 1 /\ 2^(K - h) \in Nat /\ 2^(K - h) >= 1
    BY <1>1, NatPower DEF Exponents
  <1>3. s.ncols \in Nat /\ s.ncols >= 1 /\ s.ncols <= 4 * N
    BY MatVecShapeGood
  <1>4. CASE h = 0
    <2>1. K - h = K
      BY <1>1, <1>4
    <2>2. Cols(s, K, h) = Greatest(s.ncols, N)
          /\ Parts(s, K, h) = CeilDiv(s.ncols, N)
      BY <1>2, <2>1 DEF Cols, Parts
    <2>3. CASE s.ncols < N
      <3>1. CeilDiv(s.ncols, N) = 1 /\ CeilDiv(N, N) = 1
        BY <1>2, <1>3, <2>3 DEF CeilDiv
      <3> QED BY <1>2, <1>4, <2>2, <2>3, <3>1 DEF Greatest
    <2>4. CASE ~(s.ncols < N)
      <3>1. CeilDiv(s.ncols, N) \in 1..4
        BY <1>2, <1>3, CeilDivBound
      <3>2. s.ncols <= 2 * N => CeilDiv(s.ncols, N) \in 1..2
        BY <1>2, <1>3, CeilDivBound
      <3>3. Greatest(s.ncols, N) = s.ncols
        BY <1>2, <1>3, <2>4 DEF Greatest
      <3> QED BY <1>2, <1>3, <1>4, <2>2, <2>4, <3>1, <3>2, <3>3
    <2> QED BY <2>3, <2>4
  <1>5. CASE h # 0
    <2>1. s.ncols < 2^(K - h)
      BY <1>5 DEF Exponents
    <2>2. Cols(s, K, h) = 2^(K - h)
      BY <2>1 DEF Cols, Greatest
    <2>3. Parts(s, K, h) = 1
      BY <1>2, <1>3, <2>1 DEF Parts, CeilDiv
    <2>4. 2^(K - h) < N
      <3>1. 2^((K - h) + 1) <= 2^K /\ 2^((K - h) + 1) = 2 * 2^(K - h)
        BY <1>1, <1>5, PowersGrow, NextPower
      <3>2. 2 * 2^(K - h) <= N
        BY <1>2, <3>1
      <3> QED BY <1>2, <3>2
    <2> QED BY <1>1, <1>5, <2>2, <2>3, <2>4
  <1> QED BY <1>4, <1>5

-----------------------------------------------------------------------------
(* The registers *)

(* The registers the driver writes, in exponents of two.                   *)
LEMMA RegistersAre ==
  ASSUME NEW s, MatVecShape(s), NEW K, NEW a, NEW h, Exponents(s, N, K, a, h)
  PROVE  KernelArgs(CoreArgs(s)) =
           [level |-> a, col_size |-> Cols(s, K, h), split |-> Parts(s, K, h),
            index |-> 2^h, mat_len |-> 2^(a - h) * Parts(s, K, h)]
  <1> DEFINE A == CoreArgs(s)
             M == Cols(s, K, h)
             P == Parts(s, K, h)
  <1>1. A.n = 2^a /\ A.m = M
    BY CoreArgsAre
  <1>2. a \in Nat /\ h \in Nat /\ K \in Nat /\ h <= a /\ h <= K
        /\ a - h \in Nat /\ K - h \in Nat /\ N = 2^K
    BY TwoHalves DEF Exponents
  <1>3. 2^a \in Nat /\ 2^h \in Nat /\ 2^h >= 1 /\ N \in Nat
    BY <1>2, NatPower
  <1>4. Log2(A.n) = a
    BY <1>1, <1>2, Log2OfPower
  <1> DEFINE split == IF A.m < N THEN 1 ELSE CeilDiv(A.m, N)
             index == IF A.m < N THEN 2^Log2(N \div A.m) ELSE 1
  <1>5. KernelArgs(A) =
          [level |-> Log2(A.n), col_size |-> A.m, split |-> split,
           index |-> index, mat_len |-> (A.n * split) \div index]
    BY DEF KernelArgs
  <1> HIDE DEF A
  <1>6. split = P /\ index = 2^h /\ (A.n * split) \div index = 2^(a - h) * P
    <2>1. CASE h >= 1 /\ P = 1 /\ M = 2^(K - h) /\ 2^(K - h) < N
      <3>1. split = 1
        BY <1>1, <2>1
      <3>2. N \div A.m = 2^h
        <4>1. K - (K - h) = h /\ K - h <= K
          BY <1>2
        <4> QED BY <1>1, <1>2, <2>1, <4>1, PowersDivide
      <3>3. index = 2^h
        BY <1>1, <1>2, <2>1, <3>2, Log2OfPower
      <3>4. 2^a \div 2^h = 2^(a - h) /\ 2^(a - h) \in Nat
        BY <1>2, PowersDivide, NatPower
      <3>5. A.n * split = 2^a /\ 2^(a - h) * P = 2^(a - h)
        BY <1>1, <1>3, <2>1, <3>1, <3>4
      <3> QED BY <2>1, <3>1, <3>3, <3>4, <3>5
    <2>2. CASE h = 0 /\ P \in 1..4 /\ M \in N..(4 * N) /\ P = CeilDiv(M, N)
      <3>1. split = P /\ index = 1 /\ 2^h = 1
        BY <1>1, <1>3, <2>2, PowerZero
      <3>2. a - h = a
        BY <1>2, <2>2
      <3>3. (2^a * P) \div 1 = 2^a * P
        BY <1>3, <2>2
      <3> QED BY <1>1, <3>1, <3>2, <3>3
    <2> HIDE DEF M, P
    <2>3. \/ h >= 1 /\ P = 1 /\ M = 2^(K - h) /\ 2^(K - h) < N
          \/ h = 0 /\ P \in 1..4 /\ M \in N..(4 * N) /\ P = CeilDiv(M, N)
      BY TwoCases DEF M, P
    <2> QED BY <2>1, <2>2, <2>3
  <1> QED BY <1>1, <1>4, <1>5, <1>6 DEF A

(* MatVecCore accepts every shape.                                         *)
LEMMA CoreAcceptsAll ==
  ASSUME NEW s, MatVecShape(s), NEW len,
         len = num_row_blks(s) * num_col_blks(s)
  PROVE  CoreAccepts(CoreArgs(s), len)
  <1>1. PICK K, a, h : Exponents(s, N, K, a, h)
    BY MatVecShapeGood, DegreeRight, ShapeExponents
  <1> DEFINE M == Cols(s, K, h)
             P == Parts(s, K, h)
  <1>2. CoreArgs(s) = [n |-> 2^a, m |-> M, vec |-> P]
        /\ num_row_blks(s) = 2^(a - h) /\ num_col_blks(s) = P
    BY <1>1, CoreArgsAre
  <1>3. a \in Nat /\ h \in Nat /\ K \in Nat /\ h + 1 <= a /\ h <= K
    BY <1>1, TwoHalves
  <1>4. 2^(a - h) \in Nat /\ 2^(a - h) >= 2
    <2>1. a - h \in Nat /\ (a - h) - 1 \in Nat /\ ((a - h) - 1) + 1 = a - h
      BY <1>3
    <2>2. 2^(a - h) = 2 * 2^((a - h) - 1) /\ 2^((a - h) - 1) \in Nat
          /\ 2^((a - h) - 1) >= 1
      BY <2>1, NextPower, NatPower
    <2> QED BY <2>2
  <1>5. N = 2^K /\ N \in Nat /\ N >= 1 /\ 2^(K - h) \in Nat /\ 2^(K - h) >= 1
    BY <1>1, <1>3, NatPower DEF Exponents
  <1>6. P \in 1..4 /\ M \in 1..(4 * N)
    BY <1>1, <1>5, TwoCases
  <1> HIDE DEF M, P
  <1>7. len > 1
    BY <1>2, <1>4, <1>6
  <1>8. IsTwoPower(2^a)
    BY <1>3, PowerIsTwoPower
  <1> QED BY <1>2, <1>6, <1>7, <1>8 DEF CoreAccepts

(* The card's checks of the registers find nothing.                        *)
LEMMA NoConfigError ==
  ASSUME NEW s, MatVecShape(s) PROVE config_error(KernelArgs(CoreArgs(s))) = {}
  <1>1. PICK K, a, h : Exponents(s, N, K, a, h)
    BY MatVecShapeGood, DegreeRight, ShapeExponents
  <1> DEFINE M == Cols(s, K, h)
             P == Parts(s, K, h)
             X == 2^(a - h)
             r == KernelArgs(CoreArgs(s))
  <1>2. a \in Nat /\ h \in Nat /\ K \in Nat /\ h + 1 <= a /\ a <= K /\ K <= 12
        /\ a - h \in Nat /\ K - h \in Nat
    <2>1. a \in Nat /\ h \in Nat /\ K \in Nat /\ h + 1 <= a /\ a <= K
      BY <1>1, TwoHalves
    <2>2. K <= 12
      BY <1>1 DEF Exponents
    <2> QED BY <2>1, <2>2
  <1>3. r = [level |-> a, col_size |-> M, split |-> P, index |-> 2^h,
             mat_len |-> X * P]
    BY <1>1, RegistersAre
  <1>4. N = 2^K /\ N \in Nat /\ N >= 1 /\ 2^(K - h) \in Nat /\ 2^(K - h) >= 1
    BY <1>1, <1>2, NatPower DEF Exponents
  <1>5. P \in 1..4 /\ M \in 1..(4 * N)
    BY <1>1, <1>4, TwoCases
  <1>6. 2^h \in Nat /\ 2^h >= 1 /\ 2^h <= N /\ X \in Nat /\ X >= 1 /\ X <= N
    BY <1>2, <1>4, NatPower, PowersGrow
  <1>7. 2^a = X * 2^h /\ 2^a \in Nat /\ 2^a <= N
    BY <1>2, <1>4, PowersDivide, NatPower, PowersGrow
  <1>8. 2^a * M >= 2 * N
    <2>1. 2^(a + (K - h)) = 2^a * 2^(K - h)
      BY <1>2, PowersMultiply
    <2>2. 2^(K + 1) <= 2^(a + (K - h)) /\ 2^(K + 1) = 2 * N
      BY <1>2, <1>4, PowersGrow, NextPower
    <2>3. 2^(K - h) <= M
      BY <1>4, MatVecShapeGood DEF Cols, Greatest
    <2>4. 2^a * 2^(K - h) <= 2^a * M
      BY <1>4, <1>5, <1>7, <2>3
    <2>5. 2 * N <= 2^a * 2^(K - h)
      BY <2>1, <2>2
    <2> HIDE DEF M
    <2> QED BY <1>4, <1>5, <1>7, <2>4, <2>5
  <1>9. Log2(N) = K
    BY <1>2, <1>4, Log2OfPower
  <1>10. a % 16 = a /\ M % (8 * N) = M
    BY <1>2, <1>4, <1>5
  <1>11. IsTwoPower(2^h)
    BY <1>2, PowerIsTwoPower
  <1> HIDE DEF M, P, X, r
  <1>12. X * P < 8 * N /\ (X * P) * 2^h = P * 2^a
    <2>1. X * P <= N * 4
      BY <1>4, <1>5, <1>6
    <2> QED BY <1>4, <1>5, <1>6, <1>7, <2>1
  <1>13. a # 0 /\ ~(a > K) /\ M # 0 /\ ~(M > 4 * N) /\ P # 0 /\ ~(P > 4)
         /\ ~(2^a * M < 2 * N) /\ ~(X * P >= 8 * N)
    BY <1>2, <1>4, <1>5, <1>6, <1>7, <1>8, <1>12
  <1>14. /\ r.level = a /\ r.col_size = M /\ r.split = P /\ r.index = 2^h
         /\ r.mat_len = X * P
    BY <1>3
  <1>15. ASSUME NEW e \in config_error(r) PROVE FALSE
    <2> DEFINE row_size == 2^(r.level % 16)
    <2>0. row_size = 2^a
      BY <1>10, <1>14
    <2>1. e \in 0..4
      BY <1>15 DEF config_error
    <2>2. e = 0 => r.level = 0 \/ r.level > Log2(N)
      BY <1>15 DEF config_error
    <2>3. e = 1 => \/ r.col_size = 0 \/ r.col_size > 4 * N
                   \/ row_size * (r.col_size % (8 * N)) < 2 * N
      BY <1>15 DEF config_error
    <2>4. e = 2 => r.split = 0 \/ r.split > 4
      BY <1>15 DEF config_error
    <2>5. e = 3 => ~(IsTwoPower(r.index) /\ r.index <= N)
      BY <1>15 DEF config_error
    <2>6. e = 4 => \/ r.mat_len >= 8 * N
                   \/ (r.mat_len * r.index) % (8 * N)
                        # (r.split * row_size) % (8 * N)
      BY <1>15 DEF config_error
    <2> HIDE DEF row_size
    <2>7. e # 0
      BY <1>9, <1>13, <1>14, <2>2
    <2>8. e # 1
      BY <1>10, <1>13, <1>14, <2>0, <2>3
    <2>9. e # 2
      BY <1>13, <1>14, <2>4
    <2>10. e # 3
      BY <1>6, <1>11, <1>14, <2>5
    <2>11. e # 4
      BY <1>12, <1>13, <1>14, <2>0, <2>6
    <2> QED BY <2>1, <2>7, <2>8, <2>9, <2>10, <2>11
  <1> QED BY <1>15 DEF r

-----------------------------------------------------------------------------
(* What ecd_program makes of the matrix.                                   *)
Polynomials(s, size) ==
  [b \in (0..(num_row_blks(s) - 1)) \X (0..(num_col_blks(s) - 1)) |->
     ecd_program(b[1], b[2], rblk_bgn(b[1], size, s), s)]

(* What every state of a call has.                                         *)
KInv ==
  /\ pc \in {"idle", "encode", "core", "run", "started"}
  /\ pc # "idle" => MatVecShape(shape)
  /\ pc \in {"core", "run", "started"} => pt_mat = Polynomials(shape, tpool_sze)
  /\ pc \in {"run", "started"} => args = CoreArgs(shape)
                                  /\ h_mat = Arranged(shape)
  /\ pc = "started" => regs = KernelArgs(args)

(* The number of polynomials.                                              *)
LEMMA PolynomialsCounted ==
  ASSUME NEW s, MatVecShape(s)
  PROVE  Cardinality((0..(num_row_blks(s) - 1)) \X (0..(num_col_blks(s) - 1)))
           = num_row_blks(s) * num_col_blks(s)
  <1> DEFINE nb == num_row_blks(s)
             nc == num_col_blks(s)
  <1>1. PICK K, a, h : Exponents(s, N, K, a, h)
    BY MatVecShapeGood, DegreeRight, ShapeExponents
  <1>2. nb = 2^(a - h) /\ nc = Parts(s, K, h) /\ Parts(s, K, h) \in 1..4
    BY <1>1, CoreArgsAre, TwoCases
  <1>3. nb \in Nat /\ nb >= 1 /\ nc \in Nat /\ nc >= 1
    BY <1>1, <1>2, TwoHalves, NatPower
  <1> HIDE DEF nb, nc
  <1>4. IsFiniteSet(0..(nb - 1)) /\ Cardinality(0..(nb - 1)) = nb
    BY <1>3, FS_Interval
  <1>5. IsFiniteSet(0..(nc - 1)) /\ Cardinality(0..(nc - 1)) = nc
    BY <1>3, FS_Interval
  <1>6. Cardinality((0..(nb - 1)) \X (0..(nc - 1))) = nb * nc
    <2> DEFINE S == 0..(nb - 1)
               T == 0..(nc - 1)
    <2> HIDE DEF S, T
    <2>1. IsFiniteSet(S) /\ IsFiniteSet(T) /\ Cardinality(S) = nb
          /\ Cardinality(T) = nc
      BY <1>4, <1>5 DEF S, T
    <2>2. Cardinality(S \X T) = Cardinality(S) * Cardinality(T)
      BY <2>1, FS_Product
    <2> QED BY <2>1, <2>2 DEF S, T
  <1> QED BY <1>6 DEF nb, nc

(* KInv is inductive.                                                      *)
LEMMA KInvStep == KInv /\ [Next]_vars => KInv'
  <1> SUFFICES ASSUME KInv, [Next]_vars PROVE KInv'
    OBVIOUS
  <1>1. ASSUME NEW s \in Shapes, NEW size \in PoolSizes, Call(s, size)
        PROVE  KInv'
    <2>1. MatVecShape(s)
      BY <1>1, ShapeAssumption DEF Call, MatVecShape
    <2> QED BY <1>1, <2>1 DEF Call, KInv
  <1>2. CASE Encode
    BY <1>2 DEF Encode, KInv, Polynomials
  <1>3. CASE MatVecCore
    <2>1. CoreAccepts(args', Cardinality(DOMAIN pt_mat))
      BY <1>3, CoreAcceptsAll, PolynomialsCounted
         DEF MatVecCore, KInv, Polynomials
    <2> QED BY <1>3, <2>1 DEF MatVecCore, KInv
  <1>4. CASE KernelRun
    <2>1. config_error(regs') = {}
      BY <1>4, NoConfigError DEF KernelRun, KInv
    <2> QED BY <1>4, <2>1 DEF KernelRun, KInv
  <1>5. CASE Return
    BY <1>5 DEF Return, KInv
  <1>6. CASE UNCHANGED vars
    BY <1>6 DEF vars, KInv
  <1> QED BY <1>1, <1>2, <1>3, <1>4, <1>5, <1>6 DEF Next

(* The checks of MatVecCore and of mvp_top.v refuse no matrix that         *)
(* check_config of MVPPrivImpl lets in, whatever its shape and whichever   *)
(* the ring degree up to 4096.                                             *)
THEOREM CardAlwaysAccepts == Spec => []CardAccepts
  <1>1. Init => KInv
    BY DEF Init, KInv
  <1>2. KInv => CardAccepts
    BY DEF KInv, CardAccepts
  <1> QED BY <1>1, <1>2, KInvStep, PTL DEF Spec

(* A job of one block of the python wrapper ends before the second input   *)
(* slot of the card begins, and so does its result.                        *)
THEOREM BlocksStayApart == Spec => []BlocksApart
  <1>1. Init => KInv
    BY DEF Init, KInv
  <1>2. KInv => BlocksApart
    <2> SUFFICES ASSUME KInv, pc = "started", shape.ncols <= 2 * N
                 PROVE  /\ input_end(1, args, regs.mat_len) <= input_addr(2)
                        /\ output_addr(1) + outputsize <= input_addr(2)
      BY DEF BlocksApart
    <2> DEFINE s == shape
    <2>1. MatVecShape(s) /\ args = CoreArgs(s) /\ regs = KernelArgs(args)
      BY DEF KInv
    <2>2. PICK K, a, h : Exponents(s, N, K, a, h)
      BY <2>1, MatVecShapeGood, DegreeRight, ShapeExponents
    <2> DEFINE P == Parts(s, K, h)
               X == 2^(a - h)
    <2>3. args.vec = P /\ regs.mat_len = X * P
      BY <2>1, <2>2, CoreArgsAre, RegistersAre
    <2>4. N \in Nat /\ N >= 8 /\ X \in Nat /\ X <= N /\ P \in 1..2
      <3>1. a - h \in Nat /\ a - h <= K /\ K \in Nat /\ N = 2^K
        BY <2>1, <2>2, TwoHalves DEF Exponents
      <3>2. X \in Nat /\ X <= N /\ N \in Nat
        BY <3>1, NatPower, PowersGrow
      <3>3. P \in 1..2
        BY <2>1, <2>2, TwoCases
      <3> QED BY <3>2, <3>3, ShapeAssumption
    <2> HIDE DEF P, X
    <2>5. X * P <= 2 * N /\ X * P \in Nat
      BY <2>4
    <2>6. (2 * N * 3 * 8) * P <= 12 * (N * N)
      BY <2>4
    <2>7. (N * 3 * 8) * (X * P) <= 48 * (N * N)
      <3> DEFINE L == X * P
      <3> HIDE DEF L
      <3>1. N * L <= N * (2 * N)
        BY <2>4, <2>5 DEF L
      <3> QED BY <2>4, <2>5, <3>1 DEF L
    <2>8. 2 * N * 2 * 8 <= 4 * (N * N)
      BY <2>4
    <2>9. input_end(1, args, regs.mat_len)
            = 16 * N * N + (2 * N * 3 * 8) * P + (N * 3 * 8) * (X * P)
      BY <2>3 DEF input_end, mat_addr, input_addr, vec_chuck_size, mat_chuck_size
    <2>10. input_addr(2) = 80 * N * N
           /\ output_addr(1) + outputsize = 48 * N * N + 2 * N * 2 * 8
      BY DEF input_addr, output_addr, outputsize
    <2> QED BY <2>4, <2>5, <2>6, <2>7, <2>8, <2>9, <2>10
  <1> QED BY <1>1, <1>2, KInvStep, PTL DEF Spec

-----------------------------------------------------------------------------
(* The order of the polynomials *)

Transposed(e, nc) == TransposeInplace(e, 2, nc)
SourceOf(i, nc)   == CHOOSE e \in 0..(2 * nc - 1) : Transposed(e, nc) = i

(* TransposeInplace permutes a pair of row blocks of one to four parts.    *)
LEMMA TransposePermutes ==
  ASSUME NEW nc \in 1..4
  PROVE  /\ \A e \in 0..(2 * nc - 1) : Transposed(e, nc) \in 0..(2 * nc - 1)
         /\ \A d, e \in 0..(2 * nc - 1) :
              Transposed(d, nc) = Transposed(e, nc) => d = e
         /\ \A i \in 0..(2 * nc - 1) :
              \E e \in 0..(2 * nc - 1) : Transposed(e, nc) = i
  <1> DEFINE size == 2 * nc - 1
             back(i) == IF i = 0 \/ i = size THEN i ELSE (i * nc) % size
  <1>1. \A e : Transposed(e, nc) = IF e = 0 \/ e = size THEN e
                                   ELSE (e * 2) % size
    BY DEF Transposed, TransposeInplace
  <1>2. \A e \in 0..size : Transposed(e, nc) \in 0..size
    BY <1>1
  <1>3. \A d, e \in 0..size : Transposed(d, nc) = Transposed(e, nc) => d = e
    <2>1. CASE nc = 1
      BY <1>1, <2>1
    <2>2. CASE nc = 2
      BY <1>1, <2>2
    <2>3. CASE nc = 3
      BY <1>1, <2>3
    <2>4. CASE nc = 4
      BY <1>1, <2>4
    <2> QED BY <2>1, <2>2, <2>3, <2>4
  <1>4. \A i \in 0..size : back(i) \in 0..size /\ Transposed(back(i), nc) = i
    <2>1. CASE nc = 1
      BY <1>1, <2>1
    <2>2. CASE nc = 2
      BY <1>1, <2>2
    <2>3. CASE nc = 3
      BY <1>1, <2>3
    <2>4. CASE nc = 4
      BY <1>1, <2>4
    <2> QED BY <2>1, <2>2, <2>3, <2>4
  <1> HIDE DEF back
  <1> QED BY <1>2, <1>3, <1>4

(* The source of a word of the transposed block, and back.                 *)
LEMMA SourceInverts ==
  ASSUME NEW nc \in 1..4, NEW i \in 0..(2 * nc - 1)
  PROVE  SourceOf(i, nc) \in 0..(2 * nc - 1)
         /\ SourceOf(Transposed(i, nc), nc) = i
  <1>1. SourceOf(i, nc) \in 0..(2 * nc - 1)
    <2>1. \E e \in 0..(2 * nc - 1) : Transposed(e, nc) = i
      BY TransposePermutes
    <2> QED BY <2>1 DEF SourceOf
  <1>2. SourceOf(Transposed(i, nc), nc) \in 0..(2 * nc - 1)
        /\ Transposed(SourceOf(Transposed(i, nc), nc), nc) = Transposed(i, nc)
    <2>1. \E e \in 0..(2 * nc - 1) : Transposed(e, nc) = Transposed(i, nc)
      OBVIOUS
    <2> QED BY <2>1 DEF SourceOf
  <1> QED BY <1>1, <1>2, TransposePermutes

(* MatVecCore uploads every polynomial of the matrix, and no other.        *)
LEMMA ArrangedAll ==
  ASSUME NEW s, MatVecShape(s)
  PROVE  LET nb == num_row_blks(s)
             nc == num_col_blks(s)
         IN /\ DOMAIN Arranged(s) = 0..(nb * nc - 1)
            /\ {Arranged(s)[i] : i \in 0..(nb * nc - 1)}
                 = (0..(nb - 1)) \X (0..(nc - 1))
  <1> DEFINE nb == num_row_blks(s)
             nc == num_col_blks(s)
  <1>1. PICK K, a, h : Exponents(s, N, K, a, h)
    BY MatVecShapeGood, DegreeRight, ShapeExponents
  <1> DEFINE L == a - h
  <1>2. L \in Nat /\ L - 1 \in Nat /\ (L - 1) + 1 = L
    BY <1>1, TwoHalves
  <1>3. nb = 2^L /\ nc \in 1..4
    BY <1>1, CoreArgsAre, TwoCases
  <1> DEFINE B == 2^(L - 1)
             D == 2 * nc
             e(i) == SourceOf(i % D, nc)
             rblk(i) == 2 * (i \div D) + e(i) \div nc
  <1>4. B \in Nat /\ B >= 1 /\ nb = 2 * B
    BY <1>2, <1>3, NatPower, NextPower
  <1>5. Log2(nb) = L
    BY <1>2, <1>3, Log2OfPower
  <1>6. Arranged(s) = [i \in 0..(nb * nc - 1) |->
                         <<reverse_bits(rblk(i), L), e(i) % nc>>]
    BY <1>5 DEF Arranged, SourceOf, Transposed
  <1> HIDE DEF nb, nc, L, B
  <1>7. ASSUME NEW i \in 0..(nb * nc - 1)
        PROVE  /\ e(i) % nc \in 0..(nc - 1)
               /\ reverse_bits(rblk(i), L) \in 0..(nb - 1)
    <2>1. i % D \in 0..(D - 1) /\ i \div D \in 0..(B - 1)
      <3>1. nb * nc = B * D
        BY <1>3, <1>4
      <3>2. i \in Nat /\ i < B * D /\ D \in Nat /\ D >= 1
        BY <1>3, <1>4, <3>1
      <3> HIDE DEF D
      <3>3. i % D \in 0..(D - 1) /\ i = (i \div D) * D + (i % D) /\ i \div D \in Nat
        BY <3>2, DivMod
      <3>4. i \div D < B
        <4> DEFINE w == i \div D
        <4> HIDE DEF w
        <4>1. w \in Nat /\ w * D <= i
          BY <3>2, <3>3 DEF w
        <4>2. ~(w >= B)
          <5> SUFFICES ASSUME w >= B PROVE FALSE
            OBVIOUS
          <5>1. w * D >= B * D
            BY <1>4, <3>2, <4>1
          <5> QED BY <1>4, <3>2, <4>1, <5>1
        <4> QED BY <1>4, <4>1, <4>2 DEF w
      <3> QED BY <1>4, <3>3, <3>4
    <2>2. e(i) \in 0..(D - 1)
      BY <1>3, <2>1, SourceInverts
    <2> DEFINE x == e(i)
               y == i \div D
    <2> HIDE DEF e, x, y
    <2>3. x % nc \in 0..(nc - 1) /\ x \div nc \in 0..1
      BY <1>3, <2>2 DEF x
    <2>4. 2 * y + x \div nc \in 0..(nb - 1)
      BY <1>4, <2>1, <2>3 DEF y
    <2>5. rblk(i) \in 0..(2^L - 1)
      BY <1>3, <2>4 DEF x, y
    <2> HIDE DEF rblk
    <2> QED BY <1>2, <1>3, <2>3, <2>5, ReverseBits DEF x
  <1>8. ASSUME NEW x \in 0..(nb - 1), NEW y \in 0..(nc - 1)
        PROVE  \E i \in 0..(nb * nc - 1) :
                 <<reverse_bits(rblk(i), L), e(i) % nc>> = <<x, y>>
    <2> DEFINE r == reverse_bits(x, L)
               d == (r % 2) * nc + y
               T == Transposed(d, nc)
               i == (r \div 2) * D + T
    <2>1. r \in 0..(nb - 1) /\ reverse_bits(r, L) = x
      BY <1>2, <1>3, ReverseBits
    <2> HIDE DEF r
    <2>2. r \div 2 \in 0..(B - 1) /\ r % 2 \in 0..1 /\ r = 2 * (r \div 2) + (r % 2)
      BY <1>4, <2>1
    <2> DEFINE p == r % 2
               w == r \div 2
    <2> HIDE DEF p, w
    <2>3. /\ d \in 0..(D - 1) /\ d \div nc = r % 2 /\ d % nc = y
      <3>1. p \in 0..1 /\ p \in Nat /\ nc \in Nat
        BY <1>3, <2>2 DEF p
      <3>2. p * nc + y \in 0..(D - 1)
        <4>1. CASE p = 0
          BY <1>3, <4>1
        <4>2. CASE p = 1
          BY <1>3, <4>2
        <4> QED BY <3>1, <4>1, <4>2
      <3>3. (p * nc + y) \div nc = p /\ (p * nc + y) % nc = y
        BY <3>1, DivModIs
      <3> QED BY <3>2, <3>3 DEF p
    <2> HIDE DEF d
    <2>4. T \in 0..(D - 1) /\ SourceOf(T, nc) = d
      BY <1>3, <2>3, TransposePermutes, SourceInverts
    <2> HIDE DEF T
    <2>5. i \div D = w /\ i % D = T
      <3>1. w \in Nat /\ D \in Nat
        BY <1>3, <1>4, <2>2 DEF w
      <3> HIDE DEF D
      <3>2. (w * D + T) \div D = w /\ (w * D + T) % D = T
        BY <2>4, <3>1, DivModIs
      <3> QED BY <3>2 DEF w
    <2>6. i \in 0..(nb * nc - 1)
      BY <1>3, <1>4, <2>2, <2>4
    <2> HIDE DEF i
    <2>7. e(i) = d
      BY <2>4, <2>5
    <2>8. rblk(i) = r
      BY <2>2, <2>3, <2>5, <2>7 DEF w
    <2>9. reverse_bits(rblk(i), L) = x /\ e(i) % nc = y
      BY <2>1, <2>3, <2>7, <2>8
    <2> QED BY <2>6, <2>9
  <1> HIDE DEF rblk, e
  <1>9. {Arranged(s)[i] : i \in 0..(nb * nc - 1)} = (0..(nb - 1)) \X (0..(nc - 1))
    BY <1>6, <1>7, <1>8
  <1>10. DOMAIN Arranged(s) = 0..(nb * nc - 1)
    BY <1>6
  <1> QED BY <1>9, <1>10 DEF nb, nc

(* The registers that KernelRun writes describe what was uploaded: every   *)
(* polynomial that ecd_program made, once, as many vector parts and rows   *)
(* to a polynomial as there are.                                           *)
THEOREM RegistersAlwaysTrue == Spec => []RegistersTrue
  <1>1. Init => KInv
    BY DEF Init, KInv
  <1>2. KInv => RegistersTrue
    <2> SUFFICES ASSUME KInv, pc = "started" PROVE RegistersTrue
      BY DEF RegistersTrue
    <2> DEFINE s  == shape
               nb == num_row_blks(s)
               nc == num_col_blks(s)
    <2>1. /\ MatVecShape(s) /\ args = CoreArgs(s) /\ regs = KernelArgs(args)
          /\ h_mat = Arranged(s)
          /\ DOMAIN pt_mat = (0..(nb - 1)) \X (0..(nc - 1))
      BY DEF KInv, Polynomials
    <2>2. PICK K, a, h : Exponents(s, N, K, a, h)
      BY <2>1, MatVecShapeGood, DegreeRight, ShapeExponents
    <2> DEFINE P == Parts(s, K, h)
    <2>3. args.vec = P /\ nb = 2^(a - h) /\ nc = P
      BY <2>1, <2>2, CoreArgsAre
    <2>4. regs.level = a /\ regs.split = P /\ regs.index = 2^h
          /\ regs.mat_len = 2^(a - h) * P
      BY <2>1, <2>2, RegistersAre
    <2>5. regs.mat_len = nb * nc
      BY <2>3, <2>4
    <2>6. /\ DOMAIN h_mat = 0..(regs.mat_len - 1)
          /\ {h_mat[i] : i \in DOMAIN h_mat} = DOMAIN pt_mat
      <3> HIDE DEF nb, nc
      <3>1. DOMAIN Arranged(s) = 0..(nb * nc - 1)
            /\ {Arranged(s)[i] : i \in 0..(nb * nc - 1)}
                 = (0..(nb - 1)) \X (0..(nc - 1))
        BY <2>1, ArrangedAll DEF nb, nc
      <3> QED BY <2>1, <2>5, <3>1
    <2>7. P = 1 \/ 2^h = 1
      BY <2>1, <2>2, TwoCases, PowerZero
    <2>8. 2 * 2^h <= 2^a
      <3>1. a \in Nat /\ h \in Nat /\ h + 1 <= a
        BY <2>1, <2>2, TwoHalves
      <3>2. 2^(h + 1) <= 2^a /\ 2^(h + 1) = 2 * 2^h
        BY <3>1, PowersGrow, NextPower
      <3> QED BY <3>2
    <2>9. GetSubmatrixShape(s, N).rows = 2^h
      BY <2>2 DEF Exponents
    <2> HIDE DEF P
    <2> QED BY <2>3, <2>4, <2>6, <2>7, <2>8, <2>9 DEF RegistersTrue
  <1> QED BY <1>1, <1>2, KInvStep, PTL DEF Spec

-----------------------------------------------------------------------------
(* Where the rows end up *)

(* The transposition of a pair of row blocks interleaves their parts.      *)
LEMMA SourceIs ==
  ASSUME NEW nc \in 1..4, NEW v \in 0..(nc - 1), NEW t \in 0..1
  PROVE  /\ 2 * v + t \in 0..(2 * nc - 1)
         /\ SourceOf(2 * v + t, nc) = t * nc + v
  <1> DEFINE e == t * nc + v
  <1>1. e \in 0..(2 * nc - 1) /\ Transposed(e, nc) = 2 * v + t
    <2>1. e = IF t = 0 THEN v ELSE nc + v
      <3>1. CASE t = 0
        BY <3>1
      <3>2. CASE t = 1
        BY <3>2
      <3> QED BY <3>1, <3>2
    <2> HIDE DEF e
    <2>2. Transposed(e, nc) = IF e = 0 \/ e = 2 * nc - 1 THEN e
                              ELSE (e * 2) % (2 * nc - 1)
      BY DEF Transposed, TransposeInplace
    <2>3. CASE nc = 1
      BY <2>1, <2>2, <2>3
    <2>4. CASE nc = 2
      BY <2>1, <2>2, <2>4
    <2>5. CASE nc = 3
      BY <2>1, <2>2, <2>5
    <2>6. CASE nc = 4
      BY <2>1, <2>2, <2>6
    <2> QED BY <2>3, <2>4, <2>5, <2>6
  <1> HIDE DEF e
  <1>2. SourceOf(Transposed(e, nc), nc) = e
    BY <1>1, SourceInverts
  <1> QED BY <1>1, <1>2 DEF e

(* Polynomial t of batch v of group g is part v of row block 2 * g + t, in *)
(* bit-reversed order.                                                     *)
LEMMA BatchIs ==
  ASSUME NEW s, MatVecShape(s), NEW K, NEW a, NEW h, Exponents(s, N, K, a, h),
         NEW g \in 0..(2^(a - h - 1) - 1), NEW t \in 0..1,
         NEW v \in 0..(Parts(s, K, h) - 1)
  PROVE  Arranged(s)[2 * (g * Parts(s, K, h) + v) + t]
           = <<reverse_bits(2 * g + t, a - h), v>>
  <1> DEFINE nb == num_row_blks(s)
             nc == num_col_blks(s)
             L == a - h
             B == 2^(a - h - 1)
             D == 2 * nc
             e(i) == SourceOf(i % D, nc)
             rblk(i) == 2 * (i \div D) + e(i) \div nc
             i0 == g * D + (2 * v + t)
  <1>2. L \in Nat /\ L - 1 \in Nat /\ (L - 1) + 1 = L /\ a - h - 1 = L - 1
    BY TwoHalves
  <1>3. nb = 2^L /\ nc \in 1..4 /\ nc = Parts(s, K, h)
    BY CoreArgsAre, TwoCases
  <1>4. B \in Nat /\ B >= 1 /\ nb = 2 * B
    BY <1>2, <1>3, NatPower, NextPower
  <1>5. Log2(nb) = L
    BY <1>2, <1>3, Log2OfPower
  <1>6. Arranged(s) = [i \in 0..(nb * nc - 1) |->
                         <<reverse_bits(rblk(i), L), e(i) % nc>>]
    BY <1>5 DEF Arranged, SourceOf, Transposed
  <1> HIDE DEF nb, nc, L, B
  <1>7. v \in 0..(nc - 1) /\ g \in 0..(B - 1) /\ g \in Nat /\ v \in Nat
    BY <1>3, <1>4 DEF B
  <1>8. 2 * v + t \in 0..(D - 1) /\ SourceOf(2 * v + t, nc) = t * nc + v
    BY <1>3, <1>7, SourceIs
  <1>9. i0 \div D = g /\ i0 % D = 2 * v + t
    <2>1. D \in Nat
      BY <1>3
    <2> DEFINE w == 2 * v + t
    <2> HIDE DEF D, w
    <2>2. w \in 0..(D - 1)
      BY <1>8 DEF w
    <2>3. (g * D + w) \div D = g /\ (g * D + w) % D = w
      BY <1>7, <2>1, <2>2, DivModIs
    <2> QED BY <2>3 DEF w
  <1>10. i0 \in 0..(nb * nc - 1) /\ i0 = 2 * (g * nc + v) + t
    <2>1. CASE nc = 1
      BY <1>4, <1>7, <1>8, <2>1
    <2>2. CASE nc = 2
      BY <1>4, <1>7, <1>8, <2>2
    <2>3. CASE nc = 3
      BY <1>4, <1>7, <1>8, <2>3
    <2>4. CASE nc = 4
      BY <1>4, <1>7, <1>8, <2>4
    <2> QED BY <1>3, <2>1, <2>2, <2>3, <2>4
  <1> HIDE DEF i0
  <1>11. e(i0) \div nc = t /\ e(i0) % nc = v
    <2>1. nc \in Nat /\ t \in Nat
      BY <1>3
    <2>2. (t * nc + v) \div nc = t /\ (t * nc + v) % nc = v
      BY <1>7, <2>1, DivModIs
    <2> QED BY <1>8, <1>9, <2>2
  <1>12. rblk(i0) = 2 * g + t
    BY <1>9, <1>11
  <1> HIDE DEF rblk, e
  <1>13. Arranged(s)[i0] = <<reverse_bits(2 * g + t, L), v>>
    BY <1>6, <1>10, <1>11, <1>12
  <1> QED BY <1>3, <1>10, <1>13 DEF L

(* The row block that MatVecCore puts at 2 * g + t, and where the packing  *)
(* tree leaves half t of leaf x of group g.                                *)
BlockAt(g, t, a, h)  == reverse_bits(2 * g + t, a - h)
LeafAt(g, x, t, a, h) == reverse_bits(2 * (g * 2^h + x) + t, a)

(* The bit reversals of the encoder (of the rows in a polynomial) and of   *)
(* MatVecCore (of the row blocks) make up that of the packing tree.        *)
LEMMA ReversalsMeet ==
  ASSUME NEW s, MatVecShape(s), NEW K, NEW a, NEW h, Exponents(s, N, K, a, h),
         NEW g \in 0..(2^(a - h - 1) - 1), NEW t \in 0..1,
         NEW x \in 0..(2^h - 1)
  PROVE  /\ BlockAt(g, t, a, h) \in 0..(2^(a - h) - 1)
         /\ LeafAt(g, x, t, a, h) \in Nat
         /\ row_base(BlockAt(g, t, a, h), s) + reverse_bits(x, a - 1)
              = LeafAt(g, x, t, a, h)
  <1> DEFINE p == a - h - 1
             b == a - 1
             y == g * 2^h + x
             G == reverse_bits(g, p)
             X == reverse_bits(x, b)
             rho == reverse_bits(2 * g + t, a - h)
  <1>1. /\ a \in Nat /\ h \in Nat /\ p \in Nat /\ b \in Nat
        /\ p + 1 = a - h /\ b + 1 = a /\ p + h = b /\ a - h \in Nat
    BY TwoHalves
  <1> HIDE DEF p, b
  <1>2. g \in 0..(2^p - 1)
    BY DEF p
  <1>3. /\ y \in 0..(2^b - 1) /\ x \in 0..(2^b - 1)
        /\ reverse_bits(y, b) = X + G
    <2>1. /\ g * 2^h + x \in 0..(2^(p + h) - 1) /\ x \in 0..(2^(p + h) - 1)
          /\ reverse_bits(g * 2^h + x, p + h)
               = reverse_bits(x, p + h) + reverse_bits(g, p)
      BY <1>1, <1>2, ReverseParts
    <2> QED BY <1>1, <2>1
  <1>4. /\ G \in 0..(2^p - 1) /\ X \in 0..(2^b - 1)
        /\ 2^p \in Nat /\ 2^b \in Nat
    BY <1>1, <1>2, <1>3, ReversedBits, NatPower
  <1>5. rho = t * 2^p + G /\ 2 * g + t \in 0..(2^(a - h) - 1)
    <2>1. /\ 2 * g + t \in 0..(2^(p + 1) - 1)
          /\ reverse_bits(2 * g + t, p + 1) = t * 2^p + reverse_bits(g, p)
      BY <1>1, <1>2, ReverseLowest
    <2> QED BY <1>1, <2>1
  <1>6. /\ reverse_bits(2 * y + t, a) = t * 2^b + (X + G)
        /\ 2 * y + t \in 0..(2^a - 1)
    <2> HIDE DEF y, X, G
    <2>1. reverse_bits(2 * y + t, b + 1) = t * 2^b + reverse_bits(y, b)
          /\ 2 * y + t \in 0..(2^(b + 1) - 1)
      BY <1>1, <1>3, ReverseLowest
    <2> QED BY <1>1, <1>3, <2>1
  <1>7. rho \in 0..(2^(a - h) - 1)
    BY <1>1, <1>5, ReversedBits
  <1>8. num_row_blks(s) \div 2 = 2^p /\ NextPow2(s.nrows) \div 2 = 2^b
    <2>1. num_row_blks(s) = 2^(a - h) /\ NextPow2(s.nrows) = 2^a
      BY CoreArgsAre, ZenonT(60) DEF Exponents
    <2>2. 2^(p + 1) = 2 * 2^p /\ 2^(b + 1) = 2 * 2^b
      BY <1>1, NextPower
    <2>3. 2^(a - h) = 2 * 2^p /\ 2^a = 2 * 2^b
      BY <1>1, <2>2
    <2> DEFINE Q == 2^p
               S == 2^b
    <2> HIDE DEF Q, S
    <2>4. (2 * Q) \div 2 = Q /\ (2 * S) \div 2 = S
      BY <1>4 DEF Q, S
    <2> QED BY <2>1, <2>3, <2>4 DEF Q, S
  <1>9. row_base(rho, s) = IF rho < 2^p THEN rho ELSE 2^b + rho - 2^p
    BY <1>8 DEF row_base
  <1> DEFINE Q == 2^p
             S == 2^b
             z == reverse_bits(2 * y + t, a)
  <1>10. /\ Q \in Nat /\ S \in Nat /\ G \in 0..(Q - 1) /\ X \in 0..(S - 1)
         /\ rho = t * Q + G /\ z = t * S + (X + G)
         /\ row_base(rho, s) = IF rho < Q THEN rho ELSE S + rho - Q
    BY <1>4, <1>5, <1>6, <1>9
  <1> HIDE DEF rho, Q, S, z, G, X
  <1>11. row_base(rho, s) + X = z /\ z \in Nat
    <2>1. CASE t = 0
      <3>1. rho = G /\ z = X + G
        BY <1>10, <2>1
      <3> QED BY <1>10, <3>1
    <2>2. CASE t = 1
      <3>1. rho = Q + G /\ z = S + (X + G)
        BY <1>10, <2>2
      <3> QED BY <1>10, <3>1
    <2> QED BY <2>1, <2>2
  <1> QED BY <1>7, <1>11 DEF rho, X, z, b, BlockAt, LeafAt

(* Coefficient (x + 1) * C - 1 of a polynomial times its part of the       *)
(* vector, C columns to a row: column c meets its own cell of row x of the *)
(* polynomial, and nothing wraps round.                                    *)
LEMMA CellMeetsColumn ==
  ASSUME NEW s, MatVecShape(s), NEW K, NEW a, NEW h, Exponents(s, N, K, a, h),
         NEW x \in 0..(2^h - 1), NEW rho, NEW bgn, NEW r \in Nat,
         r = row_base(rho, s) + reverse_bits(x, a - 1), r < s.nrows,
         NEW c \in 0..(s.ncols - 1), NEW v \in Nat, c \div 2^(K - h) = v
  PROVE  LET d == (x + 1) * 2^(K - h) - 1 - vec_coeff(c, s)
         IN /\ ~(d < 0) /\ d % N = d
            /\ ecd_program(rho, v, bgn, s)[d] = <<r, c>>
  <1> DEFINE C == 2^(K - h)
             R == 2^h
             m == c % C
             u == C - 1 - m
             d == (x + 1) * C - 1 - m
  <1>1. /\ K \in Nat /\ h \in Nat /\ h <= K /\ K - h \in Nat
        /\ a \in Nat /\ a - 1 \in Nat /\ (a - 1) + 1 = a
    BY TwoHalves
  <1>2. C \in Nat /\ C >= 1 /\ R \in Nat /\ R >= 1 /\ N = C * R
    BY <1>1, NatPower, PowersDivide DEF Exponents
  <1>3. /\ GetSubmatrixShape(s, N).rows = R /\ GetSubmatrixShape(s, N).cols = C
        /\ NextPow2(s.nrows) = 2^a
    BY DEF Exponents
  <1>4. vec_coeff(c, s) = m
    BY <1>3 DEF vec_coeff
  <1>5. Log2(2^a - 1) = a - 1
    <2>1. 2^(a - 1) \in Nat /\ 2^(a - 1) >= 1 /\ 2^a = 2 * 2^(a - 1)
      <3>1. 2^((a - 1) + 1) = 2 * 2^(a - 1)
        BY <1>1, NextPower
      <3> QED BY <1>1, <3>1, NatPower
    <2> DEFINE S == 2^(a - 1)
    <2>2. 2^a - 1 \in Nat /\ S <= 2^a - 1 /\ 2^a - 1 < 2^((a - 1) + 1)
      <3>1. 2^((a - 1) + 1) = 2^a
        BY <1>1
      <3> QED BY <2>1, <3>1
    <2> QED BY <1>1, <2>2, Log2Is
  <1> DEFINE kept == ecd_program(rho, v, bgn, s)
             col(k) == v * C + (C - 1 - (k % C))
  <1>6. ASSUME NEW k \in 0..(N - 1), k \div C = x, col(k) = c
        PROVE  kept[k] = <<r, c>>
    <2>1. row(rho, k \div C, s) = r
      BY <1>3, <1>5, <1>6 DEF row
    <2>2. ~(k \div C >= R)
      BY <1>2, <1>6
    <2>3. c < s.ncols
      BY MatVecShapeGood
    <2> HIDE DEF C, R
    <2> QED BY <1>3, <1>6, <2>1, <2>2, <2>3 DEF ecd_program
  <1> HIDE DEF kept
  <1> HIDE DEF C, R
  <1>7. s.ncols \in Nat /\ c \in Nat /\ c < s.ncols
    BY MatVecShapeGood
  <1>8. m \in 0..(C - 1) /\ c = v * C + m
    <2>1. c = (c \div C) * C + (c % C) /\ c % C \in 0..(C - 1)
      BY <1>2, <1>7, DivMod
    <2> QED BY <2>1 DEF C
  <1> HIDE DEF m
  <1>9. u \in 0..(C - 1) /\ C - 1 - u = m /\ x \in Nat /\ x < R
    BY <1>2, <1>8 DEF R
  <1>10. d = x * C + u
    BY <1>2, <1>8, <1>9
  <1> HIDE DEF u, d
  <1>11. d \div C = x /\ d % C = u
    BY <1>2, <1>9, <1>10, DivModIs
  <1>12. d \in 0..(N - 1)
    <2>1. x * C <= (R - 1) * C /\ x * C \in Nat
      BY <1>2, <1>9
    <2>2. (R - 1) * C = N - C /\ N \in Nat
      BY <1>2
    <2> QED BY <1>2, <1>9, <1>10, <2>1, <2>2
  <1>13. ~(d < 0) /\ d % N = d
    BY <1>2, <1>12
  <1>14. col(d) = c
    BY <1>8, <1>9, <1>11
  <1>15. kept[d] = <<r, c>>
    BY <1>6, <1>11, <1>12, <1>14
  <1> QED BY <1>4, <1>13, <1>15 DEF d, C, kept

(* A multiple divides.                                                     *)
LEMMA DivExact ==
  ASSUME NEW w \in Nat, NEW d \in Nat, d >= 1
  PROVE  (w * d) \div d = w /\ (w * d) % d = 0
  OBVIOUS

(* Row r of the product is where Decrypt looks for it: for every shape and *)
(* every size of the pool the orders of ecd_program, MatVecCore and the    *)
(* packing tree cancel, and each coefficient that the card extracts for a  *)
(* row of the matrix is that whole row and nothing else; what ecd_program  *)
(* leaves in the slots of rows that do not exist never gets there.         *)
THEOREM RowsAlwaysPlaced == Spec => []RowsPlaced
  <1>1. Init => KInv
    BY DEF Init, KInv
  <1>2. KInv => RowsPlaced
    <2> DEFINE s == shape
    <2> SUFFICES ASSUME KInv, pc = "started",
                        NEW g \in 0..(2^regs.level \div (2 * regs.index) - 1),
                        NEW x \in 0..(regs.index - 1), NEW t \in {0, 1}
                 PROVE  LET stride == N \div NextPow2(s.nrows)
                            r == PackedAt(g, x, t) \div stride
                        IN /\ PackedAt(g, x, t) % stride = 0
                           /\ r < s.nrows =>
                                {q \in LeafSum(g, x, t) : q[1] # <<>>} =
                                  {<<<<r, c>>, c, FALSE>> :
                                     c \in 0..(s.ncols - 1)}
      BY DEF RowsPlaced
    <2>1. /\ MatVecShape(s) /\ args = CoreArgs(s) /\ regs = KernelArgs(args)
          /\ h_mat = Arranged(s) /\ pt_mat = Polynomials(s, tpool_sze)
      BY DEF KInv
    <2>2. PICK K, a, h : Exponents(s, N, K, a, h)
      BY <2>1, MatVecShapeGood, DegreeRight, ShapeExponents
    <2> DEFINE P == Parts(s, K, h)
               C == 2^(K - h)
               rho == BlockAt(g, t, a, h)
               r == LeafAt(g, x, t, a, h)
               stride == N \div 2^a
    <2>3. num_row_blks(s) = 2^(a - h) /\ num_col_blks(s) = P
      BY <2>1, <2>2, CoreArgsAre
    <2>4. regs.level = a /\ regs.split = P /\ regs.index = 2^h
          /\ regs.col_size = Cols(s, K, h)
      BY <2>1, <2>2, RegistersAre
    <2>5. /\ a \in Nat /\ h \in Nat /\ K \in Nat /\ h + 1 <= a /\ a <= K
          /\ K - h \in Nat /\ K - a \in Nat /\ a - h - 1 \in Nat
          /\ a - (h + 1) = a - h - 1 /\ N = 2^K /\ NextPow2(s.nrows) = 2^a
          /\ GetSubmatrixShape(s, N).cols = C
      <3>1. a \in Nat /\ h \in Nat /\ K \in Nat /\ h + 1 <= a /\ a <= K
        BY <2>1, <2>2, TwoHalves
      <3>2. N = 2^K /\ NextPow2(s.nrows) = 2^a /\ GetSubmatrixShape(s, N).cols = C
        BY <2>2 DEF Exponents
      <3> HIDE DEF C
      <3> QED BY <3>1, <3>2
    <2>6. /\ 2^h \in Nat /\ 2^h >= 1 /\ C \in Nat /\ C >= 1 /\ N = C * 2^h
          /\ stride = 2^(K - a) /\ stride \in Nat /\ stride >= 1
      BY <2>5, NatPower, PowersDivide
    <2>7. g \in 0..(2^(a - h - 1) - 1) /\ x \in 0..(2^h - 1) /\ t \in 0..1
      <3>1. 2^a \div 2^(h + 1) = 2^(a - h - 1) /\ 2^(h + 1) = 2 * 2^h
        BY <2>5, PowersDivide, NextPower
      <3> QED BY <2>4, <3>1
    <2>8. /\ rho \in 0..(2^(a - h) - 1) /\ r \in Nat
          /\ row_base(rho, s) + reverse_bits(x, a - 1) = r
      BY <2>1, <2>2, <2>5, <2>7, ReversalsMeet
    <2> HIDE DEF rho, r
    <2>9. PackedAt(g, x, t) = r * stride
      BY <2>4 DEF PackedAt, r, LeafAt
    <2> HIDE DEF stride
    <2>10. (r * stride) \div stride = r /\ (r * stride) % stride = 0
      BY <2>6, <2>8, DivExact
    <2>11. coeff_index(x) = (x + 1) * C - 1
      <3>1. CASE h >= 1 /\ Cols(s, K, h) = C
        <4>1. 2^h > 1
          <5>1. h < 2^h
            BY <2>5, PowerLarge
          <5> QED BY <2>5, <2>6, <3>1, <5>1
        <4> QED BY <2>4, <3>1, <4>1 DEF coeff_index
      <3>2. CASE h = 0
        <4>1. 2^h = 1 /\ K - h = K
          BY <2>5, <3>2, PowerZero
        <4>2. C = N /\ x = 0
          BY <2>5, <2>7, <4>1
        <4>3. P = 1 => Cols(s, K, h) = N
          <5> SUFFICES ASSUME P = 1 PROVE Cols(s, K, h) = N
            OBVIOUS
          <5>1. CeilDiv(s.ncols, N) = 1 /\ Cols(s, K, h) = Greatest(s.ncols, N)
            BY <2>5, <4>1 DEF Parts, Cols
          <5>2. s.ncols \in Nat /\ s.ncols >= 1 /\ N \in Nat /\ N >= 1
            BY <2>1, <2>6, <4>2, MatVecShapeGood
          <5>3. s.ncols <= N
            BY <5>1, <5>2 DEF CeilDiv
          <5> QED BY <5>1, <5>2, <5>3 DEF Greatest
        <4>4. coeff_index(x) = N - 1
          BY <2>4, <4>1, <4>3 DEF coeff_index
        <4>5. (x + 1) * C - 1 = N - 1
          BY <2>6, <4>2
        <4> QED BY <4>4, <4>5
      <3>3. h = 0 \/ (h >= 1 /\ Cols(s, K, h) = C)
        BY <2>1, <2>2, TwoCases
      <3> QED BY <3>1, <3>2, <3>3
    <2>14. ASSUME r < s.nrows
           PROVE  {q \in LeafSum(g, x, t) : q[1] # <<>>} =
                    {<<<<r, c>>, c, FALSE>> : c \in 0..(s.ncols - 1)}
      <3> DEFINE part(v) == {c \in 0..(s.ncols - 1) : c \div C = v}
      <3>1. ASSUME NEW v \in 0..(P - 1)
             PROVE  Terms(pt_mat[InBatch(g, v, t)], v, coeff_index(x))
                      = {<<<<r, c>>, c, FALSE>> : c \in part(v)}
        <4>1. v \in Nat
          BY <2>1, <2>2, TwoCases
        <4>2. InBatch(g, v, t) = <<rho, v>>
          BY <2>1, <2>2, <2>4, <2>7, BatchIs
             DEF InBatch, rho, BlockAt
        <4> DEFINE poly == ecd_program(rho, v, rblk_bgn(rho, tpool_sze, s), s)
                   at(c) == (x + 1) * C - 1 - vec_coeff(c, s)
        <4>3. pt_mat[<<rho, v>>] = poly
          BY <2>1, <2>3, <2>8 DEF Polynomials
        <4>4. Terms(poly, v, coeff_index(x))
                = {<<poly[at(c) % N], c, at(c) < 0>> : c \in part(v)}
          BY <2>5, <2>11 DEF Terms
        <4>5. ASSUME NEW c \in part(v)
              PROVE  <<poly[at(c) % N], c, at(c) < 0>> = <<<<r, c>>, c, FALSE>>
          <5>1. ~(at(c) < 0) /\ at(c) % N = at(c) /\ poly[at(c)] = <<r, c>>
            BY <2>1, <2>2, <2>7, <2>8, <2>14, <4>1, <4>5, CellMeetsColumn
          <5>2. (at(c) < 0) = FALSE
            BY <5>1
          <5> QED BY <5>1, <5>2
        <4> HIDE DEF at, poly, part
        <4>6. {<<poly[at(c) % N], c, at(c) < 0>> : c \in part(v)}
                = {<<<<r, c>>, c, FALSE>> : c \in part(v)}
          BY <4>5
        <4> QED BY <4>2, <4>3, <4>4, <4>6 DEF poly
      <3>2. LeafSum(g, x, t) = {<<<<r, c>>, c, FALSE>> : c \in 0..(s.ncols - 1)}
        <4>1. LeafSum(g, x, t) = UNION {{<<<<r, c>>, c, FALSE>> : c \in part(v)} :
                                          v \in 0..(P - 1)}
          <5> HIDE DEF part, P
          <5> QED BY <2>4, <3>1 DEF LeafSum
        <4>2. ASSUME NEW c \in 0..(s.ncols - 1)
              PROVE  \E v \in 0..(P - 1) : c \in part(v)
          <5>1. s.ncols \in Nat /\ s.ncols >= 1
            BY <2>1, MatVecShapeGood
          <5>2. P = CeilDiv(s.ncols, C)
            BY DEF Parts
          <5>3. c \div C \in 0..(CeilDiv(s.ncols, C) - 1)
            <6> HIDE DEF C
            <6> DEFINE w == c \div C
                       n == CeilDiv(s.ncols, C)
            <6>1. w \in Nat /\ w * C <= c
              <7>0. c \in Nat
                BY <4>2, <5>1
              <7>1. c = w * C + (c % C) /\ w \in Nat /\ c % C \in 0..(C - 1)
                BY <2>6, <7>0, DivMod
              <7> HIDE DEF w
              <7>2. w * C \in Nat
                BY <2>6, <7>1
              <7> QED BY <2>6, <7>0, <7>1, <7>2
            <6>2. n \in Nat /\ s.ncols <= n * C
              <7> DEFINE y == s.ncols + C - 1
              <7>1. y \in Nat /\ n = y \div C
                BY <2>6, <5>1 DEF CeilDiv
              <7> HIDE DEF y, n
              <7>2. n \in Nat /\ y = n * C + (y % C) /\ y % C \in 0..(C - 1)
                BY <2>6, <7>1, DivMod
              <7>3. n * C \in Nat
                BY <2>6, <7>2
              <7> QED BY <2>6, <5>1, <7>2, <7>3 DEF y
            <6> HIDE DEF w, n
            <6>3. w * C < n * C
              <7>1. w * C \in Nat /\ n * C \in Nat
                BY <2>6, <6>1, <6>2
              <7> QED BY <4>2, <5>1, <6>1, <6>2, <7>1
            <6>4. ~(w >= n)
              <7> SUFFICES ASSUME w >= n PROVE FALSE
                OBVIOUS
              <7>1. w * C >= n * C
                BY <2>6, <6>1, <6>2
              <7>2. w * C \in Nat /\ n * C \in Nat
                BY <2>6, <6>1, <6>2
              <7> QED BY <6>3, <7>1, <7>2
            <6> QED BY <6>1, <6>2, <6>4 DEF w, n
          <5> QED BY <5>2, <5>3
        <4> DEFINE e(c) == <<<<r, c>>, c, FALSE>>
        <4>3. \A v : part(v) \subseteq 0..(s.ncols - 1)
          OBVIOUS
        <4> HIDE DEF P, part
        <4>4. LeafSum(g, x, t) = UNION {{e(c) : c \in part(v)} : v \in 0..(P - 1)}
          BY <4>1
        <4> HIDE DEF e
        <4>5. UNION {{e(c) : c \in part(v)} : v \in 0..(P - 1)}
                = {e(c) : c \in 0..(s.ncols - 1)}
          BY <4>2, <4>3
        <4> QED BY <4>4, <4>5 DEF e
      <3>3. ASSUME NEW q \in LeafSum(g, x, t) PROVE q[1] # <<>>
        <4>1. PICK c \in 0..(s.ncols - 1) : q = <<<<r, c>>, c, FALSE>>
          BY <3>2
        <4>2. q[1] = <<r, c>> /\ <<r, c>> # <<>>
          BY <4>1
        <4> QED BY <4>2
      <3> QED BY <3>2, <3>3
    <2>15. stride = N \div NextPow2(s.nrows)
      BY <2>5 DEF stride
    <2>16. /\ PackedAt(g, x, t) \div (N \div NextPow2(s.nrows)) = r
           /\ PackedAt(g, x, t) % (N \div NextPow2(s.nrows)) = 0
      BY <2>9, <2>10, <2>15
    <2> HIDE DEF s
    <2> QED BY <2>14, <2>16
  <1> QED BY <1>1, <1>2, KInvStep, PTL DEF Spec
=============================================================================
