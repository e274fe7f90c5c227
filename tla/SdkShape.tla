------------------------------ MODULE SdkShape ------------------------------
(***************************************************************************)
(* The arithmetic of util/math.h, and which part of a matrix one           *)
(* polynomial takes.                                                       *)
(***************************************************************************)
EXTENDS Integers

-----------------------------------------------------------------------------
(* Arithmetic *)

Least(a, b)    == IF a < b THEN a ELSE b
Greatest(a, b) == IF a < b THEN b ELSE a
CeilDiv(a, b)  == (a + b - 1) \div b
Log2(x)        == CHOOSE k \in 0..x : 2^k <= x /\ x < 2^(k + 1)
IsTwoPower(v)  == \E k \in 0..v : v = 2^k
NextPow2(a)    == IF a <= 2 \/ IsTwoPower(a) THEN a ELSE 2^(Log2(a) + 1)

reverse_bits(i, bits) ==
  CHOOSE j \in 0..(2^bits - 1) :
    \A k \in 0..(bits - 1) : (j \div 2^k) % 2 = (i \div 2^(bits - 1 - k)) % 2

-----------------------------------------------------------------------------
(* Shapes *)

(* Rows and columns of the part of the matrix that fills one polynomial,   *)
(* for ring degree N.                                                      *)
GetSubmatrixShape(s, N) ==
  LET ncols == Least(N, s.ncols)
      fit   == Least(NextPow2(s.nrows), 2^Log2(N \div ncols))
      half  == Greatest(1, fit \div 2)
  IN IF fit * ncols <= N
     THEN [rows |-> half, cols |-> N \div NextPow2(half)]
     ELSE [rows |-> fit, cols |-> ncols]
=============================================================================
