----------------------------- MODULE MvpMasking -----------------------------
(***************************************************************************)
(* The numbers of a masked product (mod_switch.cc, mvp_impl.cc and         *)
(* mvp_priv_impl.cc): shares modulo t are lifted to Q, multiplied by the   *)
(* card, masked by the server and brought back to t on both sides.         *)
(*                                                                         *)
(* A polynomial is a function from 0..N-1 to residues, one for each prime  *)
(* of the data level.  Encryption is left out: a ciphertext is what it     *)
(* decrypts to, and its noise is that of the card's result.  What the card *)
(* leaves in coefficients that no row uses is 1.  Vectors have at most N   *)
(* elements here, one polynomial.                                          *)
(***************************************************************************)
EXTENDS SdkConfig, Sequences

CONSTANTS
  LogT,  \* base_mod_nbits, 64
  q,     \* primes of the data level, two of 35 bits
  qk     \* the special prime, of 39 bits

(* x has an inverse modulo m: what is used of their being different primes. *)
Invertible(x, m) == \E y \in 0..(m - 1) : (x * y) % m = 1

ASSUME ModuliAssumption ==
  /\ LogT \in Nat /\ LogT >= 2
  /\ q \in Seq(Nat) /\ Len(q) = 2 /\ qk \in Nat
  /\ q[1] > 1 /\ q[2] > 1 /\ qk > 1
  /\ Invertible(q[1], q[2]) /\ Invertible(qk, q[1]) /\ Invertible(qk, q[2])

t == 2^LogT
Q == q[1] * q[2]

Limbs == 1..2
Coeffs == 0..(N - 1)

-----------------------------------------------------------------------------
(* ModulusSwitchHelper *)

ModulusUpAt(x, j) ==
  LET u == (x * ((Q \div t) % q[j])) % q[j]
      v == ((Q % t) * x + t \div 2) \div t
  IN (u + v) % q[j]

(* SEAL's compose_array: residues to a number below Q.                     *)
Compose(x) == CHOOSE y \in 0..(Q - 1) : \A j \in Limbs : y % q[j] = x[j]

ModulusDownRNS(x) == ((Compose(x) * t + (Q + 1) \div 2) \div Q) % t

-----------------------------------------------------------------------------
(* Encoding *)

(* A matrix entry, in two's complement modulo t.  (For t = 2^64 the mask   *)
(* is all ones; its absolute value has to be below the prime.)             *)
CenteralizeAt(x, j) ==
  IF t \div 2 <= x THEN q[j] - ((t - x) % t) ELSE x % q[j]

(* Vec2Poly of a vector: lifted, and times qk for the extra prime, modulo  *)
(* which it is 0.                                                          *)
Vec2Poly(vec) ==
  [i \in Coeffs |-> [j \in Limbs |->
     IF i < Len(vec) THEN (ModulusUpAt(vec[i + 1], j) * qk) % q[j] ELSE 0]]

add_plain_inplace(ct, pt) ==
  [i \in Coeffs |-> [j \in Limbs |-> (ct[i][j] + pt[i][j]) % q[j]]]

-----------------------------------------------------------------------------
(* MatVec of the matrix mat (rows of entries) with a share and a mask      *)

Stride(n) == N \div NextPow2(n)

(* The sum of a[1], ..., a[n], reduced modulo p after each step.           *)
SumMod(a, n, p) ==
  LET upto[c \in 0..n] == IF c = 0 THEN 0 ELSE (upto[c - 1] + a[c]) % p
  IN upto[n]

(* The card: row r at coefficient r * Stride, without the factor qk.       *)
DivideByQk(x, j) == CHOOSE y \in 0..(q[j] - 1) : (y * qk) % q[j] = x

MatVecCore(mat, ct, noise) ==
  LET row(i) == mat[(i \div Stride(Len(mat))) + 1]
      sum(i, j) ==
        SumMod([c \in DOMAIN row(i) |->
                  CenteralizeAt(row(i)[c], j) * ct[c - 1][j]],
               Len(row(i)), q[j])
  IN [i \in Coeffs |-> [j \in Limbs |->
        IF i % Stride(Len(mat)) = 0 /\ i \div Stride(Len(mat)) < Len(mat)
        THEN (DivideByQk(sum(i, j), j) + noise) % q[j] ELSE 1]]

mask_size_rows(nrows) == nrows   \* mutant: never rounded up

(* How many masks sample_mask_program asks RandomVector for.               *)
mask_size(nrows) == IF N % nrows = 0 THEN nrows ELSE NextPow2(nrows)

(* RandomVector, with rand[i] the i-th number below Q that it draws: the   *)
(* mask polynomial, and the server's share of the result.                  *)
mask_poly(nrows, rand) ==
  LET gap == N \div mask_size(nrows)
  IN [i \in Coeffs |-> [j \in Limbs |->
        IF i % gap = 0 /\ i \div gap < mask_size(nrows)
        THEN rand[i \div gap] % q[j] ELSE 0]]

out_mask(nrows, rand) ==
  [r \in 1..nrows |->
     (t - ModulusDownRNS([j \in Limbs |-> rand[r - 1] % q[j]])) % t]

DropUnusedCoeffs(ct, nrows) ==
  [i \in Coeffs |-> IF i % Stride(nrows) = 0 THEN ct[i]
                    ELSE [j \in Limbs |-> 0]]

(* MatVec with a vector share and an output mask, in the order of its      *)
(* steps; the mask is added after the card has divided by qk.              *)
MatVecMasked(mat, share, query, rand, noise) ==
  LET ct     == add_plain_inplace(query, Vec2Poly(share))
      matvec == MatVecCore(mat, ct, noise)
      masked == add_plain_inplace(matvec, mask_poly(Len(mat), rand))
  IN DropUnusedCoeffs(masked, Len(mat))

(* Decrypt: the coefficients of the rows, brought back to t.               *)
DecryptRows(ct, nrows) ==
  [r \in 1..nrows |-> ModulusDownRNS(ct[(r - 1) * Stride(nrows)])]
=============================================================================
