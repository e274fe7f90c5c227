---------------------------- MODULE KernelShape -----------------------------
(***************************************************************************)
(* How one matrix-vector product is laid out for the card: MVPPrivImpl     *)
(* cuts the matrix into polynomials (GetSubmatrixShape, ecd_program),      *)
(* MatVecCore orders them, KernelRun derives the registers and the device  *)
(* addresses, and mvp_top.v checks the registers.                          *)
(*                                                                         *)
(* A polynomial is what each of its coefficients holds: a matrix cell      *)
(* <<row, column>>, or nothing.  Addresses scale with the ring degree: for *)
(* N = 4096 they are those of mvp_fpga_reg.h.                              *)
(***************************************************************************)
EXTENDS SdkConfig, Sequences, FiniteSets

CONSTANTS
  Shapes,    \* the matrices, [nrows, ncols]
  PoolSizes  \* how many threads the context may have

ASSUME ShapeAssumption ==
  /\ N >= 8
  /\ Shapes \subseteq [nrows : Nat, ncols : Nat]
  /\ PoolSizes \subseteq Nat \ {0}

VARIABLES
  pc,         \* how far the call is
  shape,      \* config_
  tpool_sze,  \* rt->thread_pool_size(), the number of encoding tasks
  pt_mat,     \* the encoded polynomials, by row block and column block
  h_mat,      \* the order in which they are uploaded
  args,       \* n, m and vec_length of KernelRun
  regs        \* the registers that KernelRun writes

vars == <<pc, shape, tpool_sze, pt_mat, h_mat, args, regs>>

-----------------------------------------------------------------------------
(* MVPPrivImpl *)

num_row_blks(s) == CeilDiv(NextPow2(s.nrows), GetSubmatrixShape(s, N).rows)

num_col_blks_floor(s) ==   \* mutant: the last columns get no block
  Greatest(1, s.ncols \div GetSubmatrixShape(s, N).cols)

num_col_blks(s) == CeilDiv(s.ncols, GetSubmatrixShape(s, N).cols)

row_base_plain(rblk, s) == rblk   \* mutant: both halves of the rows in order

(* The row that the first slot of row block rblk takes.                    *)
row_base(rblk, s) ==
  LET nb == num_row_blks(s)
  IN IF rblk < nb \div 2 THEN rblk
     ELSE NextPow2(s.nrows) \div 2 + rblk - nb \div 2

(* The row that slot i of a polynomial of row block rblk is for.           *)
row(rblk, i, s) ==
  row_base(rblk, s) + reverse_bits(i, Log2(NextPow2(s.nrows) - 1))

(* The first row block of the task that encodes rblk.                      *)
rblk_bgn(rblk, size, s) ==
  LET ecd_work_load == CeilDiv(num_row_blks(s), size)
  IN (rblk \div ecd_work_load) * ecd_work_load

(* What ecd_program, started at row block bgn, leaves in its coeffs when   *)
(* it gets to a polynomial: rows in bit-reversed order, each padded with   *)
(* zeros on the right and then reversed.  A slot whose row is not in the   *)
(* matrix is passed over: it keeps the row that the task put there last,   *)
(* in the last column block of an earlier row block, if there is one.      *)
ecd_program(rblk, cblk, bgn, s) ==
  LET sub == GetSubmatrixShape(s, N)
      copied(b, c, k) ==   \* coefficient k of row block b, column block c
        LET col == c * sub.cols + (sub.cols - 1 - (k % sub.cols))
        IN IF col < s.ncols THEN <<row(b, k \div sub.cols, s), col>> ELSE <<>>
      filled(i) == {b \in bgn..(rblk - 1) : row(b, i, s) < s.nrows}
      kept(k) ==
        LET blks == filled(k \div sub.cols)
        IN IF blks = {} THEN <<>>
           ELSE copied(CHOOSE b \in blks : \A e \in blks : e <= b,
                       num_col_blks(s) - 1, k)
  IN [k \in 0..(N - 1) |->
        IF k \div sub.cols >= sub.rows THEN <<>>
        ELSE IF row(rblk, k \div sub.cols, s) < s.nrows
             THEN copied(rblk, cblk, k) ELSE kept(k)]

(* EncodeVector: the coefficient that column c of the vector goes to.      *)
vec_coeff(c, s) == c % GetSubmatrixShape(s, N).cols

(* TransposeInplace of rows by cols: where element i goes.                 *)
TransposeInplace(i, rows, cols) ==
  LET size == rows * cols - 1
  IN IF i = 0 \/ i = size THEN i ELSE (i * rows) % size

-----------------------------------------------------------------------------
(* MatVecCore: row blocks in bit-reversed order, and each two of them      *)
(* interleaved.                                                            *)
Arranged(s) ==
  LET nb == num_row_blks(s)
      nc == num_col_blks(s)
      Source(i) ==   \* the element of the pair of row blocks that goes to i
        CHOOSE e \in 0..(2 * nc - 1) : TransposeInplace(e, 2, nc) = i
      Poly(i) == LET e == Source(i % (2 * nc))
                     rblk == 2 * (i \div (2 * nc)) + e \div nc
                 IN <<reverse_bits(rblk, Log2(nb)), e % nc>>
  IN [i \in 0..(nb * nc - 1) |-> Poly(i)]

CoreArgsUnpadded(s) ==   \* mutant: the shape of the matrix as it is
  [n |-> NextPow2(s.nrows), m |-> s.ncols, vec |-> num_col_blks(s)]

CoreArgs(s) ==
  LET sub == GetSubmatrixShape(s, N)
  IN [n   |-> NextPow2(Greatest(s.nrows, sub.rows)),
      m   |-> Greatest(s.ncols, sub.cols),
      vec |-> num_col_blks(s)]

(* The checks before KernelRun; pt_mat.size() is 2 at least.               *)
CoreAccepts(a, mat_len) ==
  /\ mat_len > 1
  /\ a.vec \in 1..4
  /\ IsTwoPower(a.n)
  /\ a.m \in 1..(4 * N)

-----------------------------------------------------------------------------
(* KernelRun *)

KernelArgs(a) ==
  LET split == IF a.m < N THEN 1 ELSE CeilDiv(a.m, N)
      index == IF a.m < N THEN 2^Log2(N \div a.m) ELSE 1
  IN [level |-> Log2(a.n), col_size |-> a.m, split |-> split, index |-> index,
      mat_len |-> (a.n * split) \div index]

vec_chuck_size == 2 * N * 3 * 8
mat_chuck_size == N * 3 * 8
outputsize     == 2 * N * 2 * 8

input_addr_close(slot) ==   \* mutant: the second slot begins at 0x40000000
  IF slot = 1 THEN 16 * N * N ELSE 64 * N * N

input_addr(slot)  == IF slot = 1 THEN 16 * N * N ELSE 80 * N * N
output_addr(slot) == IF slot = 1 THEN 48 * N * N ELSE 112 * N * N

(* The matrix is uploaded behind the vector.                               *)
mat_addr(slot, a) == input_addr(slot) + vec_chuck_size * a.vec

input_end(slot, a, len) == mat_addr(slot, a) + mat_chuck_size * len

-----------------------------------------------------------------------------
(* config_error of mvp_top.v, for a card of ring degree N.                 *)
config_error(r) ==
  LET row_size == 2^(r.level % 16)
  IN {e \in 0..4 :
        CASE e = 0 -> r.level = 0 \/ r.level > Log2(N)
          [] e = 1 -> \/ r.col_size = 0 \/ r.col_size > 4 * N
                      \/ row_size * (r.col_size % (8 * N)) < 2 * N
          [] e = 2 -> r.split = 0 \/ r.split > 4
          [] e = 3 -> ~(IsTwoPower(r.index) /\ r.index <= N)
          [] e = 4 -> \/ r.mat_len >= 8 * N
                      \/ (r.mat_len * r.index) % (8 * N)
                           # (r.split * row_size) % (8 * N)}

-----------------------------------------------------------------------------
Nothing == <<>>

Init ==
  /\ pc = "idle"
  /\ shape = Nothing /\ tpool_sze = Nothing
  /\ pt_mat = Nothing /\ h_mat = Nothing
  /\ args = Nothing /\ regs = Nothing

(* The constructor of MVPPrivImpl throws on a shape it does not take.      *)
Call(s, size) ==
  /\ pc = "idle"
  /\ config_ok(s)
  /\ pc' = "encode"
  /\ shape' = s /\ tpool_sze' = size
  /\ UNCHANGED <<pt_mat, h_mat, args, regs>>

Encode ==
  /\ pc = "encode"
  /\ pc' = "core"
  /\ pt_mat' = [b \in (0..(num_row_blks(shape) - 1))
                        \X (0..(num_col_blks(shape) - 1)) |->
                  ecd_program(b[1], b[2], rblk_bgn(b[1], tpool_sze, shape), shape)]
  /\ UNCHANGED <<shape, tpool_sze, h_mat, args, regs>>

MatVecCore ==
  /\ pc = "core"
  /\ h_mat' = Arranged(shape)
  /\ args' = CoreArgs(shape)
  /\ pc' = IF CoreAccepts(args', Cardinality(DOMAIN pt_mat))
           THEN "run" ELSE "refused"
  /\ UNCHANGED <<shape, tpool_sze, pt_mat, regs>>

KernelRun ==
  /\ pc = "run"
  /\ regs' = KernelArgs(args)
  /\ pc' = IF config_error(regs') = {} THEN "started" ELSE "refused"
  /\ UNCHANGED <<shape, tpool_sze, pt_mat, h_mat, args>>

Return ==
  /\ pc \in {"started", "refused"}
  /\ pc' = "idle"
  /\ shape' = Nothing /\ tpool_sze' = Nothing
  /\ pt_mat' = Nothing /\ h_mat' = Nothing
  /\ args' = Nothing /\ regs' = Nothing

Next ==
  \/ Encode \/ MatVecCore \/ KernelRun \/ Return
  \/ \E s \in Shapes, size \in PoolSizes : Call(s, size)

Spec == Init /\ [][Next]_vars

-----------------------------------------------------------------------------
(* PROPERTIES *)

(* Every shape that the constructor takes gets through MatVecCore and      *)
(* through the register checks of the card.                                *)
CardAccepts == pc # "refused"

(* What the registers say about the job is what was uploaded: as many      *)
(* matrix polynomials, as many vector ciphertexts, as many rows in each    *)
(* polynomial; and either a row spans polynomials or several share one,    *)
(* which is what the pipeline takes for granted.                           *)
RegistersTrue ==
  pc = "started" =>
    LET sub == GetSubmatrixShape(shape, N)
    IN /\ DOMAIN h_mat = 0..(regs.mat_len - 1)
       /\ {h_mat[i] : i \in DOMAIN h_mat} = DOMAIN pt_mat
       /\ regs.split = args.vec
       /\ regs.index = sub.rows
       /\ regs.split = 1 \/ regs.index = 1
       /\ 2 * regs.index <= 2^regs.level

(* The coefficient that the card extracts from row slot x of a polynomial. *)
coeff_index(x) ==
  IF regs.index > 1 THEN (x + 1) * regs.col_size - 1
  ELSE IF regs.split = 1 THEN regs.col_size - 1 ELSE N - 1

(* What coefficient k of polynomial times vector part cblk is the sum of:  *)
(* cell, column of the vector, and whether the term wrapped round X^N = -1.*)
Terms(poly, cblk, k) ==
  LET sub == GetSubmatrixShape(shape, N)
      At(c) == k - vec_coeff(c, shape)
  IN {<<poly[At(c) % N], c, At(c) < 0>> :
        c \in {d \in 0..(shape.ncols - 1) : d \div sub.cols = cblk}}

(* The batch of group g and split v has polynomial a of it at this place.  *)
InBatch(g, v, a) == h_mat[2 * (g * regs.split + v) + a]

(* What the card extracts as half a of leaf x of group g: over all splits. *)
LeafSum(g, x, a) ==
  UNION {Terms(pt_mat[InBatch(g, v, a)], v, coeff_index(x)) :
           v \in 0..(regs.split - 1)}

(* The coefficient at which the packing tree leaves it: at level k the     *)
(* second of two blocks is multiplied by X^(N / 2^k).                      *)
PackedAt(g, x, a) ==
  reverse_bits(2 * (g * regs.index + x) + a, regs.level)
    * (N \div 2^regs.level)

(* Row r of the product is where Decrypt looks for it, at coefficient      *)
(* r * N / NextPow2(nrows): all the products of its columns with those of  *)
(* the vector and nothing else, for every shape and whatever ecd_program   *)
(* has left in the slots of rows that the matrix has not.                  *)
RowsPlaced ==
  pc = "started" =>
    \A g \in 0..(2^regs.level \div (2 * regs.index) - 1),
       x \in 0..(regs.index - 1), a \in {0, 1} :
         LET stride == N \div NextPow2(shape.nrows)
             r == PackedAt(g, x, a) \div stride
         IN /\ PackedAt(g, x, a) % stride = 0
            /\ r < shape.nrows =>
                 {p \in LeafSum(g, x, a) : p[1] # <<>>} =
                   {<<<<r, c>>, c, FALSE>> : c \in 0..(shape.ncols - 1)}

(* A job of at most one block of the Python wrapper stays clear of the     *)
(* other slot.                                                             *)
BlocksApart ==
  pc = "started" /\ shape.nrows <= N /\ shape.ncols <= 2 * N =>
    /\ input_end(1, args, regs.mat_len) <= input_addr(2)
    /\ output_addr(1) + outputsize <= input_addr(2)

(* The same for every job: KernelRun says that the first input slot ends   *)
(* where the second begins and that each has 1.75 GB.                      *)
SlotsHoldJob ==
  pc = "started" => input_end(1, args, regs.mat_len) <= input_addr(2)
=============================================================================
