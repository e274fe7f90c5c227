----------------------------- MODULE MvpSession -----------------------------
(***************************************************************************)
(* MVPProtocol objects (python/wrapper.cc) of one machine: each has a      *)
(* context and perhaps a secret key, and they pass evaluation keys,        *)
(* encrypted vectors and products to each other.                           *)
(*                                                                         *)
(* A call that raises before it has changed anything is not a step.  What  *)
(* circulates is the latest vector and the latest product; a new vector    *)
(* drops the product of the one before.  A vector is a sequence of blocks  *)
(* [len, cts], a product [data, len] as in MvpRecords; for the properties  *)
(* both know what they should hold.                                        *)
(***************************************************************************)
EXTENDS MvpApi, MvpRecords

CONSTANTS
  Parties,
  VecLen,   \* length of the vectors, the columns of the matrices
  Rows      \* rows of the matrices

ASSUME SessionAssumption ==
  /\ VecLen \in Nat \ {0}
  /\ Rows \subseteq Nat \ {0}

VARIABLES
  mvp_context, secret_key,  \* of each party
  vec, prod,
  call                      \* of each party: the MatVec that is under way

session == <<mvp_context, secret_key, vec, prod, call>>

NoVec  == [blocks |-> <<>>, names |-> {}]
NoProd == [data |-> <<>>, len |-> 0, kind |-> "none", want |-> <<>>,
           for |-> NoKey]
Idle   == [rows |-> 0, blocks |-> <<>>]

SessionInit ==
  /\ mvp_context = [p \in Parties |-> NoContext]
  /\ secret_key = [p \in Parties |-> NoKey]
  /\ vec = NoVec /\ prod = NoProd
  /\ call = [p \in Parties |-> Idle]

-----------------------------------------------------------------------------
ncol_blks == CeilDiv(VecLen, BLK_NCOLS)
block_len(c) == ColDims(VecLen, (c - 1) * BLK_NCOLS)

(* The terms of row block r of a product with the sum of the named vectors.*)
Wanted(r, names) ==
  UNION {{<<r, <<<<n, c>>, i>>>> : n \in names,
                                   i \in 1..num_subvec(VecShape(block_len(c)))}
         : c \in 1..ncol_blks}

InCall(p) == call[p] # Idle \/ kernel.by = p
Ready(p)  == mvp_context[p] # NoContext /\ ~InCall(p)

(* Bound: one MatVec at a time (it changes nothing another could notice),  *)
(* and the vector stays meanwhile (a call has a copy of its own).          *)
NobodyMultiplies == \A p \in Parties : call[p] = Idle

(* The blocks of the vector, as they come from another party.              *)
Received ==
  [c \in DOMAIN vec.blocks |->
     [vec.blocks[c] EXCEPT !.cts = Unpickle(Pickle(@))]]

-----------------------------------------------------------------------------
(* A new context, whatever the old one held.                               *)
Activate(p) ==
  /\ ~InCall(p)
  /\ mvp_context' = [mvp_context EXCEPT ![p] = Create]
  /\ \/ secret_key' = [secret_key EXCEPT ![p] = NoKey] /\ UNCHANGED generated
     \/ \E k \in Fresh : /\ secret_key' = [secret_key EXCEPT ![p] = k]
                         /\ generated' = generated \cup {k}
  /\ UNCHANGED <<card, setups, vec, prod, call>>

(* GenEvalKey changes nothing: what it derives can be had as long as the   *)
(* secret key has been, and is called by its name.                         *)
EvalKeys == generated

(* The process is killed, or ends by itself: GenEvalKey without a secret   *)
(* key follows a null pointer.                                             *)
Dies(p) ==
  /\ mvp_context[p] # NoContext
  /\ mvp_context' = [mvp_context EXCEPT ![p] = NoContext]
  /\ secret_key' = [secret_key EXCEPT ![p] = NoKey]
  /\ call' = [call EXCEPT ![p] = Idle]
  /\ KernelDies(p, mvp_context[p].enabled)
  /\ UNCHANGED <<cardKey, dram, fetch, faults, generated, setups, vec, prod>>

Setup(p, k, fault) ==
  LET s == SetupEvalKey(p, mvp_context[p], k, fault)
  IN /\ Ready(p) /\ SetupGoes(k, fault)
     /\ mvp_context' = [mvp_context EXCEPT ![p] = s.ctx]
     /\ kernel' = s.kernel
     /\ setups' = IF fault = "decode" THEN setups ELSE setups \cup {k}
     /\ UNCHANGED <<cardKey, dram, fetch, faults, generated, secret_key, vec,
                    prod, call>>

SetupInit(p) ==
  /\ KernelUpload(p, mvp_context[p].pk) \/ KernelStart(p)
  /\ UNCHANGED session

SetupReturns(p) ==
  /\ KernelPost(p)
  /\ mvp_context' = [mvp_context EXCEPT ![p].enabled = TRUE]
  /\ UNCHANGED <<secret_key, vec, prod, call>>

(* EncryptVector, with the secret key or with the public key.              *)
EncryptVector(p, key) ==
  /\ Ready(p) /\ NobodyMultiplies
  /\ key \in {secret_key[p], mvp_context[p].pk}
  /\ \A c \in 1..ncol_blks : EncryptOk(key, VecShape(block_len(c)))
  /\ vec' = [names |-> {"v"},
             blocks |-> [c \in 1..ncol_blks |->
               [len |-> block_len(c),
                cts |-> Encrypt(key, VecShape(block_len(c)), <<"v", c>>)]]]
  /\ prod' = NoProd
  /\ UNCHANGED <<machine, mvp_context, secret_key, call>>

(* Adds a plain vector to the encrypted one (bound: once).                 *)
AddPlainVector(p) ==
  LET in == Received
  IN /\ Ready(p) /\ NobodyMultiplies
     /\ vec.names = {"v"}
     /\ \A c \in 1..ncol_blks :
          /\ in[c].len = block_len(c)
          /\ AddVectorOk(mvp_context[p], in[c].cts, VecShape(block_len(c)))
     /\ vec' = [names |-> {"v", "w"},
                blocks |-> [c \in 1..ncol_blks |->
                  [len |-> block_len(c),
                   cts |-> AddVector(mvp_context[p], in[c].cts, <<"w", c>>)]]]
     /\ prod' = NoProd
     /\ UNCHANGED <<machine, mvp_context, secret_key, call>>

-----------------------------------------------------------------------------
(* MatVec calls the card once for each block, and others use it between    *)
(* two blocks.  (In which order is the subject of BlockMatVec.)            *)

CallMatVec(p, rows) ==
  /\ Ready(p) /\ NobodyMultiplies
  /\ vec # NoVec
  /\ call' = [call EXCEPT ![p].rows = rows]
  /\ UNCHANGED <<machine, mvp_context, secret_key, vec, prod>>

nrow_blks(p) == CeilDiv(call[p].rows, BLK_NROWS)

(* The row block and the column block that are next.                       *)
next_row(p) == (Len(call[p].blocks) \div ncol_blks) + 1
next_col(p) == (Len(call[p].blocks) % ncol_blks) + 1

(* A block of one row gets a second row of zeros.                          *)
block_shape(p) ==
  [nrows |-> Greatest(2, RowBlocks(call[p].rows)[next_row(p)]),
   ncols |-> block_len(next_col(p))]

CanMultiply(p) ==
  LET b == Received[next_col(p)]
  IN b.len = block_len(next_col(p))
       /\ MatVecOk(mvp_context[p], b.cts, block_shape(p))

MatVecBlock(p) ==
  /\ call[p] # Idle /\ next_row(p) <= nrow_blks(p)
  /\ CanMultiply(p) /\ kernel = Free
  /\ call' = [call EXCEPT ![p].blocks = Append(@,
                MatVec(Received[next_col(p)].cts, {}, next_row(p)))]
  /\ UNCHANGED <<machine, mvp_context, secret_key, vec, prod>>

MatVecRaises(p) ==
  /\ call[p] # Idle /\ next_row(p) <= nrow_blks(p)
  /\ ~CanMultiply(p)
  /\ call' = [call EXCEPT ![p] = Idle]
  /\ UNCHANGED <<machine, mvp_context, secret_key, vec, prod>>

(* The column blocks of a row block are added up.                          *)
RowSum(p, r) ==
  LET at(c) == call[p].blocks[(r - 1) * ncol_blks + c]
      sum[c \in 1..ncol_blks] ==
        IF c = 1 THEN at(1) ELSE AddMatVec(sum[c - 1], at(c))
  IN sum[ncol_blks]

MatVecReturns(p) ==
  LET rblks == 1..nrow_blks(p)
  IN /\ call[p] # Idle /\ next_row(p) > nrow_blks(p)
     /\ prod' = [data |-> Merge([r \in rblks |-> RowSum(p, r)]),
                 len |-> call[p].rows, kind |-> "matvec",
                 want |-> [r \in rblks |-> Wanted(r, vec.names)],
                 for |-> call[p].blocks[1].key]
     /\ call' = [call EXCEPT ![p] = Idle]
     /\ UNCHANGED <<machine, mvp_context, secret_key, vec>>

(* MatVecFMA takes one block of a vector and the plain vector to add; its  *)
(* result has no header, and the number of columns for a length.           *)
MatVecFMA(p, rows) ==
  LET b == Received[1]
      s == [nrows |-> rows, ncols |-> b.len]
  IN /\ Ready(p) /\ vec # NoVec /\ kernel = Free
     /\ b.len <= kMaxNumCols
     /\ MatVecOk(mvp_context[p], b.cts, s)
     /\ prod' = [data |-> Serialize(MatVec(b.cts, {<<<<"w", 1>>, i>> :
                                             i \in DOMAIN b.cts}, 1), 1),
                 len |-> b.len, kind |-> "fma", want |-> <<>>,
                 for |-> b.cts[1].key]
     /\ UNCHANGED <<machine, mvp_context, secret_key, vec, call>>

-----------------------------------------------------------------------------
(* What UpdateVector and Decrypt make of a product.                        *)

RecordsLoad(p) ==
  LET recs == Cut(prod.data, prod.len)
  IN mvp_context[p] # NoContext /\ \A r \in DOMAIN recs : LoadOk(recs[r])

(* Adds a plain vector to the product (bound: once).                       *)
UpdateVector(p) ==
  LET recs == Cut(prod.data, prod.len)
      updated == [r \in DOMAIN recs |->
                    UpdateMatVec(Load(recs[r]), <<r, <<<<"u", 0>>, 0>>>>)]
  IN /\ Ready(p)
     /\ prod.kind \in {"matvec", "fma"}
     /\ RecordsLoad(p)
     /\ \A r \in DOMAIN recs :
          UpdateMatVecOk(Load(recs[r]), RowBlocks(prod.len)[r])
     /\ prod' = [prod EXCEPT !.data = Merge(updated), !.kind = "updated",
                             !.want = [r \in DOMAIN @ |->
                               @[r] \cup {<<r, <<<<"u", 0>>, 0>>>>}]]
     /\ UNCHANGED <<machine, mvp_context, secret_key, vec, call>>

DecryptOk(p) ==
  LET recs == Cut(prod.data, prod.len)
  IN /\ RecordsLoad(p)
     /\ \A r \in DOMAIN recs :
          DecryptMatVecOk(secret_key[p], Load(recs[r]), RowBlocks(prod.len)[r])

Decrypt(p) ==
  LET recs == Cut(prod.data, prod.len)
  IN [r \in DOMAIN recs |-> DecryptMatVec(secret_key[p], Load(recs[r]))]

SessionNext(p) ==
  \/ Activate(p) \/ Dies(p)
  \/ \E k \in EvalKeys, f \in SetupFaults \cup {"none"} : Setup(p, k, f)
  \/ SetupInit(p) \/ SetupReturns(p)
  \/ \E k \in Keys : EncryptVector(p, k)
  \/ AddPlainVector(p)
  \/ \E n \in Rows : CallMatVec(p, n)
  \/ \E n \in 1..N : MatVecFMA(p, n)
  \/ MatVecBlock(p) \/ MatVecRaises(p) \/ MatVecReturns(p)
  \/ UpdateVector(p)
=============================================================================
