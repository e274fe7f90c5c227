---------------------------- MODULE BlockMatVec -----------------------------
(***************************************************************************)
(* MVPProtocol::MatVec, UpdateVector and Decrypt (python/wrapper.cc) over  *)
(* the thread pool of MVPContext.                                          *)
(*                                                                         *)
(* A matrix of more than one block is cut into blocks of BLK_NROWS rows    *)
(* and BLK_NCOLS columns; every block is a task of the pool, which encodes *)
(* its rows by itself and calls the card.  A matrix of one block runs on   *)
(* the caller's thread, and it is the encoding that is cut into tasks      *)
(* (MT_in_subblock).  The block products of a row are added up, the rows   *)
(* are put one behind the other; UpdateVector and Decrypt take them apart. *)
(*                                                                         *)
(* A ciphertext is what each of its coefficients stands for: the set of    *)
(* matrix cells <<row, column>> whose products are summed in it, and       *)
(* <<row, Plain>> for the element of the plain vector that was added.      *)
(***************************************************************************)
EXTENDS ThreadPool, WrapperBlocks, FiniteSets

CONSTANTS
  Shapes,     \* the matrices, [nrows, ncols]
  RowBlks,    \* num_row_blks: the polynomials that the rows of a block fill
  MaxCalls,   \* bound: calls of MatVec
  Faults      \* what may fail: "ecd" (ecd_program returns an error), "card"
              \* (api::MatVec returns one)

ASSUME BlockAssumption ==
  /\ IsFiniteSet(Workers) /\ Workers # {}   \* MVPContext has 1 to 8
  /\ Shapes # {} /\ Shapes \subseteq [nrows : Nat \ {0}, ncols : Nat \ {0}]
  /\ RowBlks # {} /\ RowBlks \subseteq Nat \ {0}
  /\ MaxCalls \in Nat
  /\ Faults \subseteq {"ecd", "card"}

VARIABLES
  main,       \* where the calling thread is
  shape, num_row_blks,
  row_ite, col_ite,
  futures,    \* mvp_col_tasks or ecd_tasks: "pending", "ok" or "error"
  next,       \* the future that is waited for
  mvp_matrix_result,
  pt_mat,     \* the polynomials that are encoded
  frame,      \* the variables that the tasks refer to exist
  mvp_merge,  \* the records of the merged result
  updated,    \* a vector was added to it (bound: once)
  out,        \* the decrypted rows
  calls,
  threw,      \* the calls that threw (history)
  spoiled     \* a task of an earlier call has run during this one (history)

call == <<shape, num_row_blks, row_ite, col_ite, futures, next,
          mvp_matrix_result, pt_mat, frame>>
result == <<mvp_merge, updated, out>>
vars == <<pool, main, call, result, calls, threw, spoiled>>

-----------------------------------------------------------------------------
PoolSize == Cardinality(Workers)

MT_in_subblock == shape.nrows <= BLK_NROWS /\ shape.ncols <= BLK_NCOLS

EcdRangeFull(j) ==   \* mutant: rblk_end is not clipped
  LET load == CeilDiv(num_row_blks, PoolSize)
  IN (j * load)..(j * load + load - 1)

(* The row blocks of task j of the encoding.                               *)
EcdRange(j) ==
  LET load == CeilDiv(num_row_blks, PoolSize)
      end  == IF j * load + load < num_row_blks THEN j * load + load
              ELSE num_row_blks
  IN (j * load)..(end - 1)

Encoded == UNION {EcdRange(j) : j \in 0..(PoolSize - 1)}

Plain == -1

NoCt == [k \in 0..(N - 1) |-> {}]

(* What ecd_program left in the slot of a row that the block has not.      *)
Stale == <<-1, -1>>

(* The product of a block: row r of it is at coefficient r * stride.  A    *)
(* block of one row is given a second row of zeros.                        *)
BlockCt(row, rows, col, cols) ==
  LET nrows  == Greatest(2, rows)
      stride == N \div NextPow2(nrows)
  IN [k \in 0..(N - 1) |->
        IF k % stride = 0 /\ k \div stride < rows
        THEN {row + k \div stride} \X (col..(col + cols - 1))
        ELSE IF k % stride = 0 /\ k \div stride >= nrows THEN {Stale} ELSE {}]

AddMatVec(cts) == [k \in 0..(N - 1) |-> UNION {ct[k] : ct \in cts}]

(* Adds element j of a plain vector of rows elements, which begins at row  *)
(* first, to coefficient j * gap.                                          *)
UpdateMatVec(ct, first, rows) ==
  LET gap == N \div NextPow2(rows)
  IN [k \in 0..(N - 1) |->
        IF k % gap = 0 /\ k \div gap < rows
        THEN ct[k] \cup {<<first + k \div gap, Plain>>} ELSE ct[k]]

DecryptMatVec(ct, rows) ==
  [j \in 0..(rows - 1) |-> ct[j * (N \div NextPow2(rows))]]

Init ==
  /\ PoolInit
  /\ main = "idle"
  /\ shape = CHOOSE s \in Shapes : TRUE
  /\ num_row_blks = CHOOSE b \in RowBlks : TRUE
  /\ row_ite = 0 /\ col_ite = 0
  /\ futures = <<>> /\ next = 1
  /\ mvp_matrix_result = <<>>
  /\ pt_mat = {}
  /\ frame = FALSE
  /\ mvp_merge = <<>>
  /\ updated = FALSE
  /\ out = <<>>
  /\ calls = 0
  /\ threw = {}
  /\ spoiled = FALSE

-----------------------------------------------------------------------------
(* The calling thread *)

Goto(from, to) == main = from /\ main' = to

(* The context and its pool survive a call that throws, and so do the      *)
(* tasks of it: the next call may begin beside them.                       *)
Call(s, nb) ==
  /\ Goto("idle", "blocks") \/ Goto("thrown", "blocks")
  /\ calls < MaxCalls
  /\ calls' = calls + 1
  /\ shape' = s
  /\ num_row_blks' = nb
  /\ row_ite' = 0 /\ col_ite' = 0
  /\ futures' = <<>> /\ next' = 1
  /\ mvp_matrix_result' =
       [b \in (0..(CeilDiv(s.nrows, BLK_NROWS) - 1))
                \X (0..(CeilDiv(s.ncols, BLK_NCOLS) - 1)) |-> NoCt]
  /\ pt_mat' = {}
  /\ frame' = TRUE
  /\ updated' = FALSE
  /\ out' = <<>>
  /\ spoiled' = FALSE
  /\ UNCHANGED <<pool, mvp_merge, threw>>

ThisBlock == [kind |-> "block", call |-> calls, id |-> Len(futures) + 1,
              row |-> row_ite, rows |-> RowDims(shape.nrows, row_ite),
              col |-> col_ite, cols |-> ColDims(shape.ncols, col_ite)]

NextBlock ==
  IF col_ite + BLK_NCOLS < shape.ncols
  THEN col_ite' = col_ite + BLK_NCOLS /\ UNCHANGED row_ite
  ELSE col_ite' = 0 /\ row_ite' = row_ite + RowDims(shape.nrows, row_ite)

Launch(t) ==
  /\ enqueue(t)
  /\ futures' = Append(futures, "pending")
  /\ UNCHANGED <<shape, num_row_blks, row_ite, col_ite, next,
                 mvp_matrix_result, pt_mat, frame, result, calls, threw,
                 spoiled>>

LaunchBlock ==
  /\ Goto("blocks", "notify")
  /\ ~MT_in_subblock
  /\ row_ite < shape.nrows
  /\ Launch(ThisBlock)

NotifyBlock ==
  /\ Goto("notify", "blocks")
  /\ notify_one
  /\ NextBlock
  /\ UNCHANGED <<shape, num_row_blks, futures, next, mvp_matrix_result, pt_mat,
                 frame, result, calls, threw, spoiled>>

BlocksLaunched ==
  /\ Goto("blocks", "get")
  /\ ~MT_in_subblock
  /\ row_ite >= shape.nrows
  /\ UNCHANGED <<pool, call, result, calls, threw, spoiled>>

LaunchEncoding ==
  /\ Goto("blocks", "ecd_notify")
  /\ MT_in_subblock
  /\ row_ite < shape.nrows
  /\ Len(futures) < PoolSize
  /\ Launch([kind |-> "ecd", call |-> calls, id |-> Len(futures) + 1,
             range |-> EcdRange(Len(futures))])

NotifyEncoding ==
  /\ Goto("ecd_notify", "blocks")
  /\ notify_one
  /\ UNCHANGED <<call, result, calls, threw, spoiled>>

EncodingLaunched ==
  /\ Goto("blocks", "get")
  /\ MT_in_subblock
  /\ Len(futures) = PoolSize
  /\ UNCHANGED <<pool, call, result, calls, threw, spoiled>>

GetOk ==
  /\ main = "get"
  /\ next <= Len(futures)
  /\ futures[next] = "ok"
  /\ next' = next + 1
  /\ UNCHANGED <<pool, main, shape, num_row_blks, row_ite, col_ite, futures,
                 mvp_matrix_result, pt_mat, frame, result, calls, threw,
                 spoiled>>

(* The exception, or the early return of the encoding that becomes one,    *)
(* unwinds the frame; the destructor of a future does not wait.            *)
Throws ==
  /\ main' = "thrown"
  /\ frame' = FALSE
  /\ threw' = threw \cup {calls}
  /\ UNCHANGED <<pool, shape, num_row_blks, row_ite, col_ite, futures, next,
                 mvp_matrix_result, pt_mat, result, calls, spoiled>>

GetError ==
  /\ main = "get"
  /\ next <= Len(futures)
  /\ futures[next] = "error"
  /\ Throws

GotSome ==   \* mutant: the last future is not waited for
  /\ Goto("get", IF MT_in_subblock THEN "card" ELSE "merge")
  /\ next >= Len(futures)
  /\ UNCHANGED <<pool, call, result, calls, threw, spoiled>>

GotAll ==
  /\ Goto("get", IF MT_in_subblock THEN "card" ELSE "merge")
  /\ next > Len(futures)
  /\ UNCHANGED <<pool, call, result, calls, threw, spoiled>>

(* MatVecCore on the caller's thread.                                      *)
RunCard ==
  /\ Goto("card", "merge")
  /\ mvp_matrix_result' =
       [mvp_matrix_result EXCEPT ![<<row_index(0), ct_index(0)>>] =
          IF pt_mat = 0..(num_row_blks - 1)
          THEN BlockCt(0, shape.nrows, 0, shape.ncols) ELSE NoCt]
  /\ UNCHANGED <<pool, shape, num_row_blks, row_ite, col_ite, futures, next,
                 pt_mat, frame, result, calls, threw, spoiled>>

CardError ==
  /\ "card" \in Faults
  /\ main = "card"
  /\ Throws

Merge ==
  /\ Goto("merge", "returned")
  /\ mvp_merge' =
       [r \in 1..CeilDiv(shape.nrows, BLK_NROWS) |->
          AddMatVec({mvp_matrix_result[<<r - 1, c>>] :
                       c \in 0..(CeilDiv(shape.ncols, BLK_NCOLS) - 1)})]
  /\ frame' = FALSE
  /\ UNCHANGED <<pool, shape, num_row_blks, row_ite, col_ite, futures, next,
                 mvp_matrix_result, pt_mat, updated, out, calls, threw, spoiled>>

(* The row at which record b begins.                                       *)
Offsets(len) ==
  LET o[b \in 0..len] ==
        IF b = 0 THEN 0
        ELSE IF o[b - 1] >= len THEN len
        ELSE o[b - 1] + RowDims(len, o[b - 1])
  IN o

(* UpdateVector and Decrypt walk the rows in the same blocks as MatVec,    *)
(* one record for each.                                                    *)
UpdateVector ==
  LET o == Offsets(shape.nrows)
  IN /\ main = "returned"
     /\ ~updated
     /\ updated' = TRUE
     /\ mvp_merge' = [b \in DOMAIN mvp_merge |->
                        UpdateMatVec(mvp_merge[b], o[b - 1], o[b] - o[b - 1])]
     /\ UNCHANGED <<pool, main, call, out, calls, threw, spoiled>>

Decrypt ==
  LET o == Offsets(shape.nrows)
      Record(i) == CHOOSE b \in 1..shape.nrows : o[b - 1] <= i /\ i < o[b]
      Row(i) == LET b == Record(i)
                IN DecryptMatVec(mvp_merge[b], o[b] - o[b - 1])[i - o[b - 1]]
  IN /\ Goto("returned", "idle")
     /\ out' = [i \in 0..(shape.nrows - 1) |-> Row(i)]
     /\ UNCHANGED <<pool, call, mvp_merge, updated, calls, threw, spoiled>>

Destroy ==
  /\ main \in {"idle", "thrown"}
  /\ main' = "stopping"
  /\ Stop
  /\ UNCHANGED <<call, result, calls, threw, spoiled>>

NotifyStop ==
  /\ Goto("stopping", "joining")
  /\ notify_all
  /\ UNCHANGED <<call, result, calls, threw, spoiled>>

Join ==
  /\ Goto("joining", "gone")
  /\ Joined
  /\ UNCHANGED <<pool, call, result, calls, threw, spoiled>>

-----------------------------------------------------------------------------
(* The workers *)

Alive == main # "died"

WorkerIdles(w) ==
  /\ Alive
  /\ Take(w) \/ Sleep(w) \/ Exit(w)
  /\ UNCHANGED <<main, call, result, calls, threw, spoiled>>

Wakeup(w) ==
  /\ Alive
  /\ SpuriousWakeup(w)
  /\ UNCHANGED <<main, call, result, calls, threw, spoiled>>

(* The variables that a task refers to are those of its own call.          *)
HasFrame(t) == frame /\ t.call = calls

Settle(w, how) ==
  /\ HasFrame(wtask[w])
  /\ Finish(w)
  /\ futures' = [futures EXCEPT ![wtask[w].id] = how]
  /\ UNCHANGED <<main, shape, num_row_blks, row_ite, col_ite, next, frame,
                 result, calls, threw, spoiled>>

EncodingDone(w) ==
  /\ wtask[w].kind = "ecd"
  /\ Settle(w, "ok")
  /\ pt_mat' = pt_mat \cup wtask[w].range
  /\ UNCHANGED mvp_matrix_result

EncodingFails(w) ==
  /\ "ecd" \in Faults
  /\ wtask[w].kind = "ecd"
  /\ Settle(w, "error")
  /\ UNCHANGED <<mvp_matrix_result, pt_mat>>

Place(t) == <<row_index(t.row), ct_index(t.col)>>

(* A block task encodes all row blocks itself.  It does not look at the    *)
(* status of ecd_program, so a failed encoding goes to the card.           *)
BlockDone(w) ==
  LET t == wtask[w]
      ct == BlockCt(t.row, t.rows, t.col, t.cols)
      Store(x) ==
        mvp_matrix_result' = [mvp_matrix_result EXCEPT ![Place(t)] = x]
  IN /\ t.kind = "block"
     /\ Settle(w, "ok")
     /\ \/ Store(IF Encoded = 0..(num_row_blks - 1) THEN ct ELSE NoCt)
        \/ "ecd" \in Faults /\ Store(NoCt)
     /\ UNCHANGED pt_mat

BlockThrows(w) ==
  /\ "card" \in Faults
  /\ wtask[w].kind = "block"
  /\ Settle(w, "error")
  /\ UNCHANGED <<mvp_matrix_result, pt_mat>>

(* A task whose call has thrown uses variables that are gone, which is     *)
(* undefined: nothing comes of it, or it finds those of the call that runs *)
(* now in their place and spoils a block product or the polynomials, or    *)
(* the process dies.                                                       *)
StrayEnds(w) ==
  LET t == wtask[w]
  IN /\ Finish(w)
     /\ ~HasFrame(t)
     /\ spoiled' = (spoiled \/ frame)
     /\ \/ UNCHANGED <<main, mvp_matrix_result, pt_mat>>
        \/ /\ frame /\ t.kind = "block"
           /\ Place(t) \in DOMAIN mvp_matrix_result
           /\ mvp_matrix_result' = [mvp_matrix_result EXCEPT ![Place(t)] = NoCt]
           /\ UNCHANGED <<main, pt_mat>>
        \/ /\ frame /\ t.kind = "ecd"
           /\ pt_mat' = pt_mat \ t.range
           /\ UNCHANGED <<main, mvp_matrix_result>>
        \/ /\ main' = "died"
           /\ UNCHANGED <<mvp_matrix_result, pt_mat>>
     /\ UNCHANGED <<shape, num_row_blks, row_ite, col_ite, futures, next, frame,
                    result, calls, threw>>

WorkerWorks(w) ==
  /\ Alive
  /\ EncodingDone(w) \/ EncodingFails(w) \/ BlockDone(w) \/ BlockThrows(w)
     \/ StrayEnds(w)

MainStep ==
  \/ LaunchBlock \/ NotifyBlock \/ BlocksLaunched
  \/ LaunchEncoding \/ NotifyEncoding \/ EncodingLaunched
  \/ GetOk \/ GetError \/ GotAll \/ RunCard \/ CardError
  \/ Merge \/ Decrypt \/ NotifyStop \/ Join

Next ==
  \/ MainStep \/ UpdateVector \/ Destroy
  \/ \E s \in Shapes, nb \in RowBlks : Call(s, nb)
  \/ \E w \in Workers : WorkerIdles(w) \/ Wakeup(w) \/ WorkerWorks(w)

Spec == Init /\ [][Next]_vars

(* Threads run; nothing forces a call or the end of the context, and no    *)
(* worker may count on a spurious wakeup.                                  *)
FairSpec ==
  /\ Spec
  /\ WF_vars(MainStep)
  /\ \A w \in Workers : WF_vars(WorkerIdles(w)) /\ WF_vars(WorkerWorks(w))

-----------------------------------------------------------------------------
(* PROPERTIES *)

(* Every variable of the pool and of the call has a value of its type, and *)
(* every task of the call that runs has a future.                          *)
TypeOK ==
  /\ \A t \in Outstanding : /\ t.kind \in {"block", "ecd"}
                            /\ t.call \in 1..calls
                            /\ HasFrame(t) => t.id \in 1..Len(futures)
  /\ stop \in BOOLEAN
  /\ wstate \in [Workers -> {"awake", "asleep", "busy", "exited"}]
  /\ main \in {"idle", "blocks", "notify", "ecd_notify", "get", "card", "merge",
               "returned", "thrown", "stopping", "joining", "gone", "died"}
  /\ shape \in Shapes
  /\ row_ite \in 0..shape.nrows
  /\ col_ite \in 0..(shape.ncols - 1)
  /\ \A i \in DOMAIN futures : futures[i] \in {"pending", "ok", "error"}
  /\ next \in 1..(Len(futures) + 1)
  /\ pt_mat \subseteq 0..(num_row_blks - 1)
  /\ {frame, spoiled, updated} \subseteq BOOLEAN
  /\ calls \in 0..MaxCalls
  /\ threw \subseteq 1..calls

(* What Decrypt gives back for row i is row i of the product: all of its   *)
(* columns, once, in whatever order the blocks were computed, with element *)
(* i of the vector that UpdateVector added, and also where the blocks are  *)
(* cut one row short to avoid a last block of one.  A call that began      *)
(* after another had thrown is right too, unless a task that the other has *)
(* left behind ran during it.                                              *)
ProductRight ==
  out # <<>> /\ ~spoiled =>
    \A i \in 0..(shape.nrows - 1) :
      out[i] = {i} \X (0..(shape.ncols - 1) \cup
                         (IF updated THEN {Plain} ELSE {}))

(* A call that returns has left no task of its own in the pool, and a task *)
(* is there after the variables that it refers to are gone only if its own *)
(* call threw, also while a later call runs or has returned.               *)
ReturnLeavesNoTask ==
  /\ main \in {"merge", "returned", "idle"} =>
       \A t \in Outstanding : t.call # calls
  /\ \A t \in Outstanding : HasFrame(t) \/ t.call \in threw

(* Every call returns or throws, unless a task that another call has left  *)
(* behind ends the process: no wakeup is lost between enqueue and          *)
(* notify_one.                                                             *)
EveryCallEnds ==
  main \in {"blocks", "notify", "ecd_notify", "get", "card", "merge"}
    ~> main \in {"returned", "thrown", "died"}

(* The destructor of the context returns, after every queued task has run, *)
(* unless one of a call that threw ends the process.                       *)
DestructorJoins ==
  stop ~> main = "died" \/ (main = "gone" /\ Outstanding = {})
=============================================================================
