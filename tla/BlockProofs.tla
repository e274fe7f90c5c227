---------------------------- MODULE BlockProofs -----------------------------
(***************************************************************************)
(* MatVec of the python wrapper over the thread pool, for any number of    *)
(* workers, any matrices, any number of calls and any block sizes: the     *)
(* calls keep their types, a call that returns leaves no task behind, and  *)
(* every row that Decrypt gives back is the row of the product.            *)
(***************************************************************************)
EXTENDS BlockMatVec, SdkShapeProofs

-----------------------------------------------------------------------------
(* The blocks of the python wrapper *)

(* The row at which block k of len rows begins.                            *)
RowAt(len, k) == BlockRow(len, BLK_NROWS, k)

(* A row block is not empty and ends inside of the matrix, ...             *)
LEMMA RowDimsFit ==
  ASSUME NEW len \in Nat, NEW i \in Nat, i < len,
         BLK_NROWS \in Nat, BLK_NROWS >= 3
  PROVE  RowDims(len, i) \in 1..BLK_NROWS /\ i + RowDims(len, i) <= len
  BY DEF RowDims

(* ... and so does a column block.                                         *)
LEMMA ColDimsFit ==
  ASSUME NEW len \in Nat, NEW i \in Nat, i < len,
         BLK_NCOLS \in Nat, BLK_NCOLS >= 1
  PROVE  ColDims(len, i) \in 1..BLK_NCOLS /\ i + ColDims(len, i) <= len
  BY DEF ColDims

(* From one row block to the next: RowDims leads from the first row of     *)
(* block k to that of block k + 1, and row_index gives k back.             *)
LEMMA RowWalk ==
  ASSUME NEW len \in Nat, BLK_NROWS \in Nat, BLK_NROWS >= 3,
         NEW k \in Nat, k < CeilDiv(len, BLK_NROWS)
  PROVE  /\ RowAt(len, k) \in Nat /\ RowAt(len, k) < len
         /\ row_index(RowAt(len, k)) = k
         /\ RowAt(len, k) + RowDims(len, RowAt(len, k)) = RowAt(len, k + 1)
  <1>1. \A i : RowDims(len, i) = BlockDims(len, BLK_NROWS, i)
    BY DEF RowDims, BlockDims
  <1> QED BY <1>1, BlockWalk DEF RowAt, row_index

(* The blocks begin at row 0 and end at the last row.                      *)
LEMMA RowEnds ==
  ASSUME NEW len \in Nat, len >= 1, BLK_NROWS \in Nat, BLK_NROWS >= 3
  PROVE  /\ CeilDiv(len, BLK_NROWS) \in 1..len
         /\ RowAt(len, 0) = 0 /\ row_index(0) = 0
         /\ \A k \in Nat : k >= CeilDiv(len, BLK_NROWS) => RowAt(len, k) = len
         /\ row_index(len) = CeilDiv(len, BLK_NROWS)
  BY BlockEnds DEF RowAt, row_index

-----------------------------------------------------------------------------
(* The inductive invariant of the pool and of the calling thread *)

Tasks ==
  [kind : {"block"}, call : Nat, id : Nat,
   row : Nat, rows : Nat, col : Nat, cols : Nat]
    \cup [kind : {"ecd"}, call : Nat, id : Nat, range : SUBSET Nat]

Busy == {w \in Workers : wstate[w] = "busy"}

(* The tasks of the call that runs.                                        *)
Own == {t \in Outstanding : HasFrame(t)}

PoolTypes ==
  /\ tasks \in Seq(Tasks)
  /\ stop \in BOOLEAN
  /\ wstate \in [Workers -> {"awake", "asleep", "busy", "exited"}]
  /\ wtask \in [Workers -> Tasks \cup {NoTask}]
  /\ \A w \in Busy : wtask[w] \in Tasks

CallTypes ==
  /\ main \in {"idle", "blocks", "notify", "ecd_notify", "get", "card",
               "merge", "returned", "thrown", "stopping", "joining", "gone",
               "died"}
  /\ shape \in Shapes
  /\ num_row_blks \in RowBlks
  /\ row_ite \in 0..shape.nrows
  /\ col_ite \in 0..(shape.ncols - 1)
  /\ main = "notify" => row_ite < shape.nrows
  /\ futures \in Seq({"pending", "ok", "error"})
  /\ next \in 1..(Len(futures) + 1)
  /\ frame \in BOOLEAN /\ spoiled \in BOOLEAN /\ updated \in BOOLEAN
  /\ calls \in 0..MaxCalls

(* The future of a task: that of its own call.                            *)
Key(t) == <<t.call, t.id>>

(* No future has two tasks, ...                                            *)
OneTaskEach ==
  /\ \A i, j \in DOMAIN tasks : Key(tasks[i]) = Key(tasks[j]) => i = j
  /\ \A i \in DOMAIN tasks, w \in Busy : Key(tasks[i]) # Key(wtask[w])
  /\ \A v, w \in Busy : Key(wtask[v]) = Key(wtask[w]) => v = w

(* ... and while it has one it is pending, if its call still runs.         *)
Owed ==
  \A t \in Outstanding :
    /\ t.call \in 1..calls
    /\ HasFrame(t) => t.id \in 1..Len(futures) /\ futures[t.id] = "pending"

(* The encoding writes inside of pt_mat.                                   *)
Ranges ==
  /\ pt_mat \subseteq 0..(num_row_blks - 1)
  /\ \A t \in Outstanding :
       HasFrame(t) /\ t.kind = "ecd" => t.range \subseteq 0..(num_row_blks - 1)

(* The caller has gone past the futures that are "ok", and leaves its loop *)
(* behind the last one.                                                    *)
Waited ==
  /\ \A i \in 1..(next - 1) : futures[i] = "ok"
  /\ main \in {"card", "merge", "returned", "idle"} => next = Len(futures) + 1

Running == {"blocks", "notify", "ecd_notify", "get", "card", "merge"}
Between == {"returned", "thrown", "idle"}

(* A frame is there while its call runs, and a task without one is of a    *)
(* call that threw.                                                        *)
Frames ==
  /\ main \in Running => frame /\ calls >= 1
  /\ main \in Between => ~frame
  /\ frame \/ main \in {"returned", "idle"} => calls \notin threw
  /\ threw \subseteq 1..calls
  /\ \A t \in Outstanding : HasFrame(t) \/ t.call \in threw

BInv ==
  PoolTypes /\ CallTypes /\ OneTaskEach /\ Owed /\ Ranges /\ Waited /\ Frames

-----------------------------------------------------------------------------
(* The tasks of the pool *)

(* enqueue adds one task, ...                                              *)
LEMMA Enqueued ==
  ASSUME PoolTypes, NEW t \in Tasks, enqueue(t)
  PROVE  PoolTypes' /\ Outstanding' = Outstanding \cup {t}
  <1>1. tasks' = Append(tasks, t) /\ stop' = stop /\ wstate' = wstate
        /\ wtask' = wtask /\ tasks \in Seq(Tasks)
    BY DEF enqueue, PoolTypes
  <1>2. /\ tasks' \in Seq(Tasks)
        /\ {tasks'[i] : i \in DOMAIN tasks'}
             = {tasks[i] : i \in DOMAIN tasks} \cup {t}
    <2>1. /\ tasks' \in Seq(Tasks) /\ Len(tasks') = Len(tasks) + 1
          /\ \A i \in 1..Len(tasks) : tasks'[i] = tasks[i]
          /\ tasks'[Len(tasks) + 1] = t
          /\ DOMAIN tasks = 1..Len(tasks) /\ DOMAIN tasks' = 1..Len(tasks')
          /\ Len(tasks) \in Nat
      BY <1>1
    <2> QED BY <2>1
  <1> QED BY <1>1, <1>2 DEF PoolTypes, Outstanding, Busy

(* ... which no other stands in for if no task has its future.             *)
LEMMA EnqueuedOnce ==
  ASSUME PoolTypes, OneTaskEach, NEW t \in Tasks, enqueue(t),
         \A u \in Outstanding : Key(u) # Key(t)
  PROVE  OneTaskEach'
  <1>1. tasks' = Append(tasks, t) /\ wstate' = wstate
        /\ wtask' = wtask /\ tasks \in Seq(Tasks)
    BY DEF enqueue, PoolTypes
  <1>2. /\ Len(tasks') = Len(tasks) + 1
        /\ \A i \in 1..Len(tasks) : tasks'[i] = tasks[i]
        /\ tasks'[Len(tasks) + 1] = t
        /\ DOMAIN tasks = 1..Len(tasks) /\ DOMAIN tasks' = 1..Len(tasks')
        /\ Len(tasks) \in Nat
    BY <1>1
  <1>3. /\ \A i \in DOMAIN tasks : Key(tasks[i]) # Key(t)
        /\ \A w \in Busy : Key(wtask[w]) # Key(t)
    BY DEF Outstanding, Busy
  <1> QED BY <1>1, <1>2, <1>3 DEF OneTaskEach, Busy

(* A worker that takes a task leaves what is outstanding alone.            *)
LEMMA Taken ==
  ASSUME PoolTypes, OneTaskEach, NEW w \in Workers, Take(w)
  PROVE  PoolTypes' /\ OneTaskEach' /\ Outstanding' = Outstanding
  <1>1. /\ tasks' = Tail(tasks) /\ tasks # <<>> /\ tasks \in Seq(Tasks)
        /\ stop' = stop /\ wstate[w] = "awake"
        /\ wstate' = [wstate EXCEPT ![w] = "busy"]
        /\ wtask' = [wtask EXCEPT ![w] = Head(tasks)]
    BY DEF Take, PoolTypes
  <1>2. /\ tasks' \in Seq(Tasks) /\ Len(tasks') = Len(tasks) - 1
        /\ \A i \in 1..Len(tasks') : tasks'[i] = tasks[i + 1]
        /\ Head(tasks) = tasks[1] /\ tasks[1] \in Tasks
        /\ DOMAIN tasks = 1..Len(tasks) /\ DOMAIN tasks' = 1..Len(tasks')
        /\ Len(tasks) \in Nat /\ Len(tasks) >= 1
    BY <1>1
  <1>3. {tasks[i] : i \in DOMAIN tasks}
          = {tasks'[i] : i \in DOMAIN tasks'} \cup {tasks[1]}
    <2>1. ASSUME NEW i \in DOMAIN tasks
          PROVE  tasks[i] \in {tasks'[j] : j \in DOMAIN tasks'} \cup {tasks[1]}
      <3>1. CASE i = 1
        BY <3>1
      <3>2. CASE i # 1
        <4>1. i - 1 \in DOMAIN tasks' /\ tasks'[i - 1] = tasks[i]
          BY <3>2, <2>1, <1>2
        <4> QED BY <4>1
      <3> QED BY <3>1, <3>2
    <2>2. ASSUME NEW i \in DOMAIN tasks'
          PROVE  tasks'[i] \in {tasks[j] : j \in DOMAIN tasks}
      <3>1. i + 1 \in DOMAIN tasks /\ tasks'[i] = tasks[i + 1]
        BY <2>2, <1>2
      <3> QED BY <3>1
    <2>3. 1 \in DOMAIN tasks
      BY <1>2
    <2> QED BY <2>1, <2>2, <2>3
  <1>4. /\ Busy' = Busy \cup {w} /\ w \notin Busy
        /\ wtask'[w] = tasks[1]
        /\ \A v \in Busy : wtask'[v] = wtask[v]
    BY <1>1, <1>2 DEF Busy, PoolTypes
  <1>5. PoolTypes'
    BY <1>1, <1>2, <1>4 DEF PoolTypes
  <1>6. Outstanding' = Outstanding
    <2>1. {wtask'[v] : v \in Busy'} = {wtask[v] : v \in Busy} \cup {tasks[1]}
      BY <1>4
    <2> QED BY <2>1, <1>3 DEF Outstanding, Busy
  <1>7. OneTaskEach'
    <2>1. ASSUME NEW i \in DOMAIN tasks', NEW j \in DOMAIN tasks',
                 Key(tasks'[i]) = Key(tasks'[j])
          PROVE  i = j
      <3>1. i + 1 \in DOMAIN tasks /\ tasks'[i] = tasks[i + 1]
            /\ j + 1 \in DOMAIN tasks /\ tasks'[j] = tasks[j + 1]
        BY <2>1, <1>2
      <3>2. i + 1 = j + 1
        BY <3>1, <2>1 DEF OneTaskEach
      <3> QED BY <3>2, <2>1, <1>2
    <2>2. ASSUME NEW i \in DOMAIN tasks', NEW v \in Busy'
          PROVE  Key(tasks'[i]) # Key(wtask'[v])
      <3>1. i + 1 \in DOMAIN tasks /\ tasks'[i] = tasks[i + 1] /\ i + 1 # 1
            /\ 1 \in DOMAIN tasks
        BY <2>2, <1>2
      <3>2. CASE v = w
        BY <3>1, <3>2, <1>4 DEF OneTaskEach
      <3>3. CASE v # w
        BY <3>1, <3>3, <2>2, <1>4 DEF OneTaskEach
      <3> QED BY <3>2, <3>3
    <2>3. ASSUME NEW u \in Busy', NEW v \in Busy',
                 Key(wtask'[u]) = Key(wtask'[v])
          PROVE  u = v
      <3>1. 1 \in DOMAIN tasks
        BY <1>2
      <3> QED BY <2>3, <3>1, <1>4 DEF OneTaskEach
    <2> QED BY <2>1, <2>2, <2>3 DEF OneTaskEach
  <1> QED BY <1>5, <1>6, <1>7

(* A worker that finishes gives up its task, and nobody else has one for   *)
(* the same future.                                                        *)
LEMMA Finished ==
  ASSUME PoolTypes, OneTaskEach, NEW w \in Workers, Finish(w)
  PROVE  /\ PoolTypes' /\ OneTaskEach'
         /\ wtask[w] \in Tasks /\ wtask[w] \in Outstanding
         /\ Outstanding = Outstanding' \cup {wtask[w]}
         /\ \A t \in Outstanding' : Key(t) # Key(wtask[w])
  <1>1. /\ tasks' = tasks /\ stop' = stop /\ wstate[w] = "busy"
        /\ wstate' = [wstate EXCEPT ![w] = "awake"]
        /\ wtask' = [wtask EXCEPT ![w] = NoTask]
    BY DEF Finish
  <1>2. /\ Busy' = Busy \ {w} /\ w \in Busy
        /\ \A v \in Busy' : wtask'[v] = wtask[v]
    BY <1>1 DEF Busy, PoolTypes
  <1>3. PoolTypes'
    BY <1>1, <1>2 DEF PoolTypes
  <1>4. OneTaskEach'
    BY <1>1, <1>2 DEF OneTaskEach
  <1>5. wtask[w] \in Tasks /\ wtask[w] \in Outstanding
    BY <1>2 DEF PoolTypes, Outstanding, Busy
  <1>6. {wtask[v] : v \in Busy} = {wtask'[v] : v \in Busy'} \cup {wtask[w]}
    BY <1>2
  <1>7. Outstanding = Outstanding' \cup {wtask[w]}
    BY <1>1, <1>6 DEF Outstanding, Busy
  <1>8. \A i \in DOMAIN tasks : Key(tasks[i]) # Key(wtask[w])
    BY <1>2 DEF OneTaskEach
  <1>9. \A v \in Busy' : Key(wtask'[v]) # Key(wtask[w])
    BY <1>2 DEF OneTaskEach
  <1>10. \A t \in Outstanding' : Key(t) # Key(wtask[w])
    BY <1>1, <1>8, <1>9 DEF Outstanding, Busy
  <1> QED BY <1>3, <1>4, <1>5, <1>7, <1>10

(* Who wakes, sleeps, leaves or is told to stop moves no task.             *)
LEMMA PoolIdles ==
  ASSUME PoolTypes, OneTaskEach,
         tasks' = tasks, wtask' = wtask, stop' \in BOOLEAN,
         wstate' \in [Workers -> {"awake", "asleep", "busy", "exited"}],
         \A w \in Workers : wstate'[w] = "busy" <=> wstate[w] = "busy"
  PROVE  PoolTypes' /\ OneTaskEach' /\ Outstanding' = Outstanding
  <1>1. Busy' = Busy
    BY DEF Busy
  <1> QED BY <1>1 DEF PoolTypes, OneTaskEach, Outstanding, Busy

-----------------------------------------------------------------------------
(* Every step preserves the invariant *)

(* The sizes of a call, and of its blocks.                                 *)
LEMMA Sizes ==
  ASSUME CallTypes
  PROVE  /\ shape.nrows \in Nat /\ shape.nrows >= 1
         /\ shape.ncols \in Nat /\ shape.ncols >= 1
         /\ num_row_blks \in Nat /\ num_row_blks >= 1
         /\ BLK_NROWS \in Nat /\ BLK_NROWS >= 3
         /\ BLK_NCOLS \in Nat /\ BLK_NCOLS >= 1
         /\ N \in Nat /\ BLK_NROWS <= N
  <1>1. N \in Nat
    BY DegreeAssumption, NatPower
  <1> QED BY <1>1, BlockAssumption, BlockSizeAssumption DEF CallTypes

(* Behind its loop the caller has no task in the pool.                     *)
LEMMA NoneLeft ==
  ASSUME BInv, main \in {"card", "merge", "returned", "idle"}
  PROVE  \A t \in Outstanding : t.call # calls
  <1> SUFFICES ASSUME NEW t \in Outstanding PROVE t.call # calls
    OBVIOUS
  <1>1. CASE main \in {"card", "merge"}
    <2>1. frame
      BY <1>1 DEF BInv, Frames, Running
    <2>2. Len(futures) \in Nat /\ next = Len(futures) + 1
      BY <1>1 DEF BInv, CallTypes, Waited
    <2>3. \A i \in 1..Len(futures) : futures[i] = "ok"
      BY <2>2 DEF BInv, Waited
    <2> QED BY <2>1, <2>3 DEF BInv, Owed, HasFrame
  <1>2. CASE main \in {"returned", "idle"}
    BY <1>2 DEF BInv, Frames, Between, HasFrame
  <1> QED BY <1>1, <1>2

(* What a finished task does: its future is set once.                      *)
LEMMA Settled ==
  ASSUME BInv, NEW w \in Workers, NEW how \in {"ok", "error"},
         Settle(w, how), pt_mat' \subseteq 0..(num_row_blks - 1)
  PROVE  /\ BInv'
         /\ futures[wtask[w].id] = "pending" /\ futures'[wtask[w].id] = how
         /\ \A i \in DOMAIN futures :
              i # wtask[w].id => futures'[i] = futures[i]
         /\ wtask[w].id \in DOMAIN futures /\ DOMAIN futures' = DOMAIN futures
  <1> DEFINE id == wtask[w].id
  <1>1. /\ PoolTypes' /\ OneTaskEach'
        /\ wtask[w] \in Tasks /\ wtask[w] \in Outstanding
        /\ Outstanding = Outstanding' \cup {wtask[w]}
        /\ \A t \in Outstanding' : Key(t) # Key(wtask[w])
    BY Finished DEF BInv, Settle
  <1>2. /\ HasFrame(wtask[w])
        /\ futures' = [futures EXCEPT ![id] = how]
        /\ UNCHANGED <<main, shape, num_row_blks, row_ite, col_ite, next, frame,
                       result, calls, threw, spoiled>>
    BY DEF Settle
  <1>3. id \in 1..Len(futures) /\ futures[id] = "pending"
    BY <1>1, <1>2 DEF BInv, Owed
  <1>4. /\ futures' \in Seq({"pending", "ok", "error"})
        /\ Len(futures') = Len(futures) /\ Len(futures) \in Nat
        /\ futures'[id] = how
        /\ \A i \in 1..Len(futures) : i # id => futures'[i] = futures[i]
        /\ DOMAIN futures = 1..Len(futures) /\ DOMAIN futures' = DOMAIN futures
    BY <1>2, <1>3 DEF BInv, CallTypes
  <1>5. CallTypes'
    BY <1>2, <1>4 DEF BInv, CallTypes, result
  <1>6. Owed'
    <2> SUFFICES ASSUME NEW t \in Outstanding'
                 PROVE  /\ t.call \in 1..calls
                        /\ HasFrame(t) => /\ t.id \in 1..Len(futures')
                                          /\ futures'[t.id] = "pending"
      BY <1>2 DEF Owed, HasFrame
    <2>1. t \in Outstanding /\ Key(t) # Key(wtask[w])
      BY <1>1
    <2>2. HasFrame(t) => t.id # id
      BY <1>2, <2>1 DEF HasFrame, Key
    <2> QED BY <2>1, <2>2, <1>4 DEF BInv, Owed
  <1>7. Ranges'
    BY <1>1, <1>2 DEF BInv, Ranges, HasFrame
  <1>8. Waited'
    <2>1. \A i \in 1..(next - 1) : i \in 1..Len(futures) /\ i # id
      BY <1>3, <1>4 DEF BInv, CallTypes, Waited
    <2> QED BY <2>1, <1>2, <1>4 DEF BInv, Waited
  <1>9. Frames'
    BY <1>1, <1>2 DEF BInv, Frames, HasFrame
  <1>10. BInv'
    BY <1>1, <1>5, <1>6, <1>7, <1>8, <1>9 DEF BInv
  <1> QED BY <1>3, <1>4, <1>10

(* What a task of a call that threw does: the futures stay as they are.    *)
LEMMA StrayKeeps ==
  ASSUME BInv, NEW w \in Workers, StrayEnds(w)
  PROVE  BInv'
  <1>1. /\ PoolTypes' /\ OneTaskEach'
        /\ Outstanding = Outstanding' \cup {wtask[w]}
    BY Finished DEF BInv, StrayEnds
  <1>2. /\ UNCHANGED <<shape, num_row_blks, row_ite, col_ite, futures, next,
                       frame, result, calls, threw>>
        /\ main' = main \/ main' = "died"
        /\ pt_mat' = pt_mat \/ pt_mat' = pt_mat \ wtask[w].range
        /\ spoiled' = (spoiled \/ frame)
    BY DEF StrayEnds
  <1>3. pt_mat' \subseteq 0..(num_row_blks - 1)
    BY <1>2 DEF BInv, Ranges
  <1>4. CallTypes'
    BY <1>2 DEF BInv, CallTypes, result
  <1>5. Owed' /\ Ranges' /\ Frames'
    BY <1>1, <1>2, <1>3
       DEF BInv, Owed, Ranges, Frames, HasFrame, Running, Between
  <1>6. Waited'
    BY <1>2 DEF BInv, Waited
  <1> QED BY <1>1, <1>4, <1>5, <1>6 DEF BInv

(* The encoding tasks keep to the row blocks there are.                    *)
LEMMA EcdRangeFits ==
  ASSUME num_row_blks \in Nat, PoolSize \in Nat, PoolSize >= 1, NEW j \in Nat
  PROVE  EcdRange(j) \subseteq 0..(num_row_blks - 1)
  <1> DEFINE load == CeilDiv(num_row_blks, PoolSize)
             end  == IF j * load + load < num_row_blks THEN j * load + load
                     ELSE num_row_blks
  <1>1. load \in Nat
    BY DivMod DEF CeilDiv
  <1> HIDE DEF load
  <1>2. j * load \in Nat
    BY <1>1
  <1>3. end \in Int /\ end <= num_row_blks
    BY <1>1, <1>2
  <1> HIDE DEF end
  <1>4. (j * load)..(end - 1) \subseteq 0..(num_row_blks - 1)
    BY <1>2, <1>3
  <1> QED BY <1>4 DEF EcdRange, load, end

(* A launched task has a future of its own.                                *)
LEMMA Launched ==
  ASSUME BInv, NEW t \in Tasks, t.id = Len(futures) + 1, t.call = calls,
         t.kind = "ecd" => t.range \subseteq 0..(num_row_blks - 1),
         main = "blocks", main' \in {"notify", "ecd_notify"},
         main' = "notify" => row_ite < shape.nrows,
         Launch(t)
  PROVE  /\ BInv'
         /\ Own' = Own \cup {t}
         /\ Len(futures') = Len(futures) + 1
         /\ futures'[Len(futures) + 1] = "pending"
         /\ \A i \in DOMAIN futures :
              i \in DOMAIN futures' /\ futures'[i] = futures[i]
         /\ DOMAIN futures' = 1..(Len(futures) + 1)
  <1>1. /\ enqueue(t)
        /\ futures' = Append(futures, "pending")
        /\ UNCHANGED <<shape, num_row_blks, row_ite, col_ite, next,
                       mvp_matrix_result, pt_mat, frame, result, calls,
                       threw, spoiled>>
    BY DEF Launch
  <1>2. PoolTypes' /\ Outstanding' = Outstanding \cup {t}
    BY <1>1, Enqueued DEF BInv
  <1>3. Len(futures) \in Nat
    BY DEF BInv, CallTypes
  <1>4. frame /\ calls >= 1 /\ calls \in Nat
    BY DEF BInv, Frames, Running, CallTypes
  <1>5. \A u \in Outstanding : Key(u) # Key(t)
    BY <1>3, <1>4 DEF BInv, Owed, HasFrame, Key
  <1>6. OneTaskEach'
    BY <1>1, <1>5, EnqueuedOnce DEF BInv
  <1>7. /\ futures' \in Seq({"pending", "ok", "error"})
        /\ Len(futures') = Len(futures) + 1
        /\ futures'[Len(futures) + 1] = "pending"
        /\ \A i \in 1..Len(futures) : futures'[i] = futures[i]
        /\ DOMAIN futures = 1..Len(futures)
        /\ DOMAIN futures' = 1..(Len(futures) + 1)
    BY <1>1 DEF BInv, CallTypes
  <1>8. CallTypes'
    BY <1>1, <1>3, <1>7 DEF BInv, CallTypes, result
  <1>9. Owed'
    BY <1>1, <1>2, <1>3, <1>4, <1>7 DEF BInv, Owed, HasFrame
  <1>10. Ranges'
    BY <1>1, <1>2 DEF BInv, Ranges, HasFrame
  <1>11. Waited'
    <2>1. \A i \in 1..(next - 1) : i \in 1..Len(futures)
      BY <1>3 DEF BInv, CallTypes
    <2> QED BY <2>1, <1>1, <1>7 DEF BInv, Waited
  <1>12. Frames'
    BY <1>1, <1>2, <1>4 DEF BInv, Frames, HasFrame, Running, Between
  <1>13. BInv'
    BY <1>2, <1>6, <1>8, <1>9, <1>10, <1>11, <1>12 DEF BInv
  <1>14. Own' = Own \cup {t}
    BY <1>1, <1>2, <1>4 DEF Own, HasFrame
  <1>15. \A i \in DOMAIN futures :
           i \in DOMAIN futures' /\ futures'[i] = futures[i]
    BY <1>3, <1>7
  <1> QED BY <1>7, <1>13, <1>14, <1>15

(* The task of the next block.                                             *)
LEMMA ThisBlockIs ==
  ASSUME BInv, row_ite < shape.nrows
  PROVE  ThisBlock \in Tasks /\ ThisBlock.id = Len(futures) + 1
         /\ ThisBlock.kind = "block" /\ ThisBlock.call = calls
  <1>1. Len(futures) \in Nat /\ calls \in Nat
        /\ row_ite \in Nat /\ col_ite \in Nat
        /\ col_ite < shape.ncols
    BY Sizes DEF BInv, CallTypes
  <1>2. /\ shape.nrows \in Nat /\ shape.ncols \in Nat
        /\ BLK_NROWS \in Nat /\ BLK_NROWS >= 3
        /\ BLK_NCOLS \in Nat /\ BLK_NCOLS >= 1
    BY Sizes DEF BInv
  <1>3. RowDims(shape.nrows, row_ite) \in 1..BLK_NROWS
    BY <1>1, <1>2, RowDimsFit
  <1>4. ColDims(shape.ncols, col_ite) \in 1..BLK_NCOLS
    BY <1>1, <1>2, ColDimsFit
  <1>5. RowDims(shape.nrows, row_ite) \in Nat
        /\ ColDims(shape.ncols, col_ite) \in Nat
    BY <1>2, <1>3, <1>4
  <1> QED BY <1>1, <1>5 DEF ThisBlock, Tasks

(* The pool has a number of workers, and one at least.                     *)
LEMMA PoolCounts == PoolSize \in Nat /\ PoolSize >= 1
  <1>1. PoolSize \in Nat
    BY BlockAssumption, FS_CardinalityType DEF PoolSize
  <1>2. PoolSize # 0
    BY BlockAssumption, FS_EmptySet DEF PoolSize
  <1> QED BY <1>1, <1>2

(* The two launches.                                                       *)
LEMMA LaunchKeeps ==
  ASSUME BInv, LaunchBlock \/ LaunchEncoding PROVE BInv'
  <1>1. CASE LaunchBlock
    BY <1>1, ThisBlockIs, Launched DEF LaunchBlock, Goto
  <1>2. CASE LaunchEncoding
    <2> DEFINE t == [kind |-> "ecd", call |-> calls, id |-> Len(futures) + 1,
                     range |-> EcdRange(Len(futures))]
    <2>1. Len(futures) \in Nat /\ num_row_blks \in Nat /\ calls \in Nat
      BY Sizes DEF BInv, CallTypes
    <2>2. EcdRange(Len(futures)) \subseteq 0..(num_row_blks - 1)
      BY <2>1, <1>2, PoolCounts, EcdRangeFits DEF LaunchEncoding
    <2>3. EcdRange(Len(futures)) \subseteq Nat
      BY <2>1, <2>2
    <2>4. t \in Tasks /\ t.id = Len(futures) + 1 /\ t.kind = "ecd"
          /\ t.call = calls /\ t.range \subseteq 0..(num_row_blks - 1)
      BY <2>1, <2>2, <2>3 DEF Tasks
    <2>5. Launch(t) /\ main = "blocks" /\ main' = "ecd_notify"
      BY <1>2 DEF LaunchEncoding, Goto
    <2> HIDE DEF t
    <2> QED BY <2>4, <2>5, Launched
  <1> QED BY <1>1, <1>2

(* A notification, a nap, the end of a worker: nothing of a call moves.    *)
LEMMA NotifyOneIdles ==
  ASSUME PoolTypes, OneTaskEach, notify_one
  PROVE  PoolTypes' /\ OneTaskEach' /\ Outstanding' = Outstanding
  <1>1. tasks' = tasks /\ wtask' = wtask /\ stop' = stop
    BY DEF notify_one
  <1>2. /\ wstate' \in [Workers -> {"awake", "asleep", "busy", "exited"}]
        /\ \A w \in Workers : wstate'[w] = "busy" <=> wstate[w] = "busy"
    <2>1. CASE \E w \in Workers : wstate[w] = "asleep"
      <3>1. PICK w \in Workers : /\ wstate[w] = "asleep"
                                 /\ wstate' = [wstate EXCEPT ![w] = "awake"]
        BY <2>1 DEF notify_one
      <3> QED BY <3>1 DEF PoolTypes
    <2>2. CASE ~\E w \in Workers : wstate[w] = "asleep"
      BY <2>2 DEF notify_one, PoolTypes
    <2> QED BY <2>1, <2>2
  <1> QED BY <1>1, <1>2, PoolIdles DEF PoolTypes

(* The caller stays where what it has waited for is the same.              *)
LEMMA CallerMoves ==
  ASSUME BInv, PoolTypes', OneTaskEach', Outstanding' = Outstanding,
         UNCHANGED <<shape, num_row_blks, row_ite, col_ite, futures, next,
                     pt_mat, frame, calls, threw>>,
         updated' \in BOOLEAN, spoiled' \in BOOLEAN,
         main' \in Running => main \in Running,
         main' \in Between => main \in Between,
         main' = "notify" => main = "notify",
         main' \in {"returned", "idle"} => main \in {"returned", "idle"},
         main' \in {"card", "merge"} =>
           main \in {"card", "merge"} \/ next > Len(futures),
         main' \in Running \cup Between
                    \cup {"stopping", "joining", "gone", "died"}
  PROVE  BInv'
  <1>1. Len(futures) \in Nat
    BY DEF BInv, CallTypes
  <1>2. CallTypes'
    BY <1>1 DEF BInv, CallTypes, Running, Between
  <1>3. Owed' /\ Ranges'
    BY DEF BInv, Owed, Ranges, HasFrame
  <1>4. Waited'
    BY <1>1 DEF BInv, Waited, CallTypes
  <1>5. Frames'
    BY DEF BInv, Frames, HasFrame
  <1> QED BY <1>2, <1>3, <1>4, <1>5 DEF BInv

(* The steps of the caller that leave the futures alone.                   *)
LEMMA MainKeeps ==
  ASSUME BInv,
         \/ BlocksLaunched \/ EncodingLaunched \/ GotAll
         \/ RunCard \/ UpdateVector \/ Decrypt \/ Join
  PROVE  BInv'
  <1> USE DEF Goto, Running, Between
  <1>1. /\ PoolTypes' /\ OneTaskEach' /\ Outstanding' = Outstanding
        /\ UNCHANGED <<shape, num_row_blks, row_ite, col_ite, futures, next,
                       pt_mat, frame, calls, threw, spoiled>>
    <2>1. UNCHANGED <<pool, shape, num_row_blks, row_ite, col_ite, futures,
                      next, pt_mat, frame, calls, threw, spoiled>>
      BY DEF BlocksLaunched, EncodingLaunched, GotAll, RunCard,
             UpdateVector, Decrypt, Join, call
    <2> QED BY <2>1 DEF pool, BInv, PoolTypes, OneTaskEach, Outstanding, Busy
  <1>2. spoiled \in BOOLEAN /\ updated \in BOOLEAN
    BY DEF BInv, CallTypes
  <1>3. CASE BlocksLaunched \/ EncodingLaunched
    BY <1>1, <1>2, <1>3, CallerMoves
       DEF BlocksLaunched, EncodingLaunched, result
  <1>4. CASE GotAll
    BY <1>1, <1>2, <1>4, CallerMoves DEF GotAll, result
  <1>5. CASE RunCard
    BY <1>1, <1>2, <1>5, CallerMoves DEF RunCard, result
  <1>6. CASE UpdateVector
    BY <1>1, <1>2, <1>6, CallerMoves DEF UpdateVector
  <1>7. CASE Decrypt
    BY <1>1, <1>2, <1>7, CallerMoves DEF Decrypt
  <1>8. CASE Join
    BY <1>1, <1>2, <1>8, CallerMoves DEF Join, result
  <1> QED BY <1>3, <1>4, <1>5, <1>6, <1>7, <1>8

(* A call that throws leaves its tasks where they are.                     *)
LEMMA ThrowKeeps ==
  ASSUME BInv, GetError \/ CardError
  PROVE  BInv'
  <1>1. /\ main \in {"get", "card"} /\ main' = "thrown" /\ frame' = FALSE
        /\ threw' = threw \cup {calls}
        /\ UNCHANGED <<pool, shape, num_row_blks, row_ite, col_ite, futures,
                       next, pt_mat, result, calls, spoiled>>
    BY DEF GetError, CardError, Throws
  <1>2. PoolTypes' /\ OneTaskEach' /\ Outstanding' = Outstanding
    BY <1>1 DEF pool, BInv, PoolTypes, OneTaskEach, Outstanding, Busy
  <1>3. frame /\ calls >= 1 /\ calls \in Nat
    BY <1>1 DEF BInv, Frames, Running, CallTypes
  <1>4. CallTypes'
    BY <1>1 DEF BInv, CallTypes, result
  <1>5. Owed' /\ Ranges' /\ Waited'
    BY <1>1, <1>2 DEF BInv, Owed, Ranges, Waited, HasFrame
  <1>6. threw' \subseteq 1..calls
    BY <1>1, <1>3 DEF BInv, Frames
  <1>7. \A t \in Outstanding : t.call \in threw'
    BY <1>1 DEF BInv, Frames, HasFrame
  <1>8. Frames'
    BY <1>1, <1>2, <1>6, <1>7 DEF Frames, Running, Between
  <1> QED BY <1>2, <1>4, <1>5, <1>8 DEF BInv

(* A call that returns has none.                                           *)
LEMMA MergeKeeps ==
  ASSUME BInv, Merge
  PROVE  BInv'
  <1>1. /\ main = "merge" /\ main' = "returned" /\ frame' = FALSE
        /\ UNCHANGED <<pool, shape, num_row_blks, row_ite, col_ite, futures,
                       next, pt_mat, updated, calls, threw, spoiled>>
    BY DEF Merge, Goto
  <1>2. PoolTypes' /\ OneTaskEach' /\ Outstanding' = Outstanding
    BY <1>1 DEF pool, BInv, PoolTypes, OneTaskEach, Outstanding, Busy
  <1>3. frame /\ calls \notin threw
    BY <1>1 DEF BInv, Frames, Running
  <1>4. CallTypes'
    BY <1>1 DEF BInv, CallTypes
  <1>5. Owed' /\ Ranges' /\ Waited'
    BY <1>1, <1>2 DEF BInv, Owed, Ranges, Waited, HasFrame
  <1>6. \A t \in Outstanding : t.call \in threw
    BY <1>1, NoneLeft DEF BInv, Frames, HasFrame
  <1>7. Frames'
    BY <1>1, <1>2, <1>3, <1>6 DEF BInv, Frames, Running, Between
  <1> QED BY <1>2, <1>4, <1>5, <1>7 DEF BInv

(* GetOk goes on to the next future.                                       *)
LEMMA GetOkKeeps ==
  ASSUME BInv, GetOk PROVE BInv'
  <1>1. /\ main = "get" /\ main' = main /\ next <= Len(futures)
        /\ futures[next] = "ok" /\ next' = next + 1
        /\ UNCHANGED <<pool, shape, num_row_blks, row_ite, col_ite, futures,
                       pt_mat, frame, result, calls, threw, spoiled>>
    BY DEF GetOk
  <1>2. PoolTypes' /\ OneTaskEach' /\ Outstanding' = Outstanding
    BY <1>1 DEF pool, BInv, PoolTypes, OneTaskEach, Outstanding, Busy
  <1>3. CallTypes'
    BY <1>1 DEF BInv, CallTypes, result
  <1>4. Owed' /\ Ranges'
    BY <1>1, <1>2 DEF BInv, Owed, Ranges, HasFrame
  <1>5. Waited'
    <2>1. \A i \in 1..next : i \in 1..(next - 1) \/ i = next
      BY DEF BInv, CallTypes
    <2> QED BY <1>1, <2>1 DEF BInv, CallTypes, Waited
  <1>6. Frames'
    BY <1>1, <1>2 DEF BInv, Frames, HasFrame
  <1> QED BY <1>2, <1>3, <1>4, <1>5, <1>6 DEF BInv

(* A new call finds in the pool what calls that threw have left, and drops *)
(* the old futures.                                                        *)
LEMMA CallKeeps ==
  ASSUME BInv, NEW s \in Shapes, NEW nb \in RowBlks, Call(s, nb) PROVE BInv'
  <1>1. /\ main \in {"idle", "thrown"} /\ main' = "blocks" /\ calls < MaxCalls
        /\ calls' = calls + 1 /\ shape' = s /\ num_row_blks' = nb
        /\ row_ite' = 0 /\ col_ite' = 0 /\ futures' = <<>> /\ next' = 1
        /\ pt_mat' = {} /\ frame' = TRUE /\ updated' = FALSE
        /\ spoiled' = FALSE
        /\ UNCHANGED <<pool, threw>>
    BY DEF Call, Goto
  <1>2. PoolTypes' /\ OneTaskEach' /\ Outstanding' = Outstanding
    BY <1>1 DEF pool, BInv, PoolTypes, OneTaskEach, Outstanding, Busy
  <1>3. calls \in Nat /\ calls' \in 0..MaxCalls
    BY <1>1, BlockAssumption DEF BInv, CallTypes
  <1>4. CallTypes'
    <2>1. s.nrows \in Nat /\ s.nrows >= 1 /\ s.ncols \in Nat /\ s.ncols >= 1
      BY BlockAssumption
    <2>2. futures' \in Seq({"pending", "ok", "error"}) /\ Len(futures') = 0
      BY <1>1
    <2>3. next' \in 1..(Len(futures') + 1)
      BY <1>1, <2>2
    <2>4. main' = "blocks" /\ shape' = s /\ num_row_blks' = nb
          /\ row_ite' = 0 /\ col_ite' = 0 /\ frame' = TRUE
          /\ updated' = FALSE /\ spoiled' = FALSE
      BY <1>1
    <2>5. row_ite' \in 0..shape'.nrows /\ col_ite' \in 0..(shape'.ncols - 1)
      BY <2>1, <2>4
    <2> QED BY <1>3, <2>2, <2>3, <2>4, <2>5 DEF CallTypes
  <1>5. \A t \in Outstanding :
          t.call \in 1..calls /\ t.call # calls' /\ t.call \in threw
    BY <1>1, <1>3 DEF BInv, Owed, Frames, Between, HasFrame
  <1>6. Owed' /\ Ranges'
    BY <1>1, <1>2, <1>3, <1>5 DEF Owed, Ranges, HasFrame
  <1>7. Waited'
    BY <1>1 DEF Waited
  <1>8. threw' \subseteq 1..calls /\ calls' \notin threw'
    BY <1>1, <1>3 DEF BInv, Frames
  <1>9. Frames'
    BY <1>1, <1>2, <1>3, <1>5, <1>8 DEF Frames, Running, Between
  <1> QED BY <1>2, <1>4, <1>6, <1>7, <1>9 DEF BInv

(* The steps that only notify or stop the pool.                            *)
LEMMA NotifyKeeps ==
  ASSUME BInv, NotifyEncoding \/ NotifyStop \/ Destroy PROVE BInv'
  <1> USE DEF Goto, Running, Between
  <1>1. UNCHANGED <<shape, num_row_blks, row_ite, col_ite, futures, next,
                    pt_mat, frame, result, calls, threw, spoiled>>
    BY DEF NotifyEncoding, NotifyStop, Destroy, call
  <1>2. PoolTypes' /\ OneTaskEach' /\ Outstanding' = Outstanding
    <2>1. CASE NotifyEncoding
      BY <2>1, NotifyOneIdles DEF BInv, NotifyEncoding
    <2>2. CASE NotifyStop
      <3>1. tasks' = tasks /\ wtask' = wtask /\ stop' = stop
            /\ wstate' = [w \in Workers |-> IF wstate[w] = "asleep"
                                            THEN "awake" ELSE wstate[w]]
        BY <2>2 DEF NotifyStop, notify_all
      <3>2. /\ wstate' \in [Workers -> {"awake", "asleep", "busy", "exited"}]
            /\ \A w \in Workers : wstate'[w] = "busy" <=> wstate[w] = "busy"
        BY <3>1 DEF BInv, PoolTypes
      <3> QED BY <3>1, <3>2, PoolIdles DEF BInv, PoolTypes
    <2>3. CASE Destroy
      <3>1. tasks' = tasks /\ wtask' = wtask /\ stop' = TRUE
            /\ wstate' = wstate
        BY <2>3 DEF Destroy, Stop
      <3> QED BY <3>1, PoolIdles DEF BInv, PoolTypes
    <2> QED BY <2>1, <2>2, <2>3
  <1>3. spoiled' \in BOOLEAN /\ updated' \in BOOLEAN
    BY <1>1 DEF BInv, CallTypes, result
  <1>4. CASE NotifyEncoding
    BY <1>1, <1>2, <1>3, <1>4, CallerMoves DEF NotifyEncoding
  <1>5. CASE NotifyStop
    BY <1>1, <1>2, <1>3, <1>5, CallerMoves DEF NotifyStop
  <1>6. CASE Destroy
    BY <1>1, <1>2, <1>3, <1>6, CallerMoves DEF Destroy
  <1> QED BY <1>4, <1>5, <1>6

(* After a block comes the next one of its row, or the next row.           *)
LEMMA NotifyBlockKeeps ==
  ASSUME BInv, NotifyBlock PROVE BInv'
  <1>1. /\ main = "notify" /\ main' = "blocks" /\ notify_one /\ NextBlock
        /\ UNCHANGED <<shape, num_row_blks, futures, next, pt_mat, frame,
                       result, calls, threw, spoiled>>
    BY DEF NotifyBlock, Goto
  <1>2. PoolTypes' /\ OneTaskEach' /\ Outstanding' = Outstanding
    BY <1>1, NotifyOneIdles DEF BInv
  <1>3. row_ite' \in 0..shape.nrows /\ col_ite' \in 0..(shape.ncols - 1)
    <2>1. /\ row_ite \in Nat /\ row_ite < shape.nrows
          /\ col_ite \in Nat /\ col_ite < shape.ncols
          /\ shape.nrows \in Nat /\ shape.ncols \in Nat
          /\ BLK_NROWS \in Nat /\ BLK_NROWS >= 3
          /\ BLK_NCOLS \in Nat /\ BLK_NCOLS >= 1
      BY <1>1, Sizes DEF BInv, CallTypes
    <2>2. RowDims(shape.nrows, row_ite) \in 1..BLK_NROWS
          /\ row_ite + RowDims(shape.nrows, row_ite) <= shape.nrows
      BY <2>1, RowDimsFit
    <2> QED BY <1>1, <2>1, <2>2 DEF NextBlock
  <1>4. CallTypes'
    BY <1>1, <1>3 DEF BInv, CallTypes, result
  <1>5. Owed' /\ Ranges' /\ Waited'
    BY <1>1, <1>2 DEF BInv, Owed, Ranges, Waited, HasFrame
  <1>6. Frames'
    BY <1>1, <1>2 DEF BInv, Frames, HasFrame, Running, Between
  <1> QED BY <1>2, <1>4, <1>5, <1>6 DEF BInv

(* The workers.                                                            *)
LEMMA WorkerKeeps ==
  ASSUME BInv, NEW w \in Workers, WorkerIdles(w) \/ Wakeup(w) \/ WorkerWorks(w)
  PROVE  BInv'
  <1>1. CASE WorkerIdles(w) \/ Wakeup(w)
    <2>1. UNCHANGED <<main, call, result, calls, threw, spoiled>>
      BY <1>1 DEF WorkerIdles, Wakeup
    <2>2. PoolTypes' /\ OneTaskEach' /\ Outstanding' = Outstanding
      <3>1. CASE Take(w)
        BY <3>1, Taken DEF BInv
      <3>2. CASE Sleep(w) \/ Exit(w) \/ SpuriousWakeup(w)
        <4>1. /\ tasks' = tasks /\ wtask' = wtask /\ stop' = stop
              /\ wstate' \in [Workers -> {"awake", "asleep", "busy", "exited"}]
              /\ \A v \in Workers : wstate'[v] = "busy" <=> wstate[v] = "busy"
          BY <3>2 DEF Sleep, Exit, SpuriousWakeup, BInv, PoolTypes
        <4> QED BY <4>1, PoolIdles DEF BInv, PoolTypes
      <3> QED BY <1>1, <3>1, <3>2 DEF WorkerIdles, Wakeup
    <2> QED BY <2>1, <2>2, CallerMoves
            DEF call, result, BInv, CallTypes, Running, Between
  <1>2. CASE EncodingDone(w)
    <2>1. Finish(w) /\ Settle(w, "ok") /\ wtask[w].kind = "ecd"
          /\ HasFrame(wtask[w]) /\ pt_mat' = pt_mat \cup wtask[w].range
      BY <1>2 DEF EncodingDone, Settle
    <2>2. wtask[w] \in Outstanding
      BY <2>1, Finished DEF BInv
    <2>3. pt_mat' \subseteq 0..(num_row_blks - 1)
      BY <2>1, <2>2 DEF BInv, Ranges
    <2> QED BY <2>1, <2>3, Settled
  <1>3. CASE EncodingFails(w)
    BY <1>3, Settled DEF EncodingFails, BInv, Ranges
  <1>4. CASE BlockDone(w)
    BY <1>4, Settled DEF BlockDone, BInv, Ranges
  <1>5. CASE BlockThrows(w)
    BY <1>5, Settled DEF BlockThrows, BInv, Ranges
  <1>6. CASE StrayEnds(w)
    BY <1>6, StrayKeeps
  <1> QED BY <1>1, <1>2, <1>3, <1>4, <1>5, <1>6 DEF WorkerWorks

(* It holds at the beginning, ...                                          *)
LEMMA BInvInit == Init => BInv
  <1> SUFFICES ASSUME Init PROVE BInv
    OBVIOUS
  <1>1. shape \in Shapes /\ num_row_blks \in RowBlks
    BY BlockAssumption DEF Init
  <1>2. /\ shape.nrows \in Nat /\ shape.nrows >= 1
        /\ shape.ncols \in Nat /\ shape.ncols >= 1
    BY <1>1, BlockAssumption
  <1>3. CallTypes
    <2>1. futures \in Seq({"pending", "ok", "error"}) /\ Len(futures) = 0
      BY DEF Init
    <2>2. next \in 1..(Len(futures) + 1)
      BY <2>1 DEF Init
    <2>3. calls \in 0..MaxCalls
      BY BlockAssumption DEF Init
    <2>4. main = "idle" /\ row_ite = 0 /\ col_ite = 0 /\ frame = FALSE
          /\ updated = FALSE /\ spoiled = FALSE
      BY DEF Init
    <2>5. row_ite \in 0..shape.nrows /\ col_ite \in 0..(shape.ncols - 1)
      BY <1>2, <2>4
    <2> QED BY <1>1, <2>1, <2>2, <2>3, <2>4, <2>5 DEF CallTypes
  <1>4. PoolTypes /\ OneTaskEach /\ Outstanding = {}
    <2>1. tasks \in Seq(Tasks) /\ DOMAIN tasks = {}
      BY DEF Init, PoolInit
    <2>2. Busy = {}
      BY DEF Init, PoolInit, Busy
    <2> QED BY <2>1, <2>2
            DEF Init, PoolInit, PoolTypes, OneTaskEach, Outstanding, Busy
  <1>5. Owed /\ Ranges /\ Waited /\ Frames
    BY <1>4 DEF Init, Owed, Ranges, Waited, Frames, Running, Between
  <1> QED BY <1>3, <1>4, <1>5 DEF BInv

(* ... and every step keeps it.                                            *)
LEMMA BInvStep == BInv /\ [Next]_vars => BInv'
  <1> SUFFICES ASSUME BInv, [Next]_vars PROVE BInv'
    OBVIOUS
  <1>1. CASE MainStep \/ UpdateVector \/ Destroy
    BY <1>1, LaunchKeeps, NotifyBlockKeeps, MainKeeps, ThrowKeeps,
       MergeKeeps, GetOkKeeps, NotifyKeeps
       DEF MainStep
  <1>2. CASE \E s \in Shapes, nb \in RowBlks : Call(s, nb)
    BY <1>2, CallKeeps
  <1>3. CASE \E w \in Workers : WorkerIdles(w) \/ Wakeup(w) \/ WorkerWorks(w)
    BY <1>3, WorkerKeeps
  <1>4. CASE UNCHANGED vars
    <2>1. PoolTypes' /\ OneTaskEach' /\ Outstanding' = Outstanding
      BY <1>4 DEF vars, pool, BInv, PoolTypes, OneTaskEach, Outstanding, Busy
    <2>2. UNCHANGED <<main, call, result, calls, threw, spoiled>>
      BY <1>4 DEF vars
    <2> QED BY <2>1, <2>2, CallerMoves
            DEF call, result, BInv, CallTypes, Running, Between
  <1> QED BY <1>1, <1>2, <1>3, <1>4 DEF Next

(* Every variable of the pool and of the calls keeps its type, and every   *)
(* task its future, for any number of workers, calls and failures.         *)
THEOREM BlockTypeCorrect == Spec => []TypeOK
  <1>1. ASSUME BInv PROVE TypeOK
    <2>1. Outstanding \subseteq Tasks
      BY <1>1 DEF BInv, PoolTypes, Outstanding, Busy
    <2> QED BY <1>1, <2>1
            DEF BInv, PoolTypes, CallTypes, Owed, Ranges, Frames, TypeOK, Tasks
  <1> QED BY <1>1, BInvInit, BInvStep, PTL DEF Spec

(* MatVec of the wrapper waits for every task that it gave to the pool     *)
(* before it returns, and a task outlives the variables that it refers to  *)
(* only if its own call threw: also if calls follow one that threw while   *)
(* its tasks are still queued or running.                                  *)
THEOREM ReturnsLeaveNoTask == Spec => []ReturnLeavesNoTask
  <1>1. ASSUME BInv PROVE ReturnLeavesNoTask
    BY <1>1, NoneLeft DEF ReturnLeavesNoTask, BInv, Frames
  <1> QED BY <1>1, BInvInit, BInvStep, PTL DEF Spec

-----------------------------------------------------------------------------
(* What the blocks hold, while no task of an earlier call runs *)

HasError == \E i \in DOMAIN futures : futures[i] = "error"

RowBlocks == CeilDiv(shape.nrows, BLK_NROWS)
ColBlocks == CeilDiv(shape.ncols, BLK_NCOLS)

FirstRow(k) == RowAt(shape.nrows, k)
NumRows(k)  == RowDims(shape.nrows, FirstRow(k))
FirstCol(c) == c * BLK_NCOLS
NumCols(c)  == ColDims(shape.ncols, FirstCol(c))

RightCt(k, c) == BlockCt(FirstRow(k), NumRows(k), FirstCol(c), NumCols(c))

IsBlock(t, k, c) ==
  /\ t.kind = "block"
  /\ t.row = FirstRow(k) /\ t.rows = NumRows(k)
  /\ t.col = FirstCol(c) /\ t.cols = NumCols(c)

(* Every task of the call is a block of the matrix or a part of the         *)
(* encoding.                                                               *)
TasksRight ==
  \A t \in Own :
    IF MT_in_subblock THEN t.kind = "ecd" /\ t.range = EcdRange(t.id - 1)
    ELSE \E k \in 0..(RowBlocks - 1), c \in 0..(ColBlocks - 1) : IsBlock(t, k, c)

(* The loops of MatVec stand at the beginning of a block.                  *)
Walk ==
  main \in Running =>
    /\ row_index(row_ite) \in 0..RowBlocks
    /\ row_ite = FirstRow(row_index(row_ite))
    /\ ct_index(col_ite) \in 0..(ColBlocks - 1)
    /\ col_ite = FirstCol(ct_index(col_ite))
    /\ DOMAIN mvp_matrix_result = (0..(RowBlocks - 1)) \X (0..(ColBlocks - 1))

(* Block k, c has been given to the pool.                                  *)
Given(k, c) ==
  \/ k < row_index(row_ite)
  \/ k = row_index(row_ite) /\ c < ct_index(col_ite)
  \/ k = row_index(row_ite) /\ c = ct_index(col_ite) /\ main = "notify"

(* A block that was given to the pool is done, outstanding, or the call    *)
(* will throw.                                                             *)
Blocks ==
  main \in Running /\ ~MT_in_subblock =>
    \A k \in 0..(RowBlocks - 1), c \in 0..(ColBlocks - 1) :
      Given(k, c) => \/ HasError
                     \/ mvp_matrix_result[<<k, c>>] = RightCt(k, c)
                     \/ \E t \in Own : IsBlock(t, k, c)

(* What an encoding task that is done has encoded.                         *)
Polys ==
  main \in Running /\ MT_in_subblock =>
    \A i \in DOMAIN futures :
      futures[i] = "ok" => EcdRange(i - 1) \subseteq pt_mat

(* The caller waits after it has given everything to the pool.             *)
Stages ==
  /\ main = "notify" => ~MT_in_subblock
  /\ main = "ecd_notify" => MT_in_subblock
  /\ main = "get" => IF MT_in_subblock THEN Len(futures) = PoolSize
                     ELSE row_ite = shape.nrows
  /\ main = "card" => MT_in_subblock /\ Len(futures) = PoolSize

Multiplied ==
  main = "merge" =>
    \A k \in 0..(RowBlocks - 1), c \in 0..(ColBlocks - 1) :
      mvp_matrix_result[<<k, c>>] = RightCt(k, c)

MergedCt(k) == AddMatVec({RightCt(k, c) : c \in 0..(ColBlocks - 1)})

Record(b) ==
  IF updated THEN UpdateMatVec(MergedCt(b - 1), FirstRow(b - 1), NumRows(b - 1))
  ELSE MergedCt(b - 1)

Merged ==
  /\ main = "returned" => mvp_merge = [b \in 1..RowBlocks |-> Record(b)]
  /\ main \in Running => ~updated
  /\ main \in Running \cup {"returned", "thrown"} => out = <<>>

RowsRight ==
  out # <<>> =>
    \A i \in 0..(shape.nrows - 1) :
      out[i] = {i} \X (0..(shape.ncols - 1) \cup
                         (IF updated THEN {Plain} ELSE {}))

PInv ==
  /\ TasksRight /\ Walk /\ Blocks /\ Polys /\ Stages /\ Multiplied /\ Merged
  /\ RowsRight

-----------------------------------------------------------------------------
(* How MatVec, UpdateVector and Decrypt cut the rows and columns *)

(* The column blocks begin at the multiples of BLK_NCOLS.                  *)
LEMMA ColWalk ==
  ASSUME NEW len \in Nat, BLK_NCOLS \in Nat, BLK_NCOLS >= 1,
         NEW c \in Nat, c < CeilDiv(len, BLK_NCOLS)
  PROVE  /\ FirstCol(c) \in Nat /\ FirstCol(c) < len
         /\ ct_index(FirstCol(c)) = c
         /\ FirstCol(c + 1) = FirstCol(c) + BLK_NCOLS
         /\ FirstCol(c) + BLK_NCOLS < len <=> c + 1 < CeilDiv(len, BLK_NCOLS)
  <1> DEFINE B == BLK_NCOLS
             C == CeilDiv(len, B)
             x == c * B
  <1>1. C \in Nat /\ len <= C * B /\ C * B < len + B
    BY CeilDivOf
  <1>2. x \in Nat /\ (c + 1) * B = x + B /\ x + B <= C * B
    BY <1>1, Multiples
  <1>3. C * B \in Nat
    BY <1>1
  <1>4. x < len
    BY <1>1, <1>2, <1>3
  <1>5. ct_index(x) = c
    BY <1>2, CeilDivIs DEF ct_index
  <1>6. ASSUME c + 1 < C PROVE x + B < len
    <2>1. ((c + 1) * B) + B <= C * B
      BY <1>1, <1>6, Multiples
    <2> QED BY <1>1, <1>2, <1>3, <2>1
  <1>7. ASSUME ~(c + 1 < C) PROVE ~(x + B < len)
    <2>1. C = c + 1
      BY <1>1, <1>7
    <2> QED BY <1>1, <1>2, <2>1
  <1> QED BY <1>2, <1>4, <1>5, <1>6, <1>7 DEF FirstCol

(* What the loops of UpdateVector and Decrypt compute row by row are the   *)
(* first rows of the blocks.                                               *)
LEMMA OffsetsAre ==
  ASSUME NEW len \in Nat, len >= 1, BLK_NROWS \in Nat, BLK_NROWS >= 3
  PROVE  \A b \in 0..len : Offsets(len)[b] = RowAt(len, b)
  <1> DEFINE R == CeilDiv(len, BLK_NROWS)
             Step(o, b) == IF b = 0 THEN 0
                           ELSE IF o[b - 1] >= len THEN len
                           ELSE o[b - 1] + RowDims(len, o[b - 1])
             Walks(o) == o = [b \in 0..len |-> Step(o, b)]
             g == [b \in 0..len |-> RowAt(len, b)]
  <1>1. R \in 1..len /\ RowAt(len, 0) = 0
    BY RowEnds
  <1>2. ASSUME NEW b \in 0..len, b # 0
        PROVE  RowAt(len, b) = IF RowAt(len, b - 1) >= len THEN len
                               ELSE RowAt(len, b - 1)
                                    + RowDims(len, RowAt(len, b - 1))
    <2>1. b - 1 \in Nat /\ (b - 1) + 1 = b /\ b \in Nat
      BY <1>2
    <2>2. CASE b - 1 < R
      <3>1. /\ RowAt(len, b - 1) \in Nat /\ RowAt(len, b - 1) < len
            /\ RowAt(len, b - 1) + RowDims(len, RowAt(len, b - 1))
                 = RowAt(len, (b - 1) + 1)
        BY <2>1, <2>2, RowWalk
      <3> QED BY <2>1, <3>1
    <2>3. CASE ~(b - 1 < R)
      <3>1. RowAt(len, b - 1) = len /\ RowAt(len, b) = len
        BY <1>1, <2>1, <2>3, RowEnds
      <3> QED BY <3>1
    <2> QED BY <2>2, <2>3
  <1>3. Walks(g)
    <2>1. ASSUME NEW b \in 0..len PROVE g[b] = Step(g, b)
      <3>1. CASE b = 0
        BY <1>1, <3>1
      <3>2. CASE b # 0
        <4>1. b - 1 \in 0..len /\ g[b] = RowAt(len, b)
              /\ g[b - 1] = RowAt(len, b - 1)
          BY <2>1, <3>2
        <4>2. RowAt(len, b) = IF RowAt(len, b - 1) >= len THEN len
                              ELSE RowAt(len, b - 1)
                                   + RowDims(len, RowAt(len, b - 1))
          BY <1>2, <3>2
        <4> HIDE DEF g
        <4> QED BY <3>2, <4>1, <4>2
      <3> QED BY <3>1, <3>2
    <2> QED BY <2>1
  <1> DEFINE o == Offsets(len)
  <1>4. o = CHOOSE f : Walks(f)
    BY DEF Offsets
  <1>5. Walks(o)
    <2> HIDE DEF Walks, o
    <2> QED BY <1>3, <1>4
  <1> HIDE DEF g
  <1>6. \A b \in 0..len : o[b] = Step(o, b)
    <2> HIDE DEF o, Step
    <2> QED BY <1>5
  <1> HIDE DEF o
  <1> DEFINE T == {b \in 0..len : o[b] # RowAt(len, b)}
  <1>7. ASSUME T # {} PROVE FALSE
    <2>1. PICK b \in T : \A n \in T : b <= n
      <3>1. T \in SUBSET Nat
        OBVIOUS
      <3> HIDE DEF T
      <3> QED BY <1>7, <3>1, LeastNatural
    <2>2. b \in 0..len /\ b # 0
      BY <1>1, <1>6, <2>1
    <2>3. b - 1 \in 0..len /\ b - 1 \notin T
      BY <2>1, <2>2
    <2>4. o[b - 1] = RowAt(len, b - 1)
      BY <2>3
    <2>5. o[b] = RowAt(len, b)
      BY <1>2, <1>6, <2>2, <2>4
    <2> QED BY <2>1, <2>5
  <1> QED BY <1>7 DEF o

(* The tasks of the encoding cover all row blocks.                         *)
LEMMA EcdCovers ==
  ASSUME num_row_blks \in Nat, PoolSize \in Nat, PoolSize >= 1
  PROVE  Encoded = 0..(num_row_blks - 1)
  <1> DEFINE load == CeilDiv(num_row_blks, PoolSize)
  <1>1. load \in Nat /\ num_row_blks <= load * PoolSize
    BY CeilDivOf
  <1>2. Encoded \subseteq 0..(num_row_blks - 1)
    BY EcdRangeFits DEF Encoded
  <1>3. ASSUME NEW r \in 0..(num_row_blks - 1)
        PROVE  \E j \in 0..(PoolSize - 1) : r \in EcdRange(j)
    <2> HIDE DEF load
    <2>1. load >= 1
      BY <1>1, <1>3
    <2> DEFINE j == r \div load
               m == r % load
    <2>2. j \in Nat /\ m \in 0..(load - 1) /\ r = (j * load) + m
      <3>1. r \in Nat /\ load \in Nat
        BY <1>1, <1>3
      <3> QED BY <2>1, <3>1, DivMod
    <2> HIDE DEF j, m
    <2>3. j < PoolSize
      <3>1. SUFFICES ASSUME PoolSize <= j PROVE FALSE
        BY <2>2
      <3>2. PICK d \in Nat : j = PoolSize + d
        <4>1. j - PoolSize \in Nat /\ j = PoolSize + (j - PoolSize)
          BY <2>2, <3>1
        <4> QED BY <4>1
      <3>3. j * load = (load * PoolSize) + (d * load) /\ d * load \in Nat
            /\ load * PoolSize \in Nat
        BY <1>1, <3>2
      <3> QED BY <1>1, <1>3, <2>2, <3>3
    <2>4. j * load \in Nat
      BY <1>1, <2>2
    <2> DEFINE end == IF j * load + load < num_row_blks THEN j * load + load
                      ELSE num_row_blks
    <2>5. r \in (j * load)..(end - 1)
      BY <1>1, <1>3, <2>2, <2>4
    <2>6. r \in EcdRange(j)
      BY <2>5 DEF EcdRange, load
    <2> QED BY <2>2, <2>3, <2>6
  <1> QED BY <1>2, <1>3 DEF Encoded

(* Row j of a block is at the same coefficient for the encoder, for        *)
(* UpdateMatVec and for Decrypt.                                           *)
LEMMA Coefficient ==
  ASSUME NEW rows \in Nat, rows >= 1, rows <= N, NEW j \in Nat, j < rows
  PROVE  LET gap    == N \div NextPow2(rows)
             stride == N \div NextPow2(Greatest(2, rows))
             k      == j * gap
         IN /\ k \in 0..(N - 1)
            /\ k % gap = 0 /\ k \div gap = j
            /\ k % stride = 0 /\ k \div stride = j
  <1> DEFINE gap    == N \div NextPow2(rows)
             stride == N \div NextPow2(Greatest(2, rows))
             k      == j * gap
  <1>1. PICK K \in 2..12 : N = 2^K
    BY DegreeAssumption
  <1>2. PICK p \in Nat : NextPow2(rows) = 2^p /\ rows <= 2^p /\ 2^p < 2 * rows
    BY NextPow2Of
  <1>3. p <= K
    <2>1. 2^(K + 1) = 2 * 2^K /\ 2^K \in Nat /\ 2^p \in Nat
      BY <1>1, NextPower, NatPower
    <2>2. 2^p < 2^(K + 1)
      BY <1>1, <1>2, <2>1
    <2> QED BY <2>2, PowersOrdered
  <1>4. N = 2^(K - p) * 2^p /\ gap = 2^(K - p)
    BY <1>1, <1>2, <1>3, PowersDivide
  <1>5. gap \in Nat /\ gap >= 1 /\ 2^p \in Nat
    BY <1>3, <1>4, NatPower
  <1>6. N = gap * 2^p
    BY <1>4
  <1> HIDE DEF gap
  <1>7. (j * gap) + gap <= 2^p * gap /\ j * gap \in Nat
    BY <1>2, <1>5, Multiples
  <1>8. k \in 0..(N - 1)
    BY <1>5, <1>6, <1>7
  <1>9. k % gap = 0 /\ k \div gap = j
    <2>1. 0 \in 0..(gap - 1)
      BY <1>5
    <2>2. (j * gap + 0) \div gap = j /\ (j * gap + 0) % gap = 0
      BY <1>5, <2>1, DivModIs
    <2>3. j * gap + 0 = k
      BY <1>7
    <2> QED BY <2>2, <2>3
  <1>10. k % stride = 0 /\ k \div stride = j
    <2>1. CASE rows # 1
      BY <1>9, <2>1 DEF gap, Greatest
    <2>2. CASE rows = 1
      <3>1. j = 0 /\ k = 0
        BY <1>5, <2>2
      <3>2. NextPow2(2) = 2 /\ Greatest(2, rows) = 2
        BY <2>2 DEF NextPow2, Greatest
      <3>3. stride \in Nat /\ stride >= 1
        <4>1. 2^1 = 2 * 2^0 /\ 2^0 = 1
          BY NextPower, PowerZero
        <4>2. 2^K \div 2^1 = 2^(K - 1)
          <5>1. K \in Nat /\ 1 \in Nat /\ 1 <= K
            BY <1>1
          <5> QED BY <5>1, PowersDivide
        <4> QED BY <1>1, <3>2, <4>1, <4>2, NatPower
      <3> HIDE DEF stride
      <3> QED BY <3>1, <3>3
    <2> QED BY <2>1, <2>2
  <1> QED BY <1>8, <1>9, <1>10 DEF gap

(* There is a block, and no more row blocks than rows.                     *)
LEMMA Counts ==
  ASSUME CallTypes
  PROVE  /\ RowBlocks \in Nat /\ RowBlocks >= 1 /\ RowBlocks <= shape.nrows
         /\ ColBlocks \in Nat /\ ColBlocks >= 1
         /\ RowBlocks = CeilDiv(shape.nrows, BLK_NROWS)
         /\ ColBlocks = CeilDiv(shape.ncols, BLK_NCOLS)
  <1>1. /\ shape.nrows \in Nat /\ shape.nrows >= 1
        /\ shape.ncols \in Nat /\ shape.ncols >= 1
        /\ BLK_NROWS \in Nat /\ BLK_NROWS >= 3
        /\ BLK_NCOLS \in Nat /\ BLK_NCOLS >= 1
    BY Sizes
  <1>2. CeilDiv(shape.nrows, BLK_NROWS) \in 1..shape.nrows
    BY <1>1, RowEnds
  <1>3. CeilDiv(shape.ncols, BLK_NCOLS) \in Nat
        /\ shape.ncols <= CeilDiv(shape.ncols, BLK_NCOLS) * BLK_NCOLS
    BY <1>1, CeilDivOf
  <1>4. CeilDiv(shape.ncols, BLK_NCOLS) # 0
    BY <1>1, <1>3
  <1> QED BY <1>1, <1>2, <1>3, <1>4 DEF RowBlocks, ColBlocks

(* The sum of the products of a row of blocks has each row of the matrix   *)
(* once and whole.                                                         *)
LEMMA MergedRow ==
  ASSUME CallTypes, NEW k \in 0..(RowBlocks - 1),
         NEW j \in Nat, j < NumRows(k)
  PROVE  MergedCt(k)[j * (N \div NextPow2(NumRows(k)))]
           = {FirstRow(k) + j} \X (0..(shape.ncols - 1))
  <1> DEFINE rows   == NumRows(k)
             gap    == N \div NextPow2(rows)
             stride == N \div NextPow2(Greatest(2, rows))
             i      == j * gap
  <1>1. /\ shape.nrows \in Nat /\ shape.nrows >= 1
        /\ shape.ncols \in Nat /\ shape.ncols >= 1
        /\ BLK_NROWS \in Nat /\ BLK_NROWS >= 3
        /\ BLK_NCOLS \in Nat /\ BLK_NCOLS >= 1
        /\ N \in Nat /\ BLK_NROWS <= N
    BY Sizes
  <1>2. RowBlocks \in Nat /\ k \in Nat /\ k < CeilDiv(shape.nrows, BLK_NROWS)
    BY Counts
  <1>3. FirstRow(k) \in Nat /\ FirstRow(k) < shape.nrows
    BY <1>1, <1>2, RowWalk DEF FirstRow
  <1>4. rows \in 1..BLK_NROWS
    BY <1>1, <1>3, RowDimsFit DEF NumRows
  <1>5. rows \in Nat /\ rows >= 1 /\ rows <= N
    BY <1>1, <1>4
  <1> HIDE DEF rows
  <1>6. j < rows
    BY DEF rows
  <1>7. i \in 0..(N - 1) /\ i % stride = 0 /\ i \div stride = j
    BY <1>5, <1>6, Coefficient
  <1> HIDE DEF i, stride
  <1>8. ASSUME NEW c \in 0..(ColBlocks - 1)
        PROVE  RightCt(k, c)[i] = {FirstRow(k) + j}
                 \X (FirstCol(c)..(FirstCol(c) + NumCols(c) - 1))
    <2>1. RightCt(k, c) =
            [m \in 0..(N - 1) |->
               IF m % stride = 0 /\ m \div stride < rows
               THEN {FirstRow(k) + m \div stride}
                      \X (FirstCol(c)..(FirstCol(c) + NumCols(c) - 1))
               ELSE IF m % stride = 0 /\ m \div stride >= Greatest(2, rows)
               THEN {Stale} ELSE {}]
      BY DEF RightCt, BlockCt, stride, rows
    <2> QED BY <1>6, <1>7, <2>1
  <1>9. MergedCt(k)[i] = UNION {RightCt(k, c)[i] : c \in 0..(ColBlocks - 1)}
    <2>1. MergedCt(k)[i] = UNION {ct[i] : ct \in {RightCt(k, c) :
                                              c \in 0..(ColBlocks - 1)}}
      BY <1>7 DEF MergedCt, AddMatVec
    <2> QED BY <2>1
  <1>10. ColBlocks \in Nat
    BY Counts
  <1>11. ASSUME NEW c \in 0..(ColBlocks - 1)
         PROVE  FirstCol(c)..(FirstCol(c) + NumCols(c) - 1)
                  \subseteq 0..(shape.ncols - 1)
    <2>1. c \in Nat /\ c < CeilDiv(shape.ncols, BLK_NCOLS)
      BY <1>10, <1>11 DEF ColBlocks
    <2>2. FirstCol(c) \in Nat /\ FirstCol(c) < shape.ncols
      BY <1>1, <2>1, ColWalk
    <2>3. NumCols(c) \in 1..BLK_NCOLS
          /\ FirstCol(c) + NumCols(c) <= shape.ncols
      BY <1>1, <2>2, ColDimsFit DEF NumCols
    <2> QED BY <1>1, <2>2, <2>3
  <1>12. ASSUME NEW x \in 0..(shape.ncols - 1)
         PROVE  \E c \in 0..(ColBlocks - 1) :
                  x \in FirstCol(c)..(FirstCol(c) + NumCols(c) - 1)
    <2> DEFINE c == x \div BLK_NCOLS
               m == x % BLK_NCOLS
    <2>1. x \in Nat /\ x < shape.ncols
      BY <1>1, <1>12
    <2>2. c \in Nat /\ m \in 0..(BLK_NCOLS - 1) /\ x = (c * BLK_NCOLS) + m
      BY <1>1, <2>1, DivMod
    <2> HIDE DEF c, m
    <2>3. c < ColBlocks
      <3>1. SUFFICES ASSUME ColBlocks <= c PROVE FALSE
        BY <1>10, <2>2
      <3>2. shape.ncols <= ColBlocks * BLK_NCOLS
        BY <1>1, CeilDivOf DEF ColBlocks
      <3>3. ColBlocks * BLK_NCOLS <= c * BLK_NCOLS
            /\ c * BLK_NCOLS \in Nat /\ ColBlocks * BLK_NCOLS \in Nat
        <4>1. CASE ColBlocks = c
          BY <1>1, <2>2, <4>1
        <4>2. CASE ColBlocks < c
          BY <1>1, <1>10, <2>2, <4>2, Multiples
        <4> QED BY <1>10, <2>2, <3>1, <4>1, <4>2
      <3> QED BY <1>1, <2>1, <2>2, <3>2, <3>3
    <2>4. c * BLK_NCOLS \in Nat
      BY <1>1, <2>2
    <2>5. x \in FirstCol(c)..(FirstCol(c) + NumCols(c) - 1)
      BY <1>1, <2>1, <2>2, <2>4 DEF FirstCol, NumCols, ColDims
    <2> QED BY <1>10, <2>2, <2>3, <2>5
  <1>13. UNION {RightCt(k, c)[i] : c \in 0..(ColBlocks - 1)}
           = {FirstRow(k) + j} \X (0..(shape.ncols - 1))
    <2> DEFINE Cols(c) == FirstCol(c)..(FirstCol(c) + NumCols(c) - 1)
               Cs == 0..(ColBlocks - 1)
               row == FirstRow(k) + j
    <2>1. \A c \in Cs : RightCt(k, c)[i] = {row} \X Cols(c)
      BY <1>8
    <2>2. \A c \in Cs : Cols(c) \subseteq 0..(shape.ncols - 1)
      BY <1>11
    <2>3. \A x \in 0..(shape.ncols - 1) : \E c \in Cs : x \in Cols(c)
      BY <1>12
    <2> HIDE DEF Cols, Cs, row
    <2>4. UNION {RightCt(k, c)[i] : c \in Cs}
            = UNION {{row} \X Cols(c) : c \in Cs}
      BY <2>1
    <2>5. UNION {{row} \X Cols(c) : c \in Cs} = {row} \X (0..(shape.ncols - 1))
      BY <2>2, <2>3
    <2> QED BY <2>4, <2>5 DEF Cs, row
  <1> QED BY <1>9, <1>13 DEF i, rows

-----------------------------------------------------------------------------
(* Every step preserves what the blocks hold *)

(* What depends on the matrix alone.                                       *)
LEMMA SameMatrix ==
  ASSUME shape' = shape, num_row_blks' = num_row_blks
  PROVE  /\ RowBlocks' = RowBlocks /\ ColBlocks' = ColBlocks
         /\ MT_in_subblock' = MT_in_subblock
         /\ \A k : FirstRow(k)' = FirstRow(k) /\ NumRows(k)' = NumRows(k)
         /\ \A k, c : RightCt(k, c)' = RightCt(k, c)
         /\ \A k : MergedCt(k)' = MergedCt(k)
         /\ \A j : EcdRange(j)' = EcdRange(j)
         /\ \A t, k, c : IsBlock(t, k, c)' = IsBlock(t, k, c)
  <1>1. RowBlocks' = RowBlocks /\ ColBlocks' = ColBlocks
        /\ MT_in_subblock' = MT_in_subblock
    BY DEF RowBlocks, ColBlocks, MT_in_subblock
  <1>2. \A k : FirstRow(k)' = FirstRow(k) /\ NumRows(k)' = NumRows(k)
    BY DEF FirstRow, NumRows
  <1>3. \A c : NumCols(c)' = NumCols(c)
    BY DEF NumCols, FirstCol
  <1>4. \A k, c : RightCt(k, c)' = RightCt(k, c)
    BY <1>2, <1>3 DEF RightCt, FirstCol
  <1>5. \A k : MergedCt(k)' = MergedCt(k)
    BY <1>1, <1>4 DEF MergedCt
  <1>6. \A j : EcdRange(j)' = EcdRange(j)
    BY DEF EcdRange, PoolSize
  <1>7. \A t, k, c : IsBlock(t, k, c)' = IsBlock(t, k, c)
    BY <1>2, <1>3 DEF IsBlock, FirstCol
  <1> QED BY <1>1, <1>2, <1>4, <1>5, <1>6, <1>7

(* The caller moves on and the data stay.                                  *)
LEMMA DataStay ==
  ASSUME PInv, Own' \subseteq Own, main' \in Running => Own' = Own,
         UNCHANGED <<shape, num_row_blks, row_ite, col_ite, futures,
                     mvp_matrix_result, pt_mat, mvp_merge, updated, out>>,
         main' \in Running => main \in Running,
         main' = "notify" => main = "notify",
         main' = "returned" => main = "returned",
         main' = "thrown" => main \in Running \cup {"thrown"},
         Stages', Multiplied'
  PROVE  PInv'
  <1>1. /\ RowBlocks' = RowBlocks /\ ColBlocks' = ColBlocks
        /\ MT_in_subblock' = MT_in_subblock
        /\ \A k : FirstRow(k)' = FirstRow(k) /\ NumRows(k)' = NumRows(k)
        /\ \A k, c : RightCt(k, c)' = RightCt(k, c)
        /\ \A k : MergedCt(k)' = MergedCt(k)
        /\ \A j : EcdRange(j)' = EcdRange(j)
        /\ \A t, k, c : IsBlock(t, k, c)' = IsBlock(t, k, c)
    BY SameMatrix
  <1>2. TasksRight'
    BY <1>1 DEF PInv, TasksRight
  <1>3. Walk'
    BY <1>1 DEF PInv, Walk, FirstCol
  <1>4. Blocks'
    <2>1. \A k, c : Given(k, c)' => Given(k, c)
      BY DEF Given
    <2>2. HasError' = HasError
      BY DEF HasError
    <2> QED BY <1>1, <2>1, <2>2 DEF PInv, Blocks
  <1>5. Polys'
    BY <1>1 DEF PInv, Polys
  <1>6. Merged'
    <2>1. \A b : Record(b)' = Record(b)
      BY <1>1 DEF Record
    <2> QED BY <1>1, <2>1 DEF PInv, Merged
  <1>7. RowsRight'
    BY DEF PInv, RowsRight
  <1> QED BY <1>2, <1>3, <1>4, <1>5, <1>6, <1>7 DEF PInv

(* The steps that only move the caller or the pool.                        *)
LEMMA ProductRests ==
  ASSUME BInv, PInv,
         \/ BlocksLaunched \/ EncodingLaunched \/ NotifyEncoding
         \/ GetOk \/ GetError \/ GotAll \/ CardError \/ Destroy
         \/ NotifyStop \/ Join
         \/ \E w \in Workers : WorkerIdles(w) \/ Wakeup(w)
         \/ UNCHANGED vars
  PROVE  PInv'
  <1> USE DEF Goto
  <1>1. UNCHANGED <<shape, num_row_blks, row_ite, col_ite, futures,
                    mvp_matrix_result, pt_mat, mvp_merge, updated, out>>
    BY DEF BlocksLaunched, EncodingLaunched, NotifyEncoding, GetOk, GetError,
           GotAll, CardError, Throws, Destroy, NotifyStop, Join, WorkerIdles,
           Wakeup, vars, call, result
  <1>2. Outstanding' = Outstanding
    <2>1. CASE UNCHANGED pool
      BY <2>1 DEF pool, Outstanding
    <2>2. CASE NotifyEncoding
      BY <2>2, NotifyOneIdles DEF NotifyEncoding, BInv
    <2>3. CASE Destroy
      BY <2>3 DEF Destroy, Stop, Outstanding
    <2>4. CASE NotifyStop
      <3>1. tasks' = tasks /\ wtask' = wtask
            /\ wstate' = [w \in Workers |-> IF wstate[w] = "asleep"
                                            THEN "awake" ELSE wstate[w]]
        BY <2>4 DEF NotifyStop, notify_all
      <3>2. \A w \in Workers : wstate'[w] = "busy" <=> wstate[w] = "busy"
        BY <3>1
      <3> QED BY <3>1, <3>2 DEF Outstanding
    <2>5. ASSUME NEW w \in Workers, WorkerIdles(w) \/ Wakeup(w)
          PROVE  Outstanding' = Outstanding
      <3>1. CASE Take(w)
        BY <3>1, Taken DEF BInv
      <3>2. CASE Sleep(w) \/ Exit(w) \/ SpuriousWakeup(w)
        <4>1. /\ tasks' = tasks /\ wtask' = wtask /\ stop' = stop
              /\ wstate' \in [Workers -> {"awake", "asleep", "busy", "exited"}]
              /\ \A v \in Workers : wstate'[v] = "busy" <=> wstate[v] = "busy"
          BY <3>2 DEF Sleep, Exit, SpuriousWakeup, BInv, PoolTypes
        <4> QED BY <4>1, PoolIdles DEF BInv, PoolTypes
      <3> QED BY <2>5, <3>1, <3>2 DEF WorkerIdles, Wakeup
    <2> QED BY <2>1, <2>2, <2>3, <2>4, <2>5
            DEF BlocksLaunched, EncodingLaunched, GetOk, GetError, GotAll,
                CardError, Throws, Join, vars
  <1>3. /\ Own' \subseteq Own
        /\ (main' # "thrown" \/ UNCHANGED main) => Own' = Own
    <2>1. CASE GetError \/ CardError
      <3>1. main' = "thrown" /\ main # "thrown" /\ frame' = FALSE
        BY <2>1 DEF GetError, CardError, Throws
      <3> QED BY <3>1 DEF Own, HasFrame
    <2>2. CASE UNCHANGED <<frame, calls>>
      BY <1>2, <2>2 DEF Own, HasFrame
    <2> QED BY <2>1, <2>2
            DEF BlocksLaunched, EncodingLaunched, NotifyEncoding, GetOk,
                GotAll, Destroy, NotifyStop, Join, WorkerIdles, Wakeup, vars,
                call
  <1>4. MT_in_subblock' = MT_in_subblock /\ RowBlocks' = RowBlocks
        /\ ColBlocks' = ColBlocks /\ \A k, c : RightCt(k, c)' = RightCt(k, c)
    BY <1>1, SameMatrix
  <1>5. CASE UNCHANGED main
    <2>1. Stages' /\ Multiplied'
      BY <1>1, <1>4, <1>5 DEF PInv, Stages, Multiplied, PoolSize
    <2> QED BY <1>1, <1>3, <1>5, <2>1, DataStay
  <1>6. CASE BlocksLaunched
    <2>1. row_ite = shape.nrows /\ main = "blocks" /\ main' = "get"
          /\ ~MT_in_subblock
      BY <1>6, Sizes DEF BlocksLaunched, BInv, CallTypes
    <2>2. Stages' /\ Multiplied'
      BY <1>1, <1>4, <2>1 DEF Stages, Multiplied
    <2> QED BY <1>1, <1>3, <2>1, <2>2, DataStay DEF Running
  <1>7. CASE EncodingLaunched
    <2>1. Stages' /\ Multiplied'
      BY <1>1, <1>4, <1>7 DEF EncodingLaunched, Stages, Multiplied, PoolSize
    <2> QED BY <1>1, <1>3, <1>7, <2>1, DataStay DEF EncodingLaunched, Running
  <1>8. CASE NotifyEncoding \/ GetError \/ CardError \/ Destroy \/ NotifyStop
             \/ Join
    <2>1. main' \in {"blocks", "thrown", "stopping", "joining", "gone"}
          /\ (main' = "blocks" => main \in Running)
          /\ (main' = "thrown" => main \in Running)
      BY <1>8 DEF NotifyEncoding, GetError, CardError, Throws, Destroy,
                  NotifyStop, Join, Running
    <2>2. Stages' /\ Multiplied'
      BY <2>1 DEF Stages, Multiplied
    <2> QED BY <1>1, <1>3, <2>1, <2>2, DataStay DEF Running
  <1>9. CASE GotAll
    <2>1. main = "get" /\ next > Len(futures)
          /\ main' = IF MT_in_subblock THEN "card" ELSE "merge"
      BY <1>9 DEF GotAll
    <2>2. Stages'
      BY <1>1, <1>4, <2>1 DEF PInv, Stages, PoolSize
    <2>3. Len(futures) \in Nat /\ next = Len(futures) + 1
          /\ DOMAIN futures = 1..Len(futures)
      BY <2>1 DEF BInv, CallTypes
    <2>4. \A i \in DOMAIN futures : futures[i] = "ok"
      BY <2>3 DEF BInv, Waited
    <2>5. Own = {} /\ ~HasError
      BY <2>3, <2>4 DEF BInv, Owed, Own, HasError
    <2>6. ASSUME ~MT_in_subblock,
                 NEW k \in 0..(RowBlocks - 1), NEW c \in 0..(ColBlocks - 1)
          PROVE  mvp_matrix_result[<<k, c>>] = RightCt(k, c)
      <3>1. row_ite = shape.nrows
        BY <2>1, <2>6 DEF PInv, Stages
      <3>2. row_index(row_ite) = RowBlocks
        BY <3>1, Sizes, RowEnds DEF RowBlocks, BInv
      <3>3. Given(k, c)
        BY <2>6, <3>2, Counts DEF Given, BInv
      <3> QED BY <2>1, <2>5, <2>6, <3>3 DEF PInv, Blocks, Running
    <2>7. Multiplied'
      BY <1>1, <1>4, <2>1, <2>6 DEF Multiplied
    <2> QED BY <1>1, <1>3, <2>1, <2>2, <2>7, DataStay DEF Running
  <1>10. QED
    BY <1>5, <1>6, <1>7, <1>8, <1>9 DEF GetOk, WorkerIdles, Wakeup, vars

(* A new call: nothing is given to the pool yet.                           *)
LEMMA ProductCall ==
  ASSUME BInv, NEW s \in Shapes, NEW nb \in RowBlks, Call(s, nb) PROVE PInv'
  <1>1. /\ main' = "blocks" /\ shape' = s /\ calls' = calls + 1
        /\ row_ite' = 0 /\ col_ite' = 0 /\ futures' = <<>>
        /\ mvp_matrix_result' =
             [b \in (0..(CeilDiv(s.nrows, BLK_NROWS) - 1))
                      \X (0..(CeilDiv(s.ncols, BLK_NCOLS) - 1)) |-> NoCt]
        /\ updated' = FALSE /\ out' = <<>>
        /\ UNCHANGED pool
    BY DEF Call, Goto
  <1>2. CallTypes'
    BY CallKeeps DEF BInv
  <1>3. TasksRight'
    <2>1. calls \in Nat /\ \A t \in Outstanding : t.call \in 1..calls
      BY DEF BInv, CallTypes, Owed
    <2>2. Outstanding' = Outstanding
      BY <1>1 DEF pool, Outstanding
    <2>3. Own' = {}
      BY <1>1, <2>1, <2>2 DEF Own, HasFrame
    <2> QED BY <2>3 DEF TasksRight
  <1>4. s.nrows \in Nat /\ s.nrows >= 1 /\ s.ncols \in Nat /\ s.ncols >= 1
        /\ BLK_NROWS \in Nat /\ BLK_NROWS >= 3
        /\ BLK_NCOLS \in Nat /\ BLK_NCOLS >= 1
    BY <1>1, <1>2, Sizes, BlockAssumption, BlockSizeAssumption
  <1>5. row_index(0) = 0 /\ RowAt(s.nrows, 0) = 0
        /\ CeilDiv(s.nrows, BLK_NROWS) \in Nat
    BY <1>4, RowEnds
  <1>6. CeilDiv(s.ncols, BLK_NCOLS) \in Nat
        /\ s.ncols <= CeilDiv(s.ncols, BLK_NCOLS) * BLK_NCOLS
    BY <1>4, CeilDivOf
  <1>7. CeilDiv(s.ncols, BLK_NCOLS) >= 1
    BY <1>4, <1>6
  <1>8. FirstCol(0) = 0 /\ ct_index(0) = 0
    BY <1>4, <1>7, <1>6, ColWalk DEF FirstCol
  <1>9. Walk'
    BY <1>1, <1>5, <1>6, <1>7, <1>8
       DEF Walk, RowBlocks, ColBlocks, FirstRow, FirstCol
  <1>10. Blocks'
    <2>1. ASSUME NEW k \in (0..(RowBlocks - 1))', NEW c \in (0..(ColBlocks - 1))'
          PROVE  ~Given(k, c)'
      <3>1. k \in Nat /\ c \in Nat
        BY <2>1, <1>1, <1>5, <1>6 DEF RowBlocks, ColBlocks
      <3> QED BY <1>1, <1>5, <1>8, <3>1 DEF Given
    <2> QED BY <2>1 DEF Blocks
  <1>11. Polys' /\ Stages' /\ Multiplied' /\ Merged'
    BY <1>1 DEF Polys, Stages, Multiplied, Merged
  <1>12. RowsRight'
    BY <1>1 DEF RowsRight
  <1> QED BY <1>3, <1>9, <1>10, <1>11, <1>12 DEF PInv

(* A block is given to the pool.                                           *)
LEMMA ProductLaunchBlock ==
  ASSUME BInv, PInv, LaunchBlock PROVE PInv'
  <1>1. /\ main = "blocks" /\ main' = "notify" /\ ~MT_in_subblock
        /\ row_ite < shape.nrows /\ Launch(ThisBlock)
    BY DEF LaunchBlock, Goto
  <1>2. UNCHANGED <<shape, num_row_blks, row_ite, col_ite,
                    mvp_matrix_result, pt_mat, mvp_merge, updated, out>>
    BY <1>1 DEF Launch, result
  <1>3. ThisBlock \in Tasks /\ ThisBlock.id = Len(futures) + 1
        /\ ThisBlock.kind = "block" /\ ThisBlock.call = calls
    BY <1>1, ThisBlockIs
  <1>4. /\ Own' = Own \cup {ThisBlock}
        /\ \A i \in DOMAIN futures :
             i \in DOMAIN futures' /\ futures'[i] = futures[i]
    BY <1>1, <1>3, Launched
  <1>5. /\ RowBlocks' = RowBlocks /\ ColBlocks' = ColBlocks
        /\ MT_in_subblock' = MT_in_subblock
        /\ \A k : FirstRow(k)' = FirstRow(k) /\ NumRows(k)' = NumRows(k)
        /\ \A k, c : RightCt(k, c)' = RightCt(k, c)
        /\ \A t, k, c : IsBlock(t, k, c)' = IsBlock(t, k, c)
    BY <1>2, SameMatrix
  <1> DEFINE k0 == row_index(row_ite)
             c0 == ct_index(col_ite)
  <1>6. /\ k0 \in 0..RowBlocks /\ row_ite = FirstRow(k0)
        /\ c0 \in 0..(ColBlocks - 1) /\ col_ite = FirstCol(c0)
        /\ DOMAIN mvp_matrix_result = (0..(RowBlocks - 1)) \X (0..(ColBlocks - 1))
    BY <1>1 DEF PInv, Walk, Running
  <1>7. k0 \in 0..(RowBlocks - 1)
    <2>1. RowBlocks \in Nat /\ RowBlocks = CeilDiv(shape.nrows, BLK_NROWS)
          /\ shape.nrows \in Nat
      BY Counts, Sizes DEF BInv
    <2>2. k0 # RowBlocks
      BY <1>1, <1>6, <2>1 DEF FirstRow, RowAt, BlockRow
    <2> QED BY <1>6, <2>1, <2>2
  <1>8. IsBlock(ThisBlock, k0, c0)
    BY <1>6 DEF IsBlock, ThisBlock, NumRows, NumCols
  <1>9. TasksRight'
    <2>1. \A t \in Own :
            \E k \in 0..(RowBlocks - 1), c \in 0..(ColBlocks - 1) :
              IsBlock(t, k, c)
      BY <1>1 DEF PInv, TasksRight
    <2>2. \E k \in 0..(RowBlocks - 1), c \in 0..(ColBlocks - 1) :
            IsBlock(ThisBlock, k, c)
      BY <1>6, <1>7, <1>8
    <2> QED BY <1>1, <1>4, <1>5, <2>1, <2>2 DEF TasksRight
  <1>10. Walk'
    BY <1>2, <1>5, <1>6 DEF Walk, FirstCol
  <1>11. Blocks'
    <2>1. ASSUME NEW k \in 0..(RowBlocks - 1), NEW c \in 0..(ColBlocks - 1),
                 Given(k, c)'
          PROVE  \/ HasError'
                 \/ mvp_matrix_result'[<<k, c>>] = RightCt(k, c)
                 \/ \E t \in Own' : IsBlock(t, k, c)
      <3>1. CASE Given(k, c)
        <4>1. \/ HasError
              \/ mvp_matrix_result[<<k, c>>] = RightCt(k, c)
              \/ \E t \in Own : IsBlock(t, k, c)
          BY <1>1, <2>1, <3>1 DEF PInv, Blocks, Running
        <4>2. HasError => HasError'
          BY <1>4 DEF HasError
        <4> QED BY <1>2, <1>4, <4>1, <4>2
      <3>2. CASE ~Given(k, c)
        <4>1. k = k0 /\ c = c0
          BY <1>2, <2>1, <3>2 DEF Given
        <4> QED BY <1>4, <1>8, <4>1
      <3> QED BY <3>1, <3>2
    <2> QED BY <1>5, <2>1 DEF Blocks
  <1>12. Polys' /\ Stages' /\ Multiplied'
    BY <1>1, <1>5 DEF Polys, Stages, Multiplied
  <1>13. Merged'
    BY <1>1, <1>2 DEF PInv, Merged, Running
  <1>14. RowsRight'
    BY <1>2 DEF PInv, RowsRight
  <1> QED BY <1>9, <1>10, <1>11, <1>12, <1>13, <1>14 DEF PInv

(* A part of the encoding is given to the pool.                            *)
LEMMA ProductLaunchEncoding ==
  ASSUME BInv, PInv, LaunchEncoding PROVE PInv'
  <1> DEFINE t0 == [kind |-> "ecd", call |-> calls, id |-> Len(futures) + 1,
                    range |-> EcdRange(Len(futures))]
  <1>1. /\ main = "blocks" /\ main' = "ecd_notify" /\ MT_in_subblock
        /\ Len(futures) < PoolSize /\ Launch(t0)
    BY DEF LaunchEncoding, Goto
  <1>2. UNCHANGED <<shape, num_row_blks, row_ite, col_ite,
                    mvp_matrix_result, pt_mat, mvp_merge, updated, out>>
        /\ enqueue(t0) /\ futures' = Append(futures, "pending")
        /\ UNCHANGED <<frame, calls>>
    BY <1>1 DEF Launch, result
  <1>3. Len(futures) \in Nat /\ num_row_blks \in Nat /\ calls \in Nat
        /\ frame
    BY <1>1, Sizes DEF BInv, CallTypes, Frames, Running
  <1>4. EcdRange(Len(futures)) \subseteq 0..(num_row_blks - 1)
    BY <1>1, <1>3, PoolCounts, EcdRangeFits
  <1>5. t0 \in Tasks /\ t0.kind = "ecd" /\ t0.range = EcdRange(t0.id - 1)
        /\ t0.call = calls
    BY <1>3, <1>4 DEF Tasks
  <1> HIDE DEF t0
  <1>6. Own' = Own \cup {t0}
    <2>1. Outstanding' = Outstanding \cup {t0}
      BY <1>2, <1>5, Enqueued DEF BInv
    <2> QED BY <1>2, <1>3, <1>5, <2>1 DEF Own, HasFrame
  <1>7. /\ DOMAIN futures' = 1..(Len(futures) + 1)
        /\ \A i \in 1..Len(futures) : futures'[i] = futures[i]
        /\ DOMAIN futures = 1..Len(futures)
        /\ futures'[Len(futures) + 1] = "pending"
    BY <1>2 DEF BInv, CallTypes
  <1>8. /\ RowBlocks' = RowBlocks /\ ColBlocks' = ColBlocks
        /\ MT_in_subblock' = MT_in_subblock
        /\ \A k : FirstRow(k)' = FirstRow(k) /\ NumRows(k)' = NumRows(k)
        /\ \A j : EcdRange(j)' = EcdRange(j)
    BY <1>2, SameMatrix
  <1>9. TasksRight'
    BY <1>1, <1>5, <1>6, <1>8 DEF PInv, TasksRight
  <1>10. Walk'
    BY <1>1, <1>2, <1>8 DEF PInv, Walk, FirstCol, Running
  <1>11. Polys'
    <2>1. ASSUME NEW i \in DOMAIN futures', futures'[i] = "ok"
          PROVE  i \in DOMAIN futures /\ futures[i] = "ok"
      BY <1>3, <1>7, <2>1
    <2> QED BY <1>1, <1>2, <1>8, <2>1 DEF PInv, Polys, Running
  <1>12. Blocks' /\ Stages' /\ Multiplied'
    BY <1>1, <1>8 DEF Blocks, Stages, Multiplied
  <1>13. Merged'
    BY <1>1, <1>2 DEF PInv, Merged, Running
  <1>14. RowsRight'
    BY <1>2 DEF PInv, RowsRight
  <1> QED BY <1>9, <1>10, <1>11, <1>12, <1>13, <1>14 DEF PInv

(* After a block the loops stand at the beginning of the next one.         *)
LEMMA ProductNotifyBlock ==
  ASSUME BInv, PInv, NotifyBlock PROVE PInv'
  <1>1. /\ main = "notify" /\ main' = "blocks" /\ notify_one /\ NextBlock
        /\ UNCHANGED <<shape, num_row_blks, futures, mvp_matrix_result, pt_mat,
                       frame, mvp_merge, updated, out, calls>>
    BY DEF NotifyBlock, Goto, result
  <1>2. Own' = Own
    <2>1. Outstanding' = Outstanding
      BY <1>1, NotifyOneIdles DEF BInv
    <2> QED BY <1>1, <2>1 DEF Own, HasFrame
  <1>3. /\ RowBlocks' = RowBlocks /\ ColBlocks' = ColBlocks
        /\ MT_in_subblock' = MT_in_subblock
        /\ \A k : FirstRow(k)' = FirstRow(k) /\ NumRows(k)' = NumRows(k)
        /\ \A k, c : RightCt(k, c)' = RightCt(k, c)
        /\ \A j : EcdRange(j)' = EcdRange(j)
        /\ \A t, k, c : IsBlock(t, k, c)' = IsBlock(t, k, c)
    BY <1>1, SameMatrix
  <1> DEFINE k0 == row_index(row_ite)
             c0 == ct_index(col_ite)
  <1>4. /\ k0 \in 0..RowBlocks /\ row_ite = FirstRow(k0)
        /\ c0 \in 0..(ColBlocks - 1) /\ col_ite = FirstCol(c0)
        /\ DOMAIN mvp_matrix_result = (0..(RowBlocks - 1)) \X (0..(ColBlocks - 1))
    BY <1>1 DEF PInv, Walk, Running
  <1>5. /\ RowBlocks \in Nat /\ RowBlocks = CeilDiv(shape.nrows, BLK_NROWS)
        /\ ColBlocks \in Nat /\ ColBlocks = CeilDiv(shape.ncols, BLK_NCOLS)
        /\ ColBlocks >= 1
        /\ shape.nrows \in Nat /\ shape.nrows >= 1
        /\ shape.ncols \in Nat /\ shape.ncols >= 1
        /\ BLK_NROWS \in Nat /\ BLK_NROWS >= 3
        /\ BLK_NCOLS \in Nat /\ BLK_NCOLS >= 1
    BY Counts, Sizes DEF BInv
  <1>6. row_ite < shape.nrows
    BY <1>1 DEF BInv, CallTypes
  <1>7. k0 \in Nat /\ k0 < RowBlocks
    <2>1. k0 # RowBlocks
      BY <1>4, <1>5, <1>6 DEF FirstRow, RowAt, BlockRow
    <2> QED BY <1>4, <1>5, <2>1
  <1>8. c0 \in Nat /\ c0 < ColBlocks
    BY <1>4, <1>5
  <1> HIDE DEF k0, c0
  <1>9. /\ row_index(row_ite') \in 0..RowBlocks
        /\ row_ite' = FirstRow(row_index(row_ite'))
        /\ ct_index(col_ite') \in 0..(ColBlocks - 1)
        /\ col_ite' = FirstCol(ct_index(col_ite'))
        /\ \A k \in 0..(RowBlocks - 1), c \in 0..(ColBlocks - 1) :
             Given(k, c)' => Given(k, c)
    <2>1. /\ FirstCol(c0 + 1) = FirstCol(c0) + BLK_NCOLS
          /\ FirstCol(c0) + BLK_NCOLS < shape.ncols <=> c0 + 1 < ColBlocks
      BY <1>5, <1>8, ColWalk
    <2>2. CASE col_ite + BLK_NCOLS < shape.ncols
      <3>1. col_ite' = col_ite + BLK_NCOLS /\ row_ite' = row_ite
        BY <1>1, <2>2 DEF NextBlock
      <3>2. c0 + 1 < ColBlocks /\ col_ite' = FirstCol(c0 + 1)
        BY <1>4, <2>1, <2>2, <3>1
      <3>3. ct_index(col_ite') = c0 + 1
        <4>1. c0 + 1 \in Nat /\ c0 + 1 < CeilDiv(shape.ncols, BLK_NCOLS)
          BY <1>5, <1>8, <3>2
        <4> QED BY <1>5, <3>2, <4>1, ColWalk
      <3>4. \A k \in 0..(RowBlocks - 1), c \in 0..(ColBlocks - 1) :
              Given(k, c)' => Given(k, c)
        <4>1. ASSUME NEW k \in 0..(RowBlocks - 1),
                     NEW c \in 0..(ColBlocks - 1), Given(k, c)'
              PROVE  k < k0 \/ (k = k0 /\ (c < c0 \/ c = c0))
          BY <1>1, <1>8, <3>1, <3>3, <4>1 DEF Given, k0
        <4> QED BY <1>1, <4>1 DEF Given, k0, c0
      <3>5. row_index(row_ite') = k0
        BY <3>1 DEF k0
      <3>6. c0 + 1 \in 0..(ColBlocks - 1)
        BY <1>5, <1>8, <3>2
      <3> QED BY <1>4, <3>1, <3>2, <3>3, <3>4, <3>5, <3>6
    <2>3. CASE ~(col_ite + BLK_NCOLS < shape.ncols)
      <3>1. col_ite' = 0
            /\ row_ite' = row_ite + RowDims(shape.nrows, row_ite)
        BY <1>1, <2>3 DEF NextBlock
      <3>2. c0 = ColBlocks - 1
        <4>1. ~(c0 + 1 < ColBlocks)
          BY <1>4, <2>1, <2>3
        <4> QED BY <1>5, <1>8, <4>1
      <3>3. ct_index(0) = 0 /\ FirstCol(0) = 0
        <4>1. FirstCol(0) = 0
          BY <1>5 DEF FirstCol
        <4>2. 0 \in Nat /\ 0 < CeilDiv(shape.ncols, BLK_NCOLS)
          BY <1>5
        <4>3. ct_index(FirstCol(0)) = 0
          BY <1>5, <4>2, ColWalk
        <4> QED BY <4>1, <4>3
      <3>4. row_ite' = FirstRow(k0 + 1)
        BY <1>4, <1>5, <1>7, <3>1, RowWalk DEF FirstRow
      <3>5. row_index(row_ite') = k0 + 1
        <4>1. CASE k0 + 1 < RowBlocks
          <5>1. k0 + 1 \in Nat /\ k0 + 1 < CeilDiv(shape.nrows, BLK_NROWS)
            BY <1>5, <1>7, <4>1
          <5> QED BY <1>5, <3>4, <5>1, RowWalk DEF FirstRow
        <4>2. CASE k0 + 1 = RowBlocks
          <5>1. FirstRow(k0 + 1) = shape.nrows
            BY <1>5, <1>7, <4>2, RowEnds DEF FirstRow
          <5> QED BY <1>5, <3>4, <4>2, <5>1, RowEnds
        <4> QED BY <1>5, <1>7, <4>1, <4>2
      <3>6. \A k \in 0..(RowBlocks - 1), c \in 0..(ColBlocks - 1) :
              Given(k, c)' => Given(k, c)
        <4>1. ASSUME NEW k \in 0..(RowBlocks - 1),
                     NEW c \in 0..(ColBlocks - 1), Given(k, c)'
              PROVE  k < k0 \/ (k = k0 /\ (c < c0 \/ c = c0))
          BY <1>1, <1>5, <1>7, <3>1, <3>2, <3>3, <3>5, <4>1 DEF Given
        <4> QED BY <1>1, <4>1 DEF Given, k0, c0
      <3> QED BY <1>5, <1>7, <3>1, <3>3, <3>4, <3>5, <3>6
    <2> QED BY <2>2, <2>3
  <1>10. TasksRight'
    BY <1>2, <1>3 DEF PInv, TasksRight
  <1>11. Walk'
    BY <1>1, <1>3, <1>4, <1>9 DEF Walk, FirstCol
  <1>12. Blocks'
    <2>1. HasError' = HasError
      BY <1>1 DEF HasError
    <2> QED BY <1>1, <1>2, <1>3, <1>9, <2>1 DEF PInv, Blocks, Running
  <1>13. Polys'
    BY <1>1, <1>3 DEF PInv, Polys, Running
  <1>14. Stages' /\ Multiplied'
    BY <1>1 DEF Stages, Multiplied
  <1>15. Merged'
    BY <1>1 DEF PInv, Merged, Running
  <1>16. RowsRight'
    BY <1>1 DEF PInv, RowsRight
  <1> QED BY <1>10, <1>11, <1>12, <1>13, <1>14, <1>15, <1>16 DEF PInv

(* MatVecCore on the caller's thread: every polynomial is encoded.         *)
LEMMA ProductRunCard ==
  ASSUME BInv, PInv, RunCard PROVE PInv'
  <1>1. /\ main = "card" /\ main' = "merge"
        /\ mvp_matrix_result' =
             [mvp_matrix_result EXCEPT ![<<row_index(0), ct_index(0)>>] =
                IF pt_mat = 0..(num_row_blks - 1)
                THEN BlockCt(0, shape.nrows, 0, shape.ncols) ELSE NoCt]
        /\ UNCHANGED <<pool, shape, num_row_blks, row_ite, col_ite, futures,
                       pt_mat, frame, mvp_merge, updated, out, calls>>
    BY DEF RunCard, Goto, result
  <1>2. /\ RowBlocks' = RowBlocks /\ ColBlocks' = ColBlocks
        /\ MT_in_subblock' = MT_in_subblock
        /\ \A k : FirstRow(k)' = FirstRow(k) /\ NumRows(k)' = NumRows(k)
        /\ \A k, c : RightCt(k, c)' = RightCt(k, c)
        /\ \A j : EcdRange(j)' = EcdRange(j)
        /\ \A t, k, c : IsBlock(t, k, c)' = IsBlock(t, k, c)
    BY <1>1, SameMatrix
  <1>3. Own' = Own
    BY <1>1 DEF pool, call, Outstanding, Own, HasFrame
  <1>4. MT_in_subblock /\ Len(futures) = PoolSize
    BY <1>1 DEF PInv, Stages
  <1>5. /\ shape.nrows \in Nat /\ shape.nrows >= 1
        /\ shape.ncols \in Nat /\ shape.ncols >= 1
        /\ num_row_blks \in Nat /\ num_row_blks >= 1
        /\ BLK_NROWS \in Nat /\ BLK_NROWS >= 3
        /\ BLK_NCOLS \in Nat /\ BLK_NCOLS >= 1
    BY Sizes DEF BInv
  <1>6. pt_mat = 0..(num_row_blks - 1)
    <2>1. Len(futures) \in Nat /\ DOMAIN futures = 1..Len(futures)
          /\ next = Len(futures) + 1
      BY <1>1 DEF BInv, CallTypes, Waited
    <2>2. \A i \in DOMAIN futures : futures[i] = "ok"
      BY <2>1 DEF BInv, Waited
    <2>3. \A i \in 1..PoolSize : EcdRange(i - 1) \subseteq pt_mat
      BY <1>1, <1>4, <2>1, <2>2 DEF PInv, Polys, Running
    <2>4. \A j \in 0..(PoolSize - 1) : EcdRange(j) \subseteq pt_mat
      <3>1. ASSUME NEW j \in 0..(PoolSize - 1)
            PROVE  j + 1 \in 1..PoolSize /\ (j + 1) - 1 = j
        BY <3>1, PoolCounts
      <3> QED BY <2>3, <3>1
    <2>5. Encoded \subseteq pt_mat
      BY <2>4 DEF Encoded
    <2>6. Encoded = 0..(num_row_blks - 1)
      BY <1>5, PoolCounts, EcdCovers
    <2> QED BY <2>5, <2>6 DEF BInv, Ranges
  <1>7. RowBlocks = 1 /\ ColBlocks = 1
    <2>1. shape.nrows <= BLK_NROWS /\ shape.ncols <= BLK_NCOLS
      BY <1>4 DEF MT_in_subblock
    <2>2. 1 * BLK_NROWS = BLK_NROWS /\ 1 * BLK_NCOLS = BLK_NCOLS
      BY <1>5
    <2>3. CeilDiv(shape.nrows, BLK_NROWS) = 1
      BY <1>5, <2>1, <2>2, CeilDivIs
    <2>4. CeilDiv(shape.ncols, BLK_NCOLS) = 1
      BY <1>5, <2>1, <2>2, CeilDivIs
    <2> QED BY <2>3, <2>4 DEF RowBlocks, ColBlocks
  <1>8. row_index(0) = 0 /\ ct_index(0) = 0
    <2>1. 0 * BLK_NCOLS = 0
      BY <1>5
    <2>2. ct_index(0) = 0
      BY <1>5, <2>1, CeilDivIs DEF ct_index
    <2> QED BY <1>5, <2>2, RowEnds
  <1>9. RightCt(0, 0) = BlockCt(0, shape.nrows, 0, shape.ncols)
    <2>1. shape.nrows <= BLK_NROWS /\ shape.ncols <= BLK_NCOLS
      BY <1>4 DEF MT_in_subblock
    <2>2. FirstRow(0) = 0 /\ FirstCol(0) = 0
      BY <1>5, RowEnds DEF FirstRow, FirstCol
    <2>3. NumRows(0) = shape.nrows
      BY <1>5, <2>1, <2>2 DEF NumRows, RowDims
    <2>4. NumCols(0) = shape.ncols
      BY <1>5, <2>1, <2>2 DEF NumCols, ColDims
    <2> QED BY <2>2, <2>3, <2>4 DEF RightCt
  <1>10. DOMAIN mvp_matrix_result = (0..(RowBlocks - 1)) \X (0..(ColBlocks - 1))
    BY <1>1 DEF PInv, Walk, Running
  <1>11. DOMAIN mvp_matrix_result' = DOMAIN mvp_matrix_result
         /\ mvp_matrix_result'[<<0, 0>>] = RightCt(0, 0)
    <2>1. <<0, 0>> \in DOMAIN mvp_matrix_result
      BY <1>7, <1>10
    <2> QED BY <1>1, <1>6, <1>8, <1>9, <2>1
  <1>12. TasksRight'
    BY <1>2, <1>3 DEF PInv, TasksRight
  <1>13. Walk'
    <2>1. Walk /\ main \in Running
      BY <1>1 DEF PInv, Running
    <2> QED BY <1>1, <1>2, <1>11, <2>1 DEF Walk, FirstCol
  <1>14. Polys'
    BY <1>1, <1>2 DEF PInv, Polys, Running
  <1>15. Multiplied'
    BY <1>2, <1>7, <1>11 DEF Multiplied
  <1>16. Blocks' /\ Stages'
    BY <1>1, <1>2, <1>4 DEF Blocks, Stages
  <1>17. Merged'
    BY <1>1 DEF PInv, Merged, Running
  <1>18. RowsRight'
    BY <1>1 DEF PInv, RowsRight
  <1> QED BY <1>12, <1>13, <1>14, <1>15, <1>16, <1>17, <1>18 DEF PInv

(* The block products of a row are added up.                               *)
LEMMA ProductMerge ==
  ASSUME BInv, PInv, Merge PROVE PInv'
  <1>1. /\ main = "merge" /\ main' = "returned"
        /\ mvp_merge' =
             [r \in 1..CeilDiv(shape.nrows, BLK_NROWS) |->
                AddMatVec({mvp_matrix_result[<<r - 1, c>>] :
                             c \in 0..(CeilDiv(shape.ncols, BLK_NCOLS) - 1)})]
        /\ UNCHANGED <<pool, shape, num_row_blks, row_ite, col_ite, futures,
                       mvp_matrix_result, pt_mat, updated, out>>
        /\ frame' = FALSE
    BY DEF Merge, Goto
  <1>2. /\ RowBlocks' = RowBlocks /\ ColBlocks' = ColBlocks
        /\ MT_in_subblock' = MT_in_subblock
        /\ \A k : FirstRow(k)' = FirstRow(k) /\ NumRows(k)' = NumRows(k)
        /\ \A k : MergedCt(k)' = MergedCt(k)
        /\ \A j : EcdRange(j)' = EcdRange(j)
        /\ \A t, k, c : IsBlock(t, k, c)' = IsBlock(t, k, c)
    BY <1>1, SameMatrix
  <1>3. Own' = {}
    BY <1>1 DEF Own, HasFrame
  <1>4. ~updated /\ out = <<>>
    BY <1>1 DEF PInv, Merged, Running
  <1>5. mvp_merge' = [b \in 1..RowBlocks |-> MergedCt(b - 1)]
    <2>1. ASSUME NEW b \in 1..RowBlocks
          PROVE  AddMatVec({mvp_matrix_result[<<b - 1, c>>] :
                              c \in 0..(ColBlocks - 1)}) = MergedCt(b - 1)
      <3>1. b - 1 \in 0..(RowBlocks - 1)
        BY <2>1, Counts DEF BInv
      <3>2. \A c \in 0..(ColBlocks - 1) :
              mvp_matrix_result[<<b - 1, c>>] = RightCt(b - 1, c)
        BY <1>1, <3>1 DEF PInv, Multiplied
      <3>3. {mvp_matrix_result[<<b - 1, c>>] : c \in 0..(ColBlocks - 1)}
              = {RightCt(b - 1, c) : c \in 0..(ColBlocks - 1)}
        BY <3>2
      <3> QED BY <3>3 DEF MergedCt
    <2> QED BY <1>1, <2>1 DEF RowBlocks, ColBlocks
  <1>6. TasksRight'
    BY <1>2, <1>3 DEF PInv, TasksRight
  <1>7. Walk' /\ Blocks' /\ Polys' /\ Stages' /\ Multiplied'
    BY <1>1 DEF Walk, Blocks, Polys, Stages, Multiplied, Running
  <1>8. Merged'
    <2>1. \A b : Record(b)' = MergedCt(b - 1)
      BY <1>1, <1>2, <1>4 DEF Record
    <2> QED BY <1>1, <1>2, <1>4, <1>5, <2>1 DEF Merged, Running
  <1>9. RowsRight'
    BY <1>1, <1>4 DEF RowsRight
  <1> QED BY <1>6, <1>7, <1>8, <1>9 DEF PInv

(* UpdateVector adds to each record the elements of its own rows.          *)
LEMMA ProductUpdate ==
  ASSUME BInv, PInv, UpdateVector PROVE PInv'
  <1> DEFINE o == Offsets(shape.nrows)
  <1>1. /\ main = "returned" /\ main' = main /\ ~updated /\ updated' = TRUE
        /\ mvp_merge' = [b \in DOMAIN mvp_merge |->
                           UpdateMatVec(mvp_merge[b], o[b - 1], o[b] - o[b - 1])]
        /\ UNCHANGED <<pool, call, out, calls>>
    BY DEF UpdateVector
  <1> HIDE DEF o
  <1>2. UNCHANGED <<shape, num_row_blks>>
    BY <1>1 DEF call
  <1>3. /\ RowBlocks' = RowBlocks /\ ColBlocks' = ColBlocks
        /\ MT_in_subblock' = MT_in_subblock
        /\ \A k : FirstRow(k)' = FirstRow(k) /\ NumRows(k)' = NumRows(k)
        /\ \A k : MergedCt(k)' = MergedCt(k)
        /\ \A j : EcdRange(j)' = EcdRange(j)
        /\ \A t, k, c : IsBlock(t, k, c)' = IsBlock(t, k, c)
    BY <1>2, SameMatrix
  <1>4. Own' = Own
    BY <1>1 DEF pool, call, Outstanding, Own, HasFrame
  <1>5. mvp_merge = [b \in 1..RowBlocks |-> MergedCt(b - 1)] /\ out = <<>>
    BY <1>1 DEF PInv, Merged, Record
  <1>6. ASSUME NEW b \in 1..RowBlocks
        PROVE  o[b - 1] = FirstRow(b - 1) /\ o[b] - o[b - 1] = NumRows(b - 1)
    <2>1. /\ shape.nrows \in Nat /\ shape.nrows >= 1
          /\ BLK_NROWS \in Nat /\ BLK_NROWS >= 3
          /\ RowBlocks \in Nat /\ RowBlocks <= shape.nrows
          /\ RowBlocks = CeilDiv(shape.nrows, BLK_NROWS)
      BY Sizes, Counts DEF BInv
    <2>2. b - 1 \in 0..shape.nrows /\ b \in 0..shape.nrows
          /\ b - 1 \in Nat /\ b - 1 < RowBlocks /\ (b - 1) + 1 = b
      BY <1>6, <2>1
    <2>3. o[b - 1] = FirstRow(b - 1) /\ o[b] = FirstRow(b)
      BY <2>1, <2>2, OffsetsAre DEF o, FirstRow
    <2>4. FirstRow(b - 1) \in Nat /\ FirstRow(b - 1) < shape.nrows
          /\ FirstRow(b - 1) + NumRows(b - 1) = FirstRow((b - 1) + 1)
      BY <2>1, <2>2, RowWalk DEF FirstRow, NumRows
    <2>5. NumRows(b - 1) \in 1..BLK_NROWS
      BY <2>1, <2>4, RowDimsFit DEF NumRows
    <2> QED BY <2>1, <2>2, <2>3, <2>4, <2>5
  <1>7. mvp_merge' = [b \in 1..RowBlocks |->
                        UpdateMatVec(MergedCt(b - 1), FirstRow(b - 1),
                                     NumRows(b - 1))]
    BY <1>1, <1>5, <1>6
  <1>8. TasksRight'
    BY <1>3, <1>4 DEF PInv, TasksRight
  <1>9. Walk' /\ Blocks' /\ Polys' /\ Stages' /\ Multiplied'
    BY <1>1 DEF Walk, Blocks, Polys, Stages, Multiplied, Running
  <1>10. Merged'
    <2>1. \A b : Record(b)' = UpdateMatVec(MergedCt(b - 1), FirstRow(b - 1),
                                           NumRows(b - 1))
      BY <1>1, <1>3 DEF Record
    <2> QED BY <1>1, <1>3, <1>5, <1>7, <2>1 DEF Merged, Running
  <1>11. RowsRight'
    BY <1>1, <1>5 DEF RowsRight
  <1> QED BY <1>8, <1>9, <1>10, <1>11 DEF PInv

(* The record in which Decrypt finds row i.                                *)
LEMMA RecordFound ==
  ASSUME CallTypes, NEW i \in 0..(shape.nrows - 1),
         NEW o, \A b \in 0..shape.nrows : o[b] = FirstRow(b),
         NEW b, b = CHOOSE a \in 1..shape.nrows : o[a - 1] <= i /\ i < o[a]
  PROVE  /\ b \in 1..RowBlocks
         /\ o[b - 1] = FirstRow(b - 1) /\ o[b] - o[b - 1] = NumRows(b - 1)
         /\ i - o[b - 1] \in Nat /\ i - o[b - 1] < NumRows(b - 1)
         /\ FirstRow(b - 1) + (i - o[b - 1]) = i
  <1>1. /\ shape.nrows \in Nat /\ shape.nrows >= 1
        /\ BLK_NROWS \in Nat /\ BLK_NROWS >= 3
        /\ RowBlocks \in Nat /\ RowBlocks >= 1 /\ RowBlocks <= shape.nrows
        /\ RowBlocks = CeilDiv(shape.nrows, BLK_NROWS)
    BY Sizes, Counts
  <1>2. FirstRow(0) = 0
        /\ \A k \in Nat : k >= RowBlocks => FirstRow(k) = shape.nrows
    BY <1>1, RowEnds DEF FirstRow
  <1>3. ASSUME NEW k \in Nat, k < RowBlocks
        PROVE  /\ FirstRow(k) \in Nat /\ NumRows(k) \in Nat
               /\ FirstRow(k) + NumRows(k) = FirstRow(k + 1)
    <2>1. /\ FirstRow(k) \in Nat /\ FirstRow(k) < shape.nrows
          /\ FirstRow(k) + NumRows(k) = FirstRow(k + 1)
      BY <1>1, <1>3, RowWalk DEF FirstRow, NumRows
    <2>2. NumRows(k) \in 1..BLK_NROWS
      BY <1>1, <2>1, RowDimsFit DEF NumRows
    <2> QED BY <1>1, <2>1, <2>2
  <1>4. \E a \in 1..shape.nrows : o[a - 1] <= i /\ i < o[a]
    <2> DEFINE T == {a \in 0..shape.nrows : i < o[a]}
    <2>1. shape.nrows \in T
      BY <1>1, <1>2
    <2>2. T \in SUBSET Nat
      OBVIOUS
    <2>3. PICK a \in T : \A n \in T : a <= n
      <3> HIDE DEF T
      <3> QED BY <2>1, <2>2, LeastNatural
    <2>4. a \in 0..shape.nrows /\ i < o[a]
      BY <2>3
    <2>5. a # 0
      BY <1>1, <1>2, <2>4
    <2>6. a - 1 \in 0..shape.nrows /\ a - 1 \notin T
      BY <1>1, <2>3, <2>4, <2>5
    <2>7. FirstRow(a - 1) \in Nat
      <3>1. a - 1 \in Nat
        BY <2>6
      <3>2. CASE a - 1 < RowBlocks
        BY <1>3, <3>1, <3>2
      <3>3. CASE ~(a - 1 < RowBlocks)
        BY <1>1, <1>2, <3>1, <3>3
      <3> QED BY <3>2, <3>3
    <2>8. o[a - 1] <= i
      BY <2>6, <2>7
    <2> QED BY <1>1, <2>4, <2>5, <2>8
  <1>5. b \in 1..shape.nrows /\ o[b - 1] <= i /\ i < o[b]
    BY <1>4
  <1>6. b \in Nat /\ b - 1 \in Nat /\ b - 1 \in 0..shape.nrows
        /\ b \in 0..shape.nrows /\ (b - 1) + 1 = b
    BY <1>1, <1>5
  <1>7. o[b - 1] = FirstRow(b - 1) /\ o[b] = FirstRow(b)
    BY <1>6
  <1>8. b - 1 < RowBlocks
    <2>1. SUFFICES ASSUME b - 1 >= RowBlocks PROVE FALSE
      BY <1>1, <1>6
    <2>2. FirstRow(b - 1) = shape.nrows
      BY <1>2, <1>6, <2>1
    <2> QED BY <1>1, <1>5, <1>7, <2>2
  <1>9. /\ FirstRow(b - 1) \in Nat /\ NumRows(b - 1) \in Nat
        /\ FirstRow(b - 1) + NumRows(b - 1) = FirstRow(b)
    BY <1>3, <1>6, <1>8
  <1> QED BY <1>1, <1>5, <1>6, <1>7, <1>8, <1>9

(* Decrypt gives back the rows of the product.                             *)
LEMMA ProductDecrypt ==
  ASSUME BInv, PInv, Decrypt PROVE PInv'
  <1> DEFINE o == Offsets(shape.nrows)
             At(i) == CHOOSE b \in 1..shape.nrows : o[b - 1] <= i /\ i < o[b]
             Row(i) == DecryptMatVec(mvp_merge[At(i)],
                                     o[At(i)] - o[At(i) - 1])[i - o[At(i) - 1]]
  <1>1. /\ main = "returned" /\ main' = "idle"
        /\ out' = [i \in 0..(shape.nrows - 1) |-> Row(i)]
        /\ UNCHANGED <<pool, call, mvp_merge, updated, calls>>
    BY DEF Decrypt, Goto
  <1>2. UNCHANGED <<shape, num_row_blks>>
    BY <1>1 DEF call
  <1>3. /\ RowBlocks' = RowBlocks /\ ColBlocks' = ColBlocks
        /\ MT_in_subblock' = MT_in_subblock
        /\ \A j : EcdRange(j)' = EcdRange(j)
        /\ \A t, k, c : IsBlock(t, k, c)' = IsBlock(t, k, c)
    BY <1>2, SameMatrix
  <1>4. Own' = Own
    BY <1>1 DEF pool, call, Outstanding, Own, HasFrame
  <1>5. TasksRight'
    BY <1>3, <1>4 DEF PInv, TasksRight
  <1>6. Walk' /\ Blocks' /\ Polys' /\ Stages' /\ Multiplied' /\ Merged'
    BY <1>1 DEF Walk, Blocks, Polys, Stages, Multiplied, Merged, Running
  <1>7. /\ shape.nrows \in Nat /\ shape.nrows >= 1
        /\ BLK_NROWS \in Nat /\ BLK_NROWS >= 3 /\ N \in Nat /\ BLK_NROWS <= N
    BY Sizes DEF BInv
  <1>8. \A b \in 0..shape.nrows : o[b] = FirstRow(b)
    BY <1>7, OffsetsAre DEF FirstRow
  <1> HIDE DEF o
  <1>9. ASSUME NEW i \in 0..(shape.nrows - 1)
        PROVE  Row(i) = {i} \X (0..(shape.ncols - 1) \cup
                                (IF updated THEN {Plain} ELSE {}))
    <2> DEFINE b == At(i)
               k == b - 1
               j == i - o[b - 1]
               rows == NumRows(k)
               gap == N \div NextPow2(rows)
               x == j * gap
    <2>1. /\ b \in 1..RowBlocks
          /\ o[b - 1] = FirstRow(b - 1) /\ o[b] - o[b - 1] = NumRows(b - 1)
          /\ i - o[b - 1] \in Nat /\ i - o[b - 1] < NumRows(b - 1)
          /\ FirstRow(b - 1) + (i - o[b - 1]) = i
      <3>1. b = CHOOSE a \in 1..shape.nrows : o[a - 1] <= i /\ i < o[a]
        OBVIOUS
      <3> HIDE DEF b
      <3> QED BY <1>8, <1>9, <3>1, RecordFound DEF BInv
    <2>2. Row(i) = DecryptMatVec(mvp_merge[b], o[b] - o[b - 1])[i - o[b - 1]]
      OBVIOUS
    <2> HIDE DEF b
    <2>3. k \in 0..(RowBlocks - 1)
      BY <2>1, Counts DEF BInv
    <2>4. rows \in 1..BLK_NROWS
      <3>1. k \in Nat /\ k < CeilDiv(shape.nrows, BLK_NROWS)
        BY <2>3, Counts DEF BInv
      <3>2. FirstRow(k) \in Nat /\ FirstRow(k) < shape.nrows
        BY <1>7, <3>1, RowWalk DEF FirstRow
      <3> QED BY <1>7, <3>2, RowDimsFit DEF NumRows
    <2>5. j \in Nat /\ j < rows /\ FirstRow(k) + j = i
      BY <2>1
    <2>6. rows \in Nat /\ rows >= 1 /\ rows <= N
      BY <1>7, <2>4
    <2>7. x \in 0..(N - 1) /\ x % gap = 0 /\ x \div gap = j
      BY <2>5, <2>6, Coefficient
    <2>8. MergedCt(k)[x] = {i} \X (0..(shape.ncols - 1))
      <3>1. MergedCt(k)[j * (N \div NextPow2(NumRows(k)))]
              = {FirstRow(k) + j} \X (0..(shape.ncols - 1))
        BY <2>3, <2>5, MergedRow DEF BInv
      <3> QED BY <2>5, <3>1
    <2>9. Row(i) = mvp_merge[b][x]
      <3>1. Row(i) = DecryptMatVec(mvp_merge[b], rows)[j]
        BY <2>1, <2>2
      <3>2. j \in 0..(rows - 1)
        BY <2>5, <2>6
      <3> QED BY <3>1, <3>2 DEF DecryptMatVec
    <2>10. mvp_merge[b] = Record(b)
      BY <1>1, <2>1 DEF PInv, Merged
    <2>11. CASE ~updated
      <3>1. mvp_merge[b] = MergedCt(k)
        BY <2>10, <2>11 DEF Record
      <3> QED BY <2>8, <2>9, <2>11, <3>1
    <2>12. CASE updated
      <3>1. mvp_merge[b] = UpdateMatVec(MergedCt(k), FirstRow(k), rows)
        BY <2>10, <2>12 DEF Record
      <3>2. mvp_merge[b] =
              [m \in 0..(N - 1) |->
                 IF m % gap = 0 /\ m \div gap < rows
                 THEN MergedCt(k)[m] \cup {<<FirstRow(k) + m \div gap, Plain>>}
                 ELSE MergedCt(k)[m]]
        BY <3>1 DEF UpdateMatVec
      <3> HIDE DEF x, gap, rows, j
      <3>3. mvp_merge[b][x] = MergedCt(k)[x] \cup {<<FirstRow(k) + j, Plain>>}
        BY <2>5, <2>7, <3>2
      <3>4. mvp_merge[b][x] = ({i} \X (0..(shape.ncols - 1))) \cup {<<i, Plain>>}
        BY <2>5, <2>8, <3>3
      <3>5. ({i} \X (0..(shape.ncols - 1))) \cup {<<i, Plain>>}
              = {i} \X (0..(shape.ncols - 1) \cup {Plain})
        OBVIOUS
      <3> QED BY <2>9, <2>12, <3>4, <3>5
    <2> QED BY <2>11, <2>12
  <1> HIDE DEF Row
  <1>10. RowsRight'
    BY <1>1, <1>2, <1>9 DEF RowsRight, Plain
  <1> QED BY <1>5, <1>6, <1>10 DEF PInv

(* Whoever finishes a task of the call takes it from the pool.             *)
LEMMA SettledOwn ==
  ASSUME BInv, NEW w \in Workers, NEW how, Settle(w, how)
  PROVE  wtask[w] \in Own /\ Own = Own' \cup {wtask[w]}
  <1>1. HasFrame(wtask[w]) /\ UNCHANGED <<frame, calls>>
    BY DEF Settle
  <1>2. wtask[w] \in Outstanding /\ Outstanding = Outstanding' \cup {wtask[w]}
    BY Finished DEF BInv, Settle
  <1> QED BY <1>1, <1>2 DEF Own, HasFrame

(* A part of the encoding is done.                                         *)
LEMMA ProductEncodingDone ==
  ASSUME BInv, PInv, NEW w \in Workers,
         EncodingDone(w) \/ EncodingFails(w) \/ BlockThrows(w)
  PROVE  PInv'
  <1> DEFINE t0 == wtask[w]
  <1>1. /\ \E how \in {"ok", "error"} : Settle(w, how)
        /\ UNCHANGED mvp_matrix_result
    BY DEF EncodingDone, EncodingFails, BlockThrows
  <1>2. UNCHANGED <<main, shape, num_row_blks, row_ite, col_ite, frame,
                    mvp_merge, updated, out, calls>>
    BY <1>1 DEF Settle, result
  <1>3. wtask[w] \in Own /\ Own = Own' \cup {wtask[w]}
    BY <1>1, SettledOwn
  <1>4. pt_mat \subseteq pt_mat' /\ pt_mat' \subseteq 0..(num_row_blks - 1)
    BY <1>3 DEF EncodingDone, EncodingFails, BlockThrows, BInv, Ranges, Own
  <1>5. PICK how \in {"ok", "error"} : Settle(w, how)
    BY <1>1
  <1>6. /\ futures[wtask[w].id] = "pending" /\ futures'[wtask[w].id] = how
        /\ \A i \in DOMAIN futures :
             i # wtask[w].id => futures'[i] = futures[i]
        /\ wtask[w].id \in DOMAIN futures /\ DOMAIN futures' = DOMAIN futures
    BY <1>1, <1>4, <1>5, Settled
  <1>7. /\ RowBlocks' = RowBlocks /\ ColBlocks' = ColBlocks
        /\ MT_in_subblock' = MT_in_subblock
        /\ \A k : FirstRow(k)' = FirstRow(k) /\ NumRows(k)' = NumRows(k)
        /\ \A k, c : RightCt(k, c)' = RightCt(k, c)
        /\ \A k : MergedCt(k)' = MergedCt(k)
        /\ \A j : EcdRange(j)' = EcdRange(j)
        /\ \A t, k, c : IsBlock(t, k, c)' = IsBlock(t, k, c)
    BY <1>2, SameMatrix
  <1>8. how = "error" => HasError'
    BY <1>6 DEF HasError
  <1>9. HasError => HasError'
    BY <1>6 DEF HasError
  <1>10. TasksRight'
    BY <1>3, <1>7 DEF PInv, TasksRight
  <1>11. Walk'
    BY <1>1, <1>2, <1>7 DEF PInv, Walk, FirstCol
  <1>12. Blocks'
    <2>1. ASSUME main \in Running, ~MT_in_subblock PROVE how = "error"
      <3>1. t0.kind = "block"
        BY <1>3, <2>1 DEF PInv, TasksRight, IsBlock
      <3>2. Settle(w, "error") /\ BlockThrows(w)
        BY <3>1 DEF EncodingDone, EncodingFails, BlockThrows
      <3>3. futures'[wtask[w].id] = "error"
        BY <1>1, <1>4, <3>2, Settled
      <3> QED BY <1>6, <3>3
    <2> QED BY <1>2, <1>7, <1>8, <2>1 DEF Blocks
  <1>13. Polys'
    <2>1. ASSUME main \in Running, MT_in_subblock,
                 NEW i \in DOMAIN futures, futures'[i] = "ok"
          PROVE  EcdRange(i - 1) \subseteq pt_mat'
      <3>1. CASE i # wtask[w].id
        BY <1>4, <1>6, <2>1, <3>1 DEF PInv, Polys
      <3>2. CASE i = wtask[w].id
        <4>1. how = "ok"
          BY <1>6, <2>1, <3>2
        <4>2. EncodingDone(w)
          <5>1. ~EncodingFails(w) /\ ~BlockThrows(w)
            <6>1. ASSUME EncodingFails(w) \/ BlockThrows(w) PROVE FALSE
              <7>1. Settle(w, "error")
                BY <6>1 DEF EncodingFails, BlockThrows
              <7>2. futures'[wtask[w].id] = "error"
                BY <1>1, <1>4, <7>1, Settled
              <7> QED BY <2>1, <3>2, <7>2
            <6> QED BY <6>1
          <5> QED BY <5>1
        <4>3. t0.range = EcdRange(t0.id - 1)
          BY <1>3, <2>1 DEF PInv, TasksRight
        <4>4. wtask[w].range \subseteq pt_mat'
          BY <4>2 DEF EncodingDone
        <4> QED BY <3>2, <4>3, <4>4
      <3> QED BY <3>1, <3>2
    <2> QED BY <1>2, <1>6, <1>7, <2>1 DEF Polys
  <1>14. Len(futures') = Len(futures)
    BY <1>5 DEF Settle, BInv, CallTypes
  <1>15. Stages' /\ Multiplied'
    BY <1>1, <1>2, <1>7, <1>14 DEF PInv, Stages, Multiplied, PoolSize
  <1>16. Merged'
    <2>1. \A b : Record(b)' = Record(b)
      BY <1>2, <1>7 DEF Record
    <2> QED BY <1>2, <1>7, <2>1 DEF PInv, Merged
  <1>17. RowsRight'
    BY <1>2 DEF PInv, RowsRight
  <1> QED BY <1>10, <1>11, <1>12, <1>13, <1>15, <1>16, <1>17 DEF PInv

(* A block is done: it is stored where Merge will look for it.             *)
LEMMA ProductBlockDone ==
  ASSUME "ecd" \notin Faults, BInv, PInv, NEW w \in Workers, BlockDone(w)
  PROVE  PInv'
  <1> DEFINE t0 == wtask[w]
             place == <<row_index(t0.row), ct_index(t0.col)>>
             ct == BlockCt(t0.row, t0.rows, t0.col, t0.cols)
             X == IF Encoded = 0..(num_row_blks - 1) THEN ct ELSE NoCt
  <1>1. /\ t0.kind = "block" /\ Settle(w, "ok")
        /\ mvp_matrix_result' = [mvp_matrix_result EXCEPT ![place] = X]
        /\ UNCHANGED pt_mat
    BY DEF BlockDone, Place
  <1>2. UNCHANGED <<main, shape, num_row_blks, row_ite, col_ite, frame,
                    mvp_merge, updated, out, calls>>
    BY <1>1 DEF Settle, result
  <1>3. wtask[w] \in Own /\ Own = Own' \cup {wtask[w]}
    BY <1>1, SettledOwn
  <1>4. /\ futures[wtask[w].id] = "pending" /\ futures'[wtask[w].id] = "ok"
        /\ \A i \in DOMAIN futures :
             i # wtask[w].id => futures'[i] = futures[i]
        /\ wtask[w].id \in DOMAIN futures /\ DOMAIN futures' = DOMAIN futures
    BY <1>1, Settled DEF BInv, Ranges
  <1>5. /\ RowBlocks' = RowBlocks /\ ColBlocks' = ColBlocks
        /\ MT_in_subblock' = MT_in_subblock
        /\ \A k : FirstRow(k)' = FirstRow(k) /\ NumRows(k)' = NumRows(k)
        /\ \A k, c : RightCt(k, c)' = RightCt(k, c)
        /\ \A k : MergedCt(k)' = MergedCt(k)
        /\ \A j : EcdRange(j)' = EcdRange(j)
        /\ \A t, k, c : IsBlock(t, k, c)' = IsBlock(t, k, c)
    BY <1>2, SameMatrix
  <1>6. HasError => HasError'
    BY <1>4 DEF HasError
  <1>7. ~MT_in_subblock
    BY <1>1, <1>3 DEF PInv, TasksRight
  <1>8. PICK k0 \in 0..(RowBlocks - 1), c0 \in 0..(ColBlocks - 1) :
          IsBlock(t0, k0, c0)
    BY <1>3, <1>7 DEF PInv, TasksRight
  <1>9. ASSUME NEW k \in 0..(RowBlocks - 1), NEW c \in 0..(ColBlocks - 1)
        PROVE  row_index(FirstRow(k)) = k /\ ct_index(FirstCol(c)) = c
    <2>1. /\ RowBlocks \in Nat /\ RowBlocks = CeilDiv(shape.nrows, BLK_NROWS)
          /\ ColBlocks \in Nat /\ ColBlocks = CeilDiv(shape.ncols, BLK_NCOLS)
          /\ shape.nrows \in Nat /\ shape.ncols \in Nat
          /\ BLK_NROWS \in Nat /\ BLK_NROWS >= 3
          /\ BLK_NCOLS \in Nat /\ BLK_NCOLS >= 1
      BY Counts, Sizes DEF BInv
    <2>2. k \in Nat /\ k < CeilDiv(shape.nrows, BLK_NROWS)
          /\ c \in Nat /\ c < CeilDiv(shape.ncols, BLK_NCOLS)
      BY <1>9, <2>1
    <2>3. row_index(FirstRow(k)) = k
      BY <2>1, <2>2, RowWalk DEF FirstRow
    <2>4. ct_index(FirstCol(c)) = c
      BY <2>1, <2>2, ColWalk
    <2> QED BY <2>3, <2>4
  <1>10. place = <<k0, c0>> /\ X = RightCt(k0, c0)
    <2>1. t0.row = FirstRow(k0) /\ t0.rows = NumRows(k0)
          /\ t0.col = FirstCol(c0) /\ t0.cols = NumCols(c0)
      BY <1>8 DEF IsBlock
    <2>2. Encoded = 0..(num_row_blks - 1)
      BY Sizes, PoolCounts, EcdCovers DEF BInv
    <2>3. place = <<k0, c0>>
      BY <1>9, <2>1
    <2> QED BY <2>1, <2>2, <2>3 DEF RightCt
  <1> HIDE DEF place, X, t0
  <1>11. TasksRight'
    BY <1>3, <1>5 DEF PInv, TasksRight
  <1>12. ASSUME main \in Running
         PROVE  /\ DOMAIN mvp_matrix_result
                     = (0..(RowBlocks - 1)) \X (0..(ColBlocks - 1))
                /\ DOMAIN mvp_matrix_result' = DOMAIN mvp_matrix_result
                /\ mvp_matrix_result'[<<k0, c0>>] = RightCt(k0, c0)
                /\ \A p \in DOMAIN mvp_matrix_result :
                     p # <<k0, c0>> =>
                       mvp_matrix_result'[p] = mvp_matrix_result[p]
    <2>1. DOMAIN mvp_matrix_result
            = (0..(RowBlocks - 1)) \X (0..(ColBlocks - 1))
      BY <1>12 DEF PInv, Walk
    <2>2. <<k0, c0>> \in DOMAIN mvp_matrix_result
      BY <1>8, <2>1
    <2>3. mvp_matrix_result'
            = [mvp_matrix_result EXCEPT ![<<k0, c0>>] = RightCt(k0, c0)]
      BY <1>1, <1>10
    <2> QED BY <2>1, <2>2, <2>3
  <1>13. Walk'
    BY <1>2, <1>5, <1>12 DEF PInv, Walk, FirstCol
  <1>14. Blocks'
    <2>1. ASSUME main \in Running, NEW k \in 0..(RowBlocks - 1),
                 NEW c \in 0..(ColBlocks - 1), Given(k, c)'
          PROVE  \/ HasError'
                 \/ mvp_matrix_result'[<<k, c>>] = RightCt(k, c)
                 \/ \E t \in Own' : IsBlock(t, k, c)
      <3>1. CASE <<k, c>> = <<k0, c0>>
        BY <1>12, <2>1, <3>1
      <3>2. CASE <<k, c>> # <<k0, c0>>
        <4>1. Given(k, c)
          BY <1>2, <2>1 DEF Given
        <4>2. \/ HasError
              \/ mvp_matrix_result[<<k, c>>] = RightCt(k, c)
              \/ \E t \in Own : IsBlock(t, k, c)
          BY <1>7, <2>1, <4>1 DEF PInv, Blocks
        <4>3. mvp_matrix_result'[<<k, c>>] = mvp_matrix_result[<<k, c>>]
          BY <1>12, <2>1, <3>2
        <4>4. ~IsBlock(t0, k, c)
          <5>1. SUFFICES ASSUME IsBlock(t0, k, c) PROVE FALSE
            OBVIOUS
          <5>2. FirstRow(k) = FirstRow(k0) /\ FirstCol(c) = FirstCol(c0)
            BY <1>8, <5>1 DEF IsBlock
          <5>3. k = k0 /\ c = c0
            BY <1>8, <1>9, <2>1, <5>2
          <5> QED BY <3>2, <5>3
        <4> QED BY <1>3, <1>6, <4>2, <4>3, <4>4 DEF t0
      <3> QED BY <3>1, <3>2
    <2> QED BY <1>2, <1>5, <2>1 DEF Blocks
  <1>15. Polys'
    BY <1>5, <1>7 DEF Polys
  <1>16. Len(futures') = Len(futures)
    BY <1>1 DEF Settle, BInv, CallTypes
  <1>17. Stages'
    BY <1>2, <1>5, <1>16 DEF PInv, Stages, PoolSize
  <1>18. Multiplied'
    <2>1. main # "merge"
      BY <1>3, NoneLeft DEF Own, HasFrame
    <2> QED BY <1>2, <2>1 DEF Multiplied
  <1>19. Merged'
    <2>1. \A b : Record(b)' = Record(b)
      BY <1>2, <1>5 DEF Record
    <2> QED BY <1>2, <1>5, <2>1 DEF PInv, Merged
  <1>20. RowsRight'
    BY <1>2 DEF PInv, RowsRight
  <1> QED BY <1>11, <1>13, <1>14, <1>15, <1>17, <1>18, <1>19, <1>20 DEF PInv

(* A task of a call that threw does no harm while no call runs.            *)
LEMMA ProductStray ==
  ASSUME BInv, PInv, NEW w \in Workers, StrayEnds(w), ~frame
  PROVE  PInv'
  <1>1. /\ UNCHANGED <<shape, num_row_blks, row_ite, col_ite, futures, frame,
                       mvp_matrix_result, pt_mat, result, calls>>
        /\ main' = main \/ main' = "died"
    BY DEF StrayEnds
  <1>2. main \notin Running /\ main' \notin Running
    BY <1>1 DEF BInv, Frames, Running
  <1>3. Own' = {}
    BY <1>1 DEF Own, HasFrame
  <1>4. Stages' /\ Multiplied'
    BY <1>2 DEF Stages, Multiplied, Running
  <1> QED BY <1>1, <1>2, <1>3, <1>4, DataStay DEF result, Running

(* It holds before the first call, ...                                     *)
LEMMA PInvInit == Init => PInv
  <1> SUFFICES ASSUME Init PROVE PInv
    OBVIOUS
  <1>1. Own = {}
    BY DEF Init, PoolInit, Outstanding, Own
  <1> QED BY <1>1 DEF Init, PInv, TasksRight, Walk, Blocks, Polys, Stages,
                      Multiplied, Merged, RowsRight, Running

(* ... every call establishes it, and every step keeps it but that of a    *)
(* task of an earlier call.                                                *)
SInv == ~spoiled => PInv

LEMMA SInvStep ==
  ASSUME "ecd" \notin Faults
  PROVE  BInv /\ SInv /\ [Next]_vars => SInv'
  <1> SUFFICES ASSUME BInv, SInv, [Next]_vars, ~spoiled' PROVE PInv'
    BY DEF SInv
  <1>1. CASE \E s \in Shapes, nb \in RowBlks : Call(s, nb)
    BY <1>1, ProductCall
  <1>2. CASE MainStep \/ UpdateVector \/ Destroy
    <2>1. spoiled' = spoiled
      BY <1>2 DEF MainStep, LaunchBlock, NotifyBlock, BlocksLaunched, Launch,
                  LaunchEncoding, NotifyEncoding, EncodingLaunched, GetOk,
                  GetError, Throws, GotAll, RunCard, CardError, Merge, Decrypt,
                  NotifyStop, Join, UpdateVector, Destroy
    <2>2. PInv
      BY <2>1 DEF SInv
    <2> QED BY <1>2, <2>2, ProductRests, ProductLaunchBlock,
               ProductLaunchEncoding, ProductNotifyBlock, ProductRunCard,
               ProductMerge, ProductUpdate, ProductDecrypt DEF MainStep
  <1>3. CASE \E w \in Workers : WorkerIdles(w) \/ Wakeup(w)
    <2>1. PInv
      BY <1>3 DEF SInv, WorkerIdles, Wakeup
    <2> QED BY <1>3, <2>1, ProductRests
  <1>4. ASSUME NEW w \in Workers, WorkerWorks(w) PROVE PInv'
    <2>1. CASE StrayEnds(w)
      <3>1. ~spoiled /\ ~frame
        BY <2>1 DEF StrayEnds
      <3> QED BY <2>1, <3>1, ProductStray DEF SInv
    <2>2. CASE EncodingDone(w) \/ EncodingFails(w) \/ BlockThrows(w)
      <3>1. PInv
        BY <2>2 DEF SInv, EncodingDone, EncodingFails, BlockThrows, Settle
      <3> QED BY <2>2, <3>1, ProductEncodingDone
    <2>3. CASE BlockDone(w)
      <3>1. PInv
        BY <2>3 DEF SInv, BlockDone, Settle
      <3> QED BY <2>3, <3>1, ProductBlockDone
    <2> QED BY <1>4, <2>1, <2>2, <2>3 DEF WorkerWorks
  <1>5. CASE UNCHANGED vars
    <2>1. PInv
      BY <1>5 DEF SInv, vars
    <2> QED BY <1>5, <2>1, ProductRests
  <1> QED BY <1>1, <1>2, <1>3, <1>4, <1>5 DEF Next

(* What Decrypt gives back is the product, row by row: for any matrices,   *)
(* block sizes, ring degrees and numbers of workers, with and without      *)
(* UpdateVector, whatever order the blocks are computed in and whichever   *)
(* calls of the card fail, also in a call that begins after another threw, *)
(* unless a task that the other left behind runs during it.  The encoding  *)
(* must not fail: a block task drops its status (mvp_priv_impl.cc:814).    *)
THEOREM ProductAlwaysRight ==
  ASSUME "ecd" \notin Faults
  PROVE  Spec => []ProductRight
  <1>1. Init => BInv /\ SInv
    BY BInvInit, PInvInit DEF SInv
  <1>2. (BInv /\ SInv) /\ [Next]_vars => (BInv /\ SInv)'
    BY BInvStep, SInvStep
  <1>3. SInv => ProductRight
    BY DEF SInv, PInv, RowsRight, ProductRight
  <1> QED BY <1>1, <1>2, <1>3, PTL DEF Spec
=============================================================================
