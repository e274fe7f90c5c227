------------------------- MODULE MvpPipelineProofs --------------------------
(***************************************************************************)
(* The rounds of the pipeline, for every ring degree, every job that the   *)
(* driver can write and any finishing times of the stages: no start pulse  *)
(* is lost, the trace waits for the whole tree, and the end of a run is    *)
(* reported when nothing is left in the pipeline.                          *)
(*                                                                         *)
(* The controller has no counter of leaves or blocks.  It knows that the   *)
(* tree is complete from a level number that reaches stage 8, and that the *)
(* run is over from one that reaches stage 9.  The proof counts for it:    *)
(* Passed batches have left stage 2, Taken leaves have entered stage 5,    *)
(* and c[k] blocks of level k have been made.  Every block of level k      *)
(* travels, waits in the reduce buffer, or is half of a block of the next  *)
(* level, and the leaves are at most 2^(level - 1); so when the first      *)
(* block of the last level appears, every leaf is in it, and the pipeline  *)
(* before it is empty.                                                     *)
(*                                                                         *)
(* The second half is about what the buffers hold.  A block is identified  *)
(* by its level and its place among the blocks of that level, and the      *)
(* counts say which block each stage, buffer and entry of the reduce       *)
(* buffer has (DataInv).  From there: what meets in a stage belongs        *)
(* together, no block is lost or counted twice on its way up the tree, and *)
(* the run ends with every leaf in the result.                             *)
(***************************************************************************)
EXTENDS MvpPipeline, SdkShapeProofs

-----------------------------------------------------------------------------
(* The registers                                                           *)

(* A bit as a number.                                                      *)
Num(b) == IF b THEN 1 ELSE 0

(* The registers have their widths, and the counters stay below their last *)
(* values.                                                                 *)
Registers ==
  /\ job \in Jobs
  /\ done \in [Signals -> BOOLEAN]
  /\ idle \in BOOLEAN /\ start_pulse \in BOOLEAN /\ reduce_trace \in BOOLEAN
  /\ stall \in BOOLEAN /\ stall_s2 \in BOOLEAN /\ stall_s4 \in BOOLEAN
  /\ stall_s0s1s2 \in BOOLEAN /\ stall_s3s4 \in BOOLEAN
  /\ delay \in 0..3
  /\ status \in [Stages -> BOOLEAN]
  /\ n \in [5..9 -> 0..MaxN]
  /\ rb_status \in [0..MaxN -> BOOLEAN]
  /\ s2_cnt \in 0..(job.split - 1)
  /\ s4_cnt \in 0..(job.index - 1)
  /\ write_uram \in BOOLEAN /\ write_uram_cnt \in 0..(job.split - 1)
  /\ rd \in {"idle", "xfer", "halt"} /\ batches \in Nat
  /\ wr \in BOOLEAN /\ ap_idle \in BOOLEAN /\ starts \in 0..MaxStarts

(* What holds stages 0 to 2 at the end of a round.                         *)
frozen == hold_s0s1s2 \/ stall_for_s4

-----------------------------------------------------------------------------
(* The front: batches, row groups and leaves                               *)

(* The row groups of a run.  Before group g begins, GroupStart(g) batches  *)
(* have passed, those of the vector and of g groups, and FirstRow(g)       *)
(* leaves come from the groups before it.                                  *)
Groups == 2^(job.level - 1) \div job.index

GroupStart(g) == job.split * (g + 1)

FirstRow(g) == g * job.index

(* The batches that have entered the pipeline: read, or being read for a   *)
(* round of stage 0.  When the reader has stopped, all of them.            *)
Entered ==
  IF rd = "idle" THEN data_size_batches
  ELSE batches + Num(status[0] /\ (rd = "xfer" \/ o_start(0)))

(* The batches that have left stage 2.                                     *)
Passed == Entered - Num(status[0]) - Num(status[1]) - Num(status[2])

(* The counts of stages 2 and 4 with the start pulse that is now on its    *)
(* way.                                                                    *)
s2_due == CountTo(s2_cnt, FALSE, job.split - 1, o_start(2))

s4_due == CountTo(s4_cnt, FALSE, job.index - 1, o_start(4))

(* Between runs nothing moves.                                             *)
Quiet ==
  /\ \A s \in Stages : ~status[s]
  /\ \A s \in 5..9 : n[s] = 0
  /\ \A s \in Signals : done[s]
  /\ rd = "idle"

(* The reader works on a batch that exists, and pauses only when stage 0   *)
(* has the batch before.  It reads ahead of the rounds only before the     *)
(* first one.                                                              *)
ReaderRight ==
  /\ rd = "xfer" => batches < data_size_batches /\ ~done[0]
  /\ rd = "halt" => batches \in 1..data_size_batches /\ status[0]
  /\ rd = "halt" /\ done[0] => batches < data_size_batches
  /\ rd = "halt" /\ ~done[0] => delay = 3
  /\ ~status[0] => rd = "idle" \/ (rd = "xfer" /\ batches = 0)

(* A stage works only in a round in which it takes part, and when the      *)
(* start pulse of a round comes, every stage has finished the round        *)
(* before; the reader has been reading since the start of the run.         *)
RoundsApart ==
  /\ start_pulse => delay = 0
  /\ \A s \in 1..9 : ~done[s] => status[s]
  /\ ~done[WrUram] => status[2]
  /\ ~done[0] => status[0] \/ (rd = "xfer" /\ batches = 0)
  /\ start_pulse => /\ \A s \in 1..WrUram : done[s]
                    /\ done[0] \/ (rd = "xfer" /\ batches = 0)

(* The batches follow each other without gaps, before the first and after  *)
(* the last of them excepted.                                              *)
NoBubble ==
  /\ status[1] \/ Entered = Num(status[0]) \/ (~status[0] /\ rd = "idle")
  /\ \/ status[2]
     \/ Entered = Num(status[0]) + Num(status[1])
     \/ ~status[0] /\ ~status[1] /\ rd = "idle"
  /\ Passed \in 0..data_size_batches

(* The vector comes first: stage 2 stores it until all its splits have     *)
(* passed.  After that g groups of the matrix are complete and q batches   *)
(* of the next have passed, and the counters of stages 2 and 4 agree.      *)
GroupsInOrder(g, q) ==
  /\ q < job.split
  /\ write_uram <=> Passed < job.split
  /\ write_uram_cnt = IF write_uram THEN Passed ELSE 0
  /\ IF write_uram THEN g = 0 /\ q = 0 ELSE Passed = GroupStart(g) + q
  /\ s2_due = IF write_uram \/ ~status[2] \/ q = job.split - 1
              THEN 0 ELSE q + 1
  /\ status[3] => g >= 1
  /\ ~status[3] => s4_due = 0

(* The leaves that stage 4 has begun to extract, and the ones that have    *)
(* entered the tree.                                                       *)
Extracted(g) == FirstRow(g - Num(status[3])) + s4_due

Taken(g) == Extracted(g) - Num(status[4])

-----------------------------------------------------------------------------
(* The tree: blocks and levels                                             *)

(* 1 where two numbers agree, or else 0.                                   *)
Same(a, b) == IF a = b THEN 1 ELSE 0

(* The blocks of level k in stages 5 to 8.  A block in stage 9 is no       *)
(* longer counted: the round that moved it there has set its bit of        *)
(* rb_status or has begun to pack it.                                      *)
InFlight(k) ==
  ((Same(n[5], k) + Same(n[6], k)) + Same(n[7], k)) + Same(n[8], k)

(* The block of the last level is in stage s on trip m, alone.  While      *)
(* stage 5 works on it in the next trip, it is streamed out of stage 9 in  *)
(* the same round.                                                         *)
Root(s, m) ==
  /\ n[s] = m
  /\ \A t \in (5..9) \ {s} : n[t] = IF s = 5 /\ t = 9 THEN m - 1 ELSE 0
  /\ \A k \in job.level..MaxN : rb_status[k] => k < m \/ s = 9
  /\ m > job.level => reduce_trace
  /\ s = 9 => m = MaxN

(* With c[k] blocks of level k made so far, each of them travels, waits,   *)
(* or is half of a block of the next level.  Before the root is made there *)
(* is no trace, and after it there is only the root.                       *)
Tally(c) ==
  /\ \A k \in 1..(job.level - 1) :
        c[k] = (InFlight(k) + Num(rb_status[k])) + 2 * c[k + 1]
  /\ c[job.level] = 0 => /\ ~reduce_trace
                         /\ \A s \in 5..9 : n[s] < job.level
                         /\ \A k \in job.level..MaxN : ~rb_status[k]
  /\ c[job.level] # 0 => \E s \in 5..9, m \in job.level..MaxN : Root(s, m)

(* A stage has a level exactly when it takes part.  The trace begins at    *)
(* the clock edge after the root enters stage 8.                           *)
Levels ==
  /\ ~rb_status[0]
  /\ \A s \in 5..9 : status[s] <=> n[s] # 0
  /\ n[8] = job.level => reduce_trace \/ delay = 0

-----------------------------------------------------------------------------
(* The invariant                                                           *)

(* Some number of groups, batches and blocks accounts for the registers.   *)
RunInOrder ==
  \E g, q \in Nat :
    /\ GroupsInOrder(g, q) /\ Taken(g) >= 0
    /\ \E c \in [1..job.level -> Nat] : c[1] = Taken(g) /\ Tally(c)

Running == ReaderRight /\ NoBubble /\ RunInOrder

(* The writer works, and the driver may start again, only after the run.   *)
Ends ==
  /\ wr \/ ap_idle => idle
  /\ ap_idle => ~wr

ControlInv ==
  /\ Registers /\ RoundsApart /\ Levels /\ Ends
  /\ idle => Quiet
  /\ ~idle => Running

-----------------------------------------------------------------------------
(* What the registers of a round become                                    *)

(* The round brings a leaf into stage 5.                                   *)
LeafMoves == status[4] /\ ~stall_nxt

(* The clock edge that ends a round of a run.                              *)
Round ==
  /\ Registers /\ ~idle /\ all_stage_done /\ RoundsApart /\ ReaderRight
  /\ Tick

(* How a round moves the status bits, stage by stage.                      *)
LEMMA StatusMoves ==
  ASSUME NEW a, status' = status_nxt(a)
  PROVE  /\ status'[0] <=> (IF frozen THEN status[0] ELSE ~a)
         /\ status'[1] <=> (IF frozen THEN status[1] ELSE status[0])
         /\ status'[2] <=> (IF frozen THEN status[2] ELSE status[1])
         /\ status'[3] <=> (IF hold_s3s4 \/ stall_for_s4 \/ stall_for_s2
                   THEN status[3] ELSE status[2] /\ ~write_uram)
         /\ status'[4] <=> (IF hold_s3s4 \/ stall_for_s2
                   THEN stall_nxt /\ status[4] ELSE status[3])
         /\ status'[5] <=> (n[8] < MaxN /\ IF reduce_trace THEN status[8]
                                           ELSE status[4] \/ stall_nxt)
         /\ status'[6] <=> status[5]
         /\ status'[7] <=> status[6]
         /\ status'[8] <=> status[7]
         /\ status'[9] <=> status[8]
  <1>1. /\ status'[0] = (IF frozen THEN status[0] ELSE ~a)
        /\ status'[1] = (IF frozen THEN status[1] ELSE status[0])
        /\ status'[2] = (IF frozen THEN status[2] ELSE status[1])
        /\ status'[3] = (IF hold_s3s4 \/ stall_for_s4 \/ stall_for_s2
                  THEN status[3] ELSE status[2] /\ ~write_uram)
        /\ status'[4] = (IF hold_s3s4 \/ stall_for_s2
                  THEN stall_nxt /\ status[4] ELSE status[3])
        /\ status'[5] = (/\ IF reduce_trace THEN status[8]
                            ELSE status[4] \/ stall_nxt
                         /\ n[8] < MaxN)
        /\ status'[6] = status[5]
        /\ status'[7] = status[6]
        /\ status'[8] = status[7]
        /\ status'[9] = status[8]
    BY DEF status_nxt, Stages, frozen
  <1> QED BY <1>1

(* How a round moves the level numbers.                                    *)
LEMMA LevelMoves ==
  ASSUME NEW a, n' = n_nxt(a)
  PROVE  /\ n'[5] = IF ~status_nxt(a)[5] THEN 0
                    ELSE IF stall_nxt \/ reduce_trace THEN n[8] + 1 ELSE 1
         /\ n'[6] = n[5] /\ n'[7] = n[6] /\ n'[8] = n[7] /\ n'[9] = n[8]
  BY DEF n_nxt

(* A bit is 0 or 1.                                                        *)
LEMMA NumType == ASSUME NEW b PROVE Num(b) \in {0, 1} /\ Num(b) \in Nat
  BY DEF Num

(* What the assumption on the jobs says of the job of a run: its batches   *)
(* are those of the vector and of Groups groups, its leaves are those of   *)
(* the groups.                                                             *)
LEMMA JobFacts ==
  ASSUME job \in Jobs
  PROVE  /\ MaxN \in Nat /\ MaxN >= 1
         /\ job.level \in 1..MaxN /\ job.split \in 1..4
         /\ job.index \in Nat /\ job.index >= 1
         /\ job.split = 1 \/ job.index = 1
         /\ Groups \in Nat /\ Groups >= 1
         /\ FirstRow(Groups) = 2^(job.level - 1)
         /\ data_size_batches = GroupStart(Groups)
         /\ job.index <= 2^(MaxN - 1)
  <1>1. /\ MaxN \in Nat /\ MaxN >= 1
        /\ job.level \in 1..MaxN /\ job.split \in 1..4
        /\ job.index \in Nat /\ job.index >= 1
        /\ job.split = 1 \/ job.index = 1
    BY JobsAssumption
  <1>2. PICK k \in 0..(job.level - 1) : job.index = 2^k
    BY JobsAssumption
  <1> DEFINE l == job.level - 1
             d == l - k
  <1>3. l \in Nat /\ k \in Nat /\ k <= l /\ d \in Nat
    BY <1>1, <1>2
  <1>4. 2^l = 2^d * 2^k /\ 2^l \div 2^k = 2^d
    BY <1>3, PowersDivide
  <1>5. 2^d \in Nat /\ 2^d >= 1 /\ 2^k \in Nat /\ 2^k >= 1
    BY <1>3, NatPower
  <1>6. Groups = 2^d
    BY <1>2, <1>4 DEF Groups
  <1>7. FirstRow(Groups) = 2^l
    BY <1>2, <1>4, <1>6 DEF FirstRow
  <1>8. 2^job.level = 2 * 2^l
    BY <1>1, PowerBefore
  <1>9. (2^job.level * job.split) \div (2 * job.index) = 2^d * job.split
    <2> DEFINE a == 2^d
               b == 2^k
    <2>1. a \in Nat /\ b \in Nat /\ b >= 1 /\ 2^l = a * b
      BY <1>4, <1>5
    <2> HIDE DEF a, b
    <2>2. 2 * (a * b) * job.split = (a * job.split) * (2 * b)
      BY <2>1, <1>1
    <2>3. a * job.split \in Nat /\ 2 * b \in Nat /\ 2 * b >= 1
      BY <2>1, <1>1
    <2>4. ((a * job.split) * (2 * b)) \div (2 * b) = a * job.split
      BY <2>3
    <2> QED BY <2>1, <2>2, <2>4, <1>8, <1>2 DEF a, b
  <1>10. data_size_batches = GroupStart(Groups)
    BY <1>9, <1>6, <1>5, <1>1 DEF data_size_batches, GroupStart
  <1>11. job.index <= 2^(MaxN - 1)
    <2>1. MaxN - 1 \in Nat /\ k <= MaxN - 1
      BY <1>1, <1>2
    <2> QED BY <2>1, <1>2, <1>3, PowersGrow
  <1> QED BY <1>1, <1>5, <1>6, <1>7, <1>10, <1>11

(* The batches and leaves of one more group.                               *)
LEMMA Counting ==
  ASSUME job \in Jobs, NEW g \in Nat
  PROVE  /\ GroupStart(g) \in Nat
         /\ GroupStart(0) = job.split
         /\ GroupStart(g + 1) = GroupStart(g) + job.split
         /\ GroupStart(g) >= job.split
         /\ FirstRow(g) \in Nat
         /\ FirstRow(0) = 0
         /\ FirstRow(g + 1) = FirstRow(g) + job.index
  <1>1. job.split \in 1..4 /\ job.index \in Nat
    BY JobFacts
  <1>2. FirstRow(g) \in Nat /\ FirstRow(0) = 0
        /\ FirstRow(g + 1) = FirstRow(g) + job.index
    BY <1>1 DEF FirstRow
  <1>3. ASSUME NEW s \in 1..4
        PROVE  /\ s * (g + 1) \in Nat /\ s * (0 + 1) = s
               /\ s * ((g + 1) + 1) = s * (g + 1) + s
               /\ s * (g + 1) >= s
    <2>1. s = 1 \/ s = 2 \/ s = 3 \/ s = 4
      OBVIOUS
    <2> QED BY <2>1
  <1> QED BY <1>1, <1>2, <1>3 DEF GroupStart

(* Later groups have later batches and later leaves.                       *)
LEMMA CountingOrdered ==
  ASSUME job \in Jobs, NEW g \in Nat, NEW h \in Nat, g <= h
  PROVE  GroupStart(g) <= GroupStart(h) /\ FirstRow(g) <= FirstRow(h)
  <1>1. job.split \in 1..4 /\ job.index \in Nat
    BY JobFacts
  <1>2. ASSUME NEW a \in Nat, NEW x \in Nat, NEW y \in Nat, x <= y
        PROVE  a * x <= a * y
    <2>1. a * y = a * x + a * (y - x) /\ y - x \in Nat /\ a * x \in Nat
      BY <1>2
    <2>2. a * (y - x) \in Nat
      BY <2>1
    <2> QED BY <2>1, <2>2
  <1>3. GroupStart(g) <= GroupStart(h)
    BY <1>1, <1>2, g + 1 <= h + 1, g + 1 \in Nat, h + 1 \in Nat DEF GroupStart
  <1>4. job.index * g <= job.index * h /\ job.index * g = g * job.index
        /\ job.index * h = h * job.index
    BY <1>1, <1>2
  <1>5. FirstRow(g) <= FirstRow(h)
    BY <1>4 DEF FirstRow
  <1> QED BY <1>3, <1>5

(* At the end of a round the start pulse of that round has long been used: *)
(* only the registers of the next one change, and the reader and the done  *)
(* signals stay.                                                           *)
LEMMA RoundRegisters ==
  ASSUME Round
  PROVE  /\ delay = 3 /\ ~start_pulse /\ start_pulse' /\ delay' = 0
         /\ job' = job
         /\ status' = status_nxt(rd = "idle") /\ n' = n_nxt(rd = "idle")
         /\ (stall' <=> stall_nxt) /\ (stall_s2' <=> stall_for_s2)
         /\ (stall_s4' <=> stall_for_s4) /\ (stall_s0s1s2' <=> hold_s0s1s2)
         /\ (stall_s3s4' <=> hold_s3s4)
         /\ s2_cnt' = s2_cnt /\ s4_cnt' = s4_cnt
         /\ s2_due = s2_cnt /\ s4_due = s4_cnt
         /\ rd' = rd /\ (rd # "idle" => batches' = batches)
         /\ done' = done
         /\ \A s \in Signals : ~o_start(s)
  <1>0. delay = 3 /\ ~start_pulse
    BY DEF Round, RoundsApart, all_stage_done, Registers
  <1>1. /\ delay = 3 /\ ~start_pulse
        /\ ControlClock(FALSE, rd = "idle")
        /\ ClockReader(FALSE) /\ ClockDone(FALSE)
        /\ job' = job
    BY <1>0, Zenon DEF Round, Tick, Clock
  <1>2. \A s \in Signals : ~o_start(s)
    BY <1>1 DEF o_start
  <1>3. ~o_start(0) /\ ~o_start(2) /\ ~o_start(4)
    BY <1>2 DEF Signals, Stages
  <1>4. start_pulse' /\ delay' = 0
    BY <1>1 DEF ControlClock, Round, Registers
  <1>5. status' = status_nxt(rd = "idle") /\ n' = n_nxt(rd = "idle")
    BY <1>1 DEF ControlClock, Round
  <1>6. /\ (stall' <=> stall_nxt) /\ (stall_s2' <=> stall_for_s2)
        /\ (stall_s4' <=> stall_for_s4) /\ (stall_s0s1s2' <=> hold_s0s1s2)
        /\ (stall_s3s4' <=> hold_s3s4)
    BY <1>1 DEF ControlClock, Round, ClockStalls
  <1>7. /\ s2_cnt' = s2_cnt /\ s4_cnt' = s4_cnt
        /\ s2_due = s2_cnt /\ s4_due = s4_cnt
    BY <1>1, <1>3 DEF ControlClock, ClockCounts, CountTo, s2_due, s4_due
  <1>8. done[0] \/ rd # "xfer" \/ ~status[0]
    BY DEF Round, ReaderRight, all_stage_done, Stages
  <1>9. rd = "halt" => done[0] /\ batches < data_size_batches
    BY DEF Round, ReaderRight, all_stage_done, Stages
  <1>10. data_size_batches \in Nat
    BY JobFacts, Counting DEF Round, Registers
  <1>11. rd' = rd /\ (rd # "idle" => batches' = batches)
    BY <1>1, <1>3, <1>9, <1>10, SMTT(60) DEF ClockReader, Round, Registers
  <1>12. done' = done
    <2>1. \A s \in Signals \ {0} : done'[s] = done[s]
      BY <1>1, <1>2 DEF ClockDone, Round, Registers
    <2>2. rd # "xfer" => done[0]
      BY <1>9 DEF Round, RoundsApart, Registers, all_stage_done, Stages
    <2>3. done'[0] = done[0]
      BY <1>1, <1>3, <2>2 DEF ClockDone, Round, Registers, ReaderRight, Signals, Stages
    <2>4. DOMAIN done = Signals /\ done' = [s \in Signals |-> done'[s]]
          /\ done = [s \in Signals |-> done[s]]
      BY <1>1 DEF ClockDone, Round, Registers
    <2> QED BY <2>1, <2>3, <2>4
  <1> QED BY <1>1, <1>2, <1>4, <1>5, <1>6, <1>7, <1>11, <1>12

(* A batch number belongs to one group.                                    *)
LEMMA GroupUnique ==
  ASSUME job \in Jobs, NEW g \in Nat, NEW h \in Nat, NEW r \in Nat,
         r < job.split, GroupStart(g) + r = GroupStart(h)
  PROVE  r = 0 /\ g = h
  <1>1. /\ GroupStart(g) \in Nat /\ GroupStart(h) \in Nat
        /\ GroupStart(g + 1) = GroupStart(g) + job.split
        /\ GroupStart(h + 1) = GroupStart(h) + job.split
        /\ job.split \in Nat
    BY Counting, JobFacts
  <1>2. CASE g < h
    <2>1. GroupStart(g + 1) <= GroupStart(h)
      BY <1>2, CountingOrdered
    <2> QED BY <1>1, <2>1
  <1>3. CASE h < g
    <2>1. GroupStart(h + 1) <= GroupStart(g)
      BY <1>3, CountingOrdered
    <2> QED BY <1>1, <2>1, job.split >= 1, JobFacts
  <1>4. CASE g = h
    BY <1>1, <1>4
  <1> QED BY <1>2, <1>3, <1>4

(* How a round moves stages 0 to 4, and which of them it starts.           *)
LEMMA RoundMoves ==
  ASSUME Round
  PROVE  /\ status'[0] <=> (IF frozen THEN status[0] ELSE rd # "idle")
         /\ status'[1] <=> (IF frozen THEN status[1] ELSE status[0])
         /\ status'[2] <=> (IF frozen THEN status[2] ELSE status[1])
         /\ status'[3] <=> (IF hold_s3s4 \/ stall_for_s4 \/ stall_for_s2
                         THEN status[3] ELSE status[2] /\ ~write_uram)
         /\ status'[4] <=> (IF hold_s3s4 \/ stall_for_s2
                         THEN stall_nxt /\ status[4] ELSE status[3])
         /\ o_start(0)' <=> (status'[0] /\ ~frozen)
         /\ o_start(2)' <=> (status'[2] /\ ~frozen /\ ~write_uram')
         /\ o_start(4)' <=> (status'[4] /\ ~hold_s3s4 /\ ~stall_for_s2)
  <1>1. status' = status_nxt(rd = "idle")
    BY RoundRegisters
  <1>2. /\ status'[0] <=> (IF frozen THEN status[0] ELSE ~(rd = "idle"))
        /\ status'[1] <=> (IF frozen THEN status[1] ELSE status[0])
        /\ status'[2] <=> (IF frozen THEN status[2] ELSE status[1])
        /\ status'[3] <=> (IF hold_s3s4 \/ stall_for_s4 \/ stall_for_s2
                        THEN status[3] ELSE status[2] /\ ~write_uram)
        /\ status'[4] <=> (IF hold_s3s4 \/ stall_for_s2
                        THEN stall_nxt /\ status[4] ELSE status[3])
    BY <1>1, StatusMoves
  <1>3. /\ start_pulse' /\ (stall_s2' <=> stall_for_s2)
        /\ (stall_s4' <=> stall_for_s4) /\ (stall_s0s1s2' <=> hold_s0s1s2)
        /\ (stall_s3s4' <=> hold_s3s4)
    BY RoundRegisters
  <1>4. o_start(0)' <=> (status'[0] /\ ~frozen)
    BY <1>3 DEF o_start, frozen, WrUram
  <1>5. o_start(2)' <=> (status'[2] /\ ~frozen /\ ~write_uram')
    BY <1>3 DEF o_start, frozen, WrUram
  <1>6. o_start(4)' <=> (status'[4] /\ ~hold_s3s4 /\ ~stall_for_s2)
    BY <1>3 DEF o_start, WrUram
  <1> QED BY <1>2, <1>4, <1>5, <1>6

(* A round takes in the batch that was read, unless the front is held.     *)
LEMMA RoundEntered ==
  ASSUME Round
  PROVE  /\ Entered' = Entered + Num(~frozen /\ rd # "idle")
         /\ Entered \in 0..data_size_batches
         /\ data_size_batches' = data_size_batches /\ data_size_batches \in Nat
         /\ rd = "xfer" => Entered = 0 /\ ~status[0]
         /\ rd = "halt" => status[0]
  <1>1. /\ ~o_start(0) /\ rd' = rd /\ (rd # "idle" => batches' = batches)
        /\ job' = job
    BY RoundRegisters DEF Signals, Stages
  <1>2. data_size_batches' = data_size_batches
    BY <1>1 DEF data_size_batches
  <1>3. data_size_batches \in Nat
    BY JobFacts, Counting DEF Round, Registers
  <1>4. rd = "xfer" => ~status[0] /\ batches = 0
    BY DEF Round, ReaderRight, all_stage_done, Stages, Registers
  <1>5. rd = "halt" => status[0] /\ batches \in 0..data_size_batches
    BY DEF Round, ReaderRight, Registers
  <1>6. rd \in {"idle", "xfer", "halt"} /\ batches \in Nat
    BY DEF Round, Registers
  <1>7. /\ status'[0] <=> (IF frozen THEN status[0] ELSE rd # "idle")
        /\ o_start(0)' <=> (status'[0] /\ ~frozen)
    BY RoundMoves
  <1>8. Entered \in 0..data_size_batches
    BY <1>1, <1>3, <1>4, <1>5, <1>6 DEF Entered, Num
  <1>9. Entered' = Entered + Num(~frozen /\ rd # "idle")
    <2>1. CASE rd = "idle"
      BY <2>1, <1>1, <1>2, <1>3 DEF Entered, Num
    <2>2. CASE rd = "xfer"
      BY <2>2, <1>1, <1>4, <1>6, <1>7 DEF Entered, Num
    <2>3. CASE rd = "halt"
      BY <2>3, <1>1, <1>5, <1>6, <1>7 DEF Entered, Num
    <2> QED BY <2>1, <2>2, <2>3, <1>6
  <1>10. rd = "xfer" => Entered = 0 /\ ~status[0]
    BY <1>1, <1>4 DEF Entered, Num
  <1> QED BY <1>2, <1>3, <1>5, <1>8, <1>9, <1>10

(* A round that is not held moves the batch of stage 2 on, and opens no    *)
(* gap.                                                                    *)
LEMMA RoundPassed ==
  ASSUME Round, NoBubble
  PROVE  /\ Passed' = IF frozen THEN Passed ELSE Passed + Num(status[2])
         /\ NoBubble'
  <1>1. /\ Entered' = Entered + Num(~frozen /\ rd # "idle")
        /\ Entered \in 0..data_size_batches
        /\ data_size_batches' = data_size_batches /\ data_size_batches \in Nat
        /\ rd = "xfer" => Entered = 0 /\ ~status[0]
        /\ rd = "halt" => status[0]
    BY RoundEntered
  <1>2. /\ status'[0] <=> (IF frozen THEN status[0] ELSE rd # "idle")
        /\ status'[1] <=> (IF frozen THEN status[1] ELSE status[0])
        /\ status'[2] <=> (IF frozen THEN status[2] ELSE status[1])
    BY RoundMoves
  <1>3. rd' = rd /\ rd \in {"idle", "xfer", "halt"}
    BY RoundRegisters DEF Round, Registers
  <1>4. Passed' = IF frozen THEN Passed ELSE Passed + Num(status[2])
    BY <1>1, <1>2 DEF Passed, Num
  <1>5. Passed \in 0..data_size_batches
    BY DEF NoBubble
  <1>6. CASE frozen
    BY <1>1, <1>2, <1>3, <1>4, <1>6 DEF NoBubble, Num
  <1>7. CASE ~frozen
    <2>1. Passed' \in 0..data_size_batches
      BY <1>1, <1>4, <1>5, <1>7 DEF Passed, Num
    <2>2. status'[1] \/ Entered' = Num(status'[0]) \/ (~status'[0] /\ rd' = "idle")
      BY <1>1, <1>2, <1>3, <1>7 DEF Num
    <2>3. \/ status'[2]
          \/ Entered' = Num(status'[0]) + Num(status'[1])
          \/ ~status'[0] /\ ~status'[1] /\ rd' = "idle"
      BY <1>1, <1>2, <1>3, <1>7 DEF Num, NoBubble
    <2> QED BY <1>1, <1>4, <2>1, <2>2, <2>3 DEF NoBubble
  <1> QED BY <1>4, <1>6, <1>7

(* How a round counts the splits of the vector.                            *)
LEMMA RoundVector ==
  ASSUME Round
  PROVE  /\ write_uram' <=> write_uram /\ ~(status[2] /\ write_uram_cnt = job.split - 1)
         /\ write_uram_cnt' = IF write_uram /\ status[2]
                              THEN IF write_uram_cnt = job.split - 1 THEN 0
                                   ELSE write_uram_cnt + 1
                              ELSE write_uram_cnt
  <1>1. (all_stage_done /\ done[WrUram] /\ status[2]) <=> status[2]
    BY DEF Round, all_stage_done
  <1>2. ClockCounts(FALSE)
    BY Zenon DEF Round, Tick, Clock, ControlClock
  <1> QED BY <1>1, <1>2 DEF ClockCounts, CountTo

(* How a round counts the batches of a group and the leaves of a group.    *)
LEMMA RoundDue ==
  ASSUME Round
  PROVE  /\ s2_due' = IF status'[2] /\ ~frozen /\ ~write_uram'
                      THEN IF s2_cnt = job.split - 1 THEN 0 ELSE s2_cnt + 1
                      ELSE s2_cnt
         /\ s4_due' = IF status'[4] /\ ~hold_s3s4 /\ ~stall_for_s2
                      THEN IF s4_cnt = job.index - 1 THEN 0 ELSE s4_cnt + 1
                      ELSE s4_cnt
  <1>1. s2_cnt' = s2_cnt /\ s4_cnt' = s4_cnt /\ job' = job
    BY RoundRegisters
  <1>2. /\ o_start(2)' <=> (status'[2] /\ ~frozen /\ ~write_uram')
        /\ o_start(4)' <=> (status'[4] /\ ~hold_s3s4 /\ ~stall_for_s2)
    BY RoundMoves
  <1> QED BY <1>1, <1>2 DEF s2_due, s4_due, CountTo

(* Nothing holds the front while the vector is read.                       *)
LEMMA VectorFirst ==
  ASSUME Round, NEW g \in Nat, NEW q \in Nat, GroupsInOrder(g, q),
         Taken(g) >= 0, write_uram
  PROVE  ~status[3] /\ ~status[4] /\ ~frozen /\ ~hold_s3s4 /\ ~stall_for_s2
         /\ s4_due = 0 /\ Taken(g) = 0 /\ g = 0 /\ q = 0
  <1>1. g = 0 /\ q = 0 /\ ~status[3] /\ s4_due = 0
    BY DEF GroupsInOrder
  <1>2. g - Num(status[3]) = 0
    <2>1. Num(status[3]) = 0
      BY <1>1 DEF Num
    <2> QED BY <1>1, <2>1
  <1>3. FirstRow(g - Num(status[3])) = 0
    <2>1. FirstRow(0) = 0
      BY Counting DEF Round, Registers
    <2> QED BY <2>1, <1>2
  <1>4. ~status[4] /\ Taken(g) = 0
    BY <1>1, <1>3 DEF Taken, Extracted, Num
  <1>5. s2_cnt = 0
    BY RoundRegisters DEF GroupsInOrder
  <1> QED BY <1>1, <1>4, <1>5 DEF frozen, hold_s3s4, hold_s0s1s2, stall_for_s4, stall_for_s2

(* When no batch is left, the last group is complete.                      *)
LEMMA LastGroup ==
  ASSUME Registers, NoBubble, NEW g \in Nat, NEW q \in Nat, GroupsInOrder(g, q),
         ~write_uram
  PROVE  /\ ~status[2] => q = 0
         /\ status[2] /\ ~status[1] /\ q # job.split - 1 => FALSE
  <1>1. /\ data_size_batches = GroupStart(Groups) /\ Groups \in Nat
        /\ job.split \in 1..4 /\ job \in Jobs
    BY JobFacts DEF Registers
  <1>2. /\ Passed = GroupStart(g) + q /\ q < job.split /\ ~(Passed < job.split)
        /\ GroupStart(g) \in Nat /\ GroupStart(Groups) \in Nat
    BY <1>1, Counting DEF GroupsInOrder
  <1>3. ~status[2] => q = 0
    <2> SUFFICES ASSUME ~status[2] PROVE q = 0
      OBVIOUS
    <2>1. ~status[0] /\ ~status[1] /\ rd = "idle"
      BY <1>1, <1>2 DEF NoBubble, Passed, Num
    <2>2. Passed = GroupStart(Groups)
      BY <2>1, <1>1, <1>2 DEF Passed, Num, Entered
    <2> QED BY <2>2, <1>1, <1>2, GroupUnique
  <1>4. status[2] /\ ~status[1] /\ q # job.split - 1 => FALSE
    <2> SUFFICES ASSUME status[2], ~status[1], q # job.split - 1 PROVE FALSE
      OBVIOUS
    <2>1. ~status[0] /\ rd = "idle"
      BY <1>1, <1>2 DEF NoBubble, Passed, Num
    <2>2. Passed + 1 = GroupStart(Groups)
      BY <2>1, <1>1, <1>2 DEF Passed, Num, Entered
    <2>3. q + 1 \in Nat /\ q + 1 < job.split /\ GroupStart(g) + (q + 1) = GroupStart(Groups)
      BY <2>2, <1>1, <1>2
    <2>4. q + 1 = 0
      BY <2>3, <1>1, GroupUnique
    <2> QED BY <2>4
  <1> QED BY <1>3, <1>4

(* The leaves in the tree after a round, from the registers.               *)
LEMMA RoundTaken ==
  ASSUME Round, NEW h \in Nat, NEW j \in Nat, j = h - Num(status'[3])
  PROVE  Taken(h)' = (FirstRow(j) + s4_due') - Num(status'[4])
  <1>1. job' = job
    BY RoundRegisters
  <1>2. Taken(h)' = (((h - Num(status'[3])) * job'.index) + s4_due') - Num(status'[4])
    BY Zenon DEF Taken, Extracted, FirstRow
  <1> QED BY <1>1, <1>2 DEF FirstRow

(* A round keeps the order of batches, groups and leaves, and one more     *)
(* leaf is in the tree exactly if it moves.  This is where the three holds *)
(* and the two counters of the front have to agree: a batch multiplied     *)
(* twice, a group extracted before it is complete or a leaf dropped in a   *)
(* stall would break it.                                                   *)
LEMMA RoundFront ==
  ASSUME Round, NoBubble, NEW g \in Nat, NEW q \in Nat, GroupsInOrder(g, q),
         Taken(g) >= 0
  PROVE  \E g2, q2 \in Nat : /\ GroupsInOrder(g2, q2)'
                             /\ Taken(g2)' = Taken(g) + Num(LeafMoves)
  <1>1. /\ status'[2] <=> (IF frozen THEN status[2] ELSE status[1])
        /\ status'[3] <=> (IF hold_s3s4 \/ stall_for_s4 \/ stall_for_s2
                          THEN status[3] ELSE status[2] /\ ~write_uram)
        /\ status'[4] <=> (IF hold_s3s4 \/ stall_for_s2
                          THEN stall_nxt /\ status[4] ELSE status[3])
    BY RoundMoves
  <1>2. /\ s2_due' = IF status'[2] /\ ~frozen /\ ~write_uram'
                     THEN IF s2_cnt = job.split - 1 THEN 0 ELSE s2_cnt + 1
                     ELSE s2_cnt
        /\ s4_due' = IF status'[4] /\ ~hold_s3s4 /\ ~stall_for_s2
                     THEN IF s4_cnt = job.index - 1 THEN 0 ELSE s4_cnt + 1
                     ELSE s4_cnt
    BY RoundDue
  <1>3. /\ write_uram' <=> write_uram /\ ~(status[2] /\ write_uram_cnt = job.split - 1)
        /\ write_uram_cnt' = IF write_uram /\ status[2]
                             THEN IF write_uram_cnt = job.split - 1 THEN 0
                                  ELSE write_uram_cnt + 1
                             ELSE write_uram_cnt
    BY RoundVector
  <1>4. Passed' = IF frozen THEN Passed ELSE Passed + Num(status[2])
    BY RoundPassed
  <1>5. /\ s2_due = s2_cnt /\ s4_due = s4_cnt /\ job' = job
        /\ job.split \in 1..4 /\ job.index \in Nat /\ job.index >= 1
        /\ job.split = 1 \/ job.index = 1
        /\ s2_cnt \in 0..(job.split - 1) /\ s4_cnt \in 0..(job.index - 1)
        /\ job \in Jobs
    BY RoundRegisters, JobFacts DEF Round, Registers
  <1>6. /\ q < job.split
        /\ write_uram <=> Passed < job.split
        /\ write_uram_cnt = IF write_uram THEN Passed ELSE 0
        /\ IF write_uram THEN g = 0 /\ q = 0 ELSE Passed = GroupStart(g) + q
        /\ s2_due = IF write_uram \/ ~status[2] \/ q = job.split - 1
                    THEN 0 ELSE q + 1
        /\ status[3] => g >= 1
        /\ ~status[3] => s4_due = 0
        /\ Passed \in Nat
    BY DEF GroupsInOrder, NoBubble
  <1>7. ASSUME NEW h \in Nat
        PROVE  /\ GroupStart(h)' = GroupStart(h)
               /\ FirstRow(h)' = FirstRow(h) /\ FirstRow(h) \in Nat
               /\ GroupStart(h) \in Nat /\ GroupStart(h) >= job.split
               /\ GroupStart(h + 1) = GroupStart(h) + job.split
               /\ FirstRow(h + 1) = FirstRow(h) + job.index
               /\ GroupStart(0) = job.split
    BY <1>5, Counting DEF GroupStart, FirstRow
  <1>8. CASE write_uram
    <2>1. /\ ~status[3] /\ ~status[4] /\ ~frozen /\ ~hold_s3s4 /\ ~stall_for_s2
          /\ s4_due = 0 /\ Taken(g) = 0 /\ g = 0 /\ q = 0
      BY <1>8, VectorFirst
    <2>2. ~status'[3] /\ ~status'[4] /\ s4_due' = 0 /\ s2_cnt = 0
      BY <1>1, <1>2, <1>5, <1>6, <1>8, <2>1 DEF frozen
    <2>3. Passed' = Passed + Num(status[2]) /\ Passed < job.split
      BY <1>4, <1>6, <1>8, <2>1
    <2>4. write_uram' <=> Passed' < job.split
      BY <1>3, <1>5, <1>6, <1>8, <2>3 DEF Num
    <2>5. write_uram_cnt' = IF write_uram' THEN Passed' ELSE 0
      BY <1>3, <1>5, <1>6, <1>8, <2>3 DEF Num
    <2>6. ~write_uram' => Passed' = GroupStart(0) + 0
      <3>1. GroupStart(0) = job.split /\ Num(status[2]) \in {0, 1}
        BY <1>7 DEF Num
      <3>2. Passed' <= job.split
        BY <3>1, <2>3, <1>5, <1>6
      <3> QED BY <3>1, <3>2, <1>5, <1>6, <2>3, <2>4
    <2>7. s2_due' = IF write_uram' \/ ~status'[2] \/ 0 = job.split - 1
                    THEN 0 ELSE 0 + 1
      BY <1>2, <1>5, <2>1, <2>2
    <2>8. GroupStart(0)' = GroupStart(0)
      BY <1>7
    <2>9. GroupsInOrder(0, 0)'
      BY <1>5, <2>2, <2>4, <2>5, <2>6, <2>7, <2>8 DEF GroupsInOrder
    <2>10. Taken(0)' = 0
      <3>0. Num(status'[3]) = 0 /\ Num(status'[4]) = 0
        BY <2>2 DEF Num
      <3>1. 0 - Num(status'[3]) = 0 /\ Num(status'[4]) = 0
        BY <3>0
      <3>2. FirstRow(0)' = 0
        BY <1>5, <1>7, Counting
      <3> QED BY <3>1, <3>2, <2>2 DEF Taken, Extracted
    <2>11. Num(LeafMoves) = 0
      BY <2>1 DEF LeafMoves, Num
    <2> QED BY <2>1, <2>9, <2>10, <2>11
  <1> DEFINE k == g - Num(status[3])
  <1>9. /\ k = g - Num(status[3]) /\ k \in Nat /\ Extracted(g) = FirstRow(k) + s4_due
        /\ Taken(g) = Extracted(g) - Num(status[4])
        /\ Extracted(g) \in Nat
    <2>1. k \in Nat
      BY <1>6 DEF Num
    <2>2. FirstRow(k) \in Nat
      BY <2>1, <1>7
    <2> QED BY <2>1, <2>2, <1>5 DEF Extracted, Taken
  <1> HIDE DEF k
  <1>10. CASE frozen
    <2>1. ~write_uram
      BY <1>10, VectorFirst
    <2>2. ~write_uram' /\ write_uram_cnt' = 0 /\ Passed' = Passed
          /\ s2_due' = s2_due /\ (status'[2] <=> status[2])
      BY <1>1, <1>2, <1>3, <1>4, <1>5, <1>6, <1>10, <2>1
    <2>3. status'[3] <=> status[3]
      BY <1>1, <1>10 DEF frozen, hold_s0s1s2, hold_s3s4
    <2>4. ~status[3] => s4_due' = 0
      BY <1>1, <1>2, <1>5, <1>6, <1>10
         DEF frozen, hold_s0s1s2, hold_s3s4, stall_for_s4
    <2>5. GroupStart(g)' = GroupStart(g)
      BY <1>7
    <2>6. GroupsInOrder(g, q)'
      BY <1>5, <1>6, <2>1, <2>2, <2>3, <2>4, <2>5 DEF GroupsInOrder
    <2>7. Taken(g)' = (FirstRow(k) + s4_due') - Num(status'[4])
      <3>1. Num(status'[3]) = Num(status[3])
        BY <2>3 DEF Num
      <3> QED BY <3>1, <1>9, RoundTaken
    <2>8. Taken(g)' = Taken(g) + Num(LeafMoves)
      <3>1. CASE stall_for_s4 /\ ~hold_s3s4
        <4>1. ~stall_for_s2 /\ s4_cnt # job.index - 1 /\ status[3]
          BY <3>1, <1>5 DEF stall_for_s4, stall_for_s2
        <4>2. status'[4] /\ s4_due' = s4_due + 1
          BY <1>1, <1>2, <1>5, <3>1, <4>1
        <4>3. LeafMoves <=> status[4]
          BY <3>1 DEF LeafMoves, hold_s3s4
        <4>4. Num(status'[4]) = 1 /\ Num(LeafMoves) = Num(status[4])
          BY <4>2, <4>3 DEF Num
        <4>5. Num(status[4]) \in {0, 1} /\ FirstRow(k) \in Nat /\ s4_due \in Nat
          BY <1>5, <1>7, <1>9 DEF Num
        <4> QED BY <4>2, <4>4, <4>5, <1>9, <2>7
      <3>2. CASE hold_s3s4
        <4>1. stall_nxt /\ status[4] /\ status'[4] /\ s4_due' = s4_due /\ ~LeafMoves
          BY <1>1, <1>2, <1>5, <3>2 DEF hold_s3s4, LeafMoves
        <4>2. Num(status'[4]) = 1 /\ Num(status[4]) = 1 /\ Num(LeafMoves) = 0
          BY <4>1 DEF Num
        <4>5. FirstRow(k) \in Nat /\ s4_due \in Nat
          BY <1>5, <1>7, <1>9
        <4> QED BY <4>1, <4>2, <4>5, <1>9, <2>7
      <3> QED BY <3>1, <3>2, <1>10 DEF frozen, hold_s0s1s2, hold_s3s4
    <2> QED BY <2>6, <2>8
  <1>11. CASE ~frozen /\ ~write_uram /\ stall_for_s2
    <2>1. /\ status[2] /\ q # job.split - 1 /\ s2_cnt = q + 1
          /\ q + 1 < job.split
      BY <1>5, <1>6, <1>11 DEF stall_for_s2
    <2>2. status[1]
      BY <1>11, <2>1, LastGroup DEF Round
    <2>3. ~write_uram' /\ write_uram_cnt' = 0 /\ Passed' = Passed + 1 /\ status'[2]
      BY <1>1, <1>3, <1>4, <1>6, <1>11, <2>1, <2>2 DEF Num
    <2>4. s2_due' = IF q + 1 = job.split - 1 THEN 0 ELSE (q + 1) + 1
      BY <1>2, <1>11, <2>1, <2>3
    <2>5. (status'[3] <=> status[3]) /\ (status'[4] <=> stall_nxt /\ status[4])
          /\ s4_due' = s4_due
      BY <1>1, <1>2, <1>5, <1>11
    <2>6. GroupStart(g)' = GroupStart(g) /\ GroupStart(g) \in Nat
      BY <1>7
    <2>7. GroupsInOrder(g, q + 1)'
      BY <1>5, <1>6, <1>11, <2>1, <2>3, <2>4, <2>5, <2>6 DEF GroupsInOrder
    <2>8. Taken(g)' = (FirstRow(k) + s4_due') - Num(status'[4])
      <3>1. Num(status'[3]) = Num(status[3])
        BY <2>5 DEF Num
      <3> QED BY <3>1, <1>9, RoundTaken
    <2>9. Taken(g)' = Taken(g) + Num(LeafMoves)
      <3>1. Num(status'[4]) = Num(status[4]) - Num(LeafMoves)
        BY <2>5 DEF Num, LeafMoves
      <3>2. /\ Num(status[4]) \in {0, 1} /\ Num(LeafMoves) \in {0, 1}
            /\ Extracted(g) \in Nat
        BY <1>9 DEF Num
      <3> QED BY <3>1, <3>2, <2>5, <2>8, <1>9
    <2> QED BY <2>7, <2>9
  <1>12. CASE ~frozen /\ ~write_uram /\ ~stall_for_s2
    <2>1. /\ ~hold_s3s4 /\ ~stall_for_s4 /\ s2_cnt = s2_due
          /\ (status[2] => q = job.split - 1 /\ s2_cnt = 0)
      BY <1>5, <1>6, <1>12 DEF frozen, hold_s3s4, hold_s0s1s2, stall_for_s2
    <2>2. ~status[2] => q = 0 /\ s2_cnt = 0
      BY <1>5, <1>6, <1>12, LastGroup DEF Round
    <2>3. (status'[3] <=> status[2]) /\ (status'[4] <=> status[3])
      BY <1>1, <1>12, <2>1
    <2>4. ~write_uram' /\ write_uram_cnt' = 0 /\ Passed' = Passed + Num(status[2])
      BY <1>3, <1>4, <1>6, <1>12
    <2>5. PICK g2 \in Nat : g2 = g + Num(status[2])
      BY DEF Num
    <2>6. Passed' = GroupStart(g2) + 0 /\ (status[2] => g2 >= 1)
      <3>1. GroupStart(g + 1) = GroupStart(g) + job.split /\ GroupStart(g) \in Nat
        BY <1>7
      <3>2. CASE status[2]
        <4>1. Num(status[2]) = 1
          BY <3>2 DEF Num
        <4>2. g2 = g + 1
          BY <4>1, <2>5
        <4> QED BY <3>1, <3>2, <4>1, <4>2, <1>5, <1>6, <1>12, <2>1, <2>4
      <3>3. CASE ~status[2]
        <4>1. Num(status[2]) = 0
          BY <3>3 DEF Num
        <4>2. g2 = g
          BY <4>1, <2>5
        <4> QED BY <3>1, <3>3, <4>1, <4>2, <1>5, <1>6, <1>12, <2>2, <2>4
      <3> QED BY <3>2, <3>3
    <2>7. s2_cnt = 0
      BY <2>1, <2>2
    <2>8. s2_due' = IF write_uram' \/ ~status'[2] \/ 0 = job.split - 1
                    THEN 0 ELSE 0 + 1
      BY <1>2, <1>5, <1>12, <2>4, <2>7
    <2>9. /\ status[3] => s4_cnt = job.index - 1
          /\ ~status[3] => s4_cnt = 0
      BY <2>1, <1>5, <1>6 DEF stall_for_s4
    <2>10. s4_due' = 0
      BY <1>2, <1>5, <1>12, <2>1, <2>3, <2>9
    <2>11. GroupsInOrder(g2, 0)'
      <3>1. GroupStart(g2)' = GroupStart(g2) /\ GroupStart(g2) \in Nat
            /\ GroupStart(g2) >= job.split
        BY <1>7
      <3> QED BY <3>1, <1>5, <2>3, <2>4, <2>6, <2>8, <2>10 DEF GroupsInOrder
    <2>12. Taken(g2)' = (FirstRow(g) + s4_due') - Num(status'[4])
      <3>1. Num(status'[3]) = Num(status[2]) /\ Num(status[2]) \in {0, 1}
        BY <2>3 DEF Num
      <3>2. g = g2 - Num(status'[3])
        BY <3>1, <2>5
      <3> QED BY <3>2, RoundTaken
    <2>13. FirstRow(g) = FirstRow(k) + s4_due + Num(status[3])
      <3>1. CASE status[3]
        <4>1. Num(status[3]) = 1
          BY <3>1 DEF Num
        <4>2. g = k + 1
          BY <4>1, <1>9
        <4>3. FirstRow(k + 1) = FirstRow(k) + job.index /\ FirstRow(k) \in Nat
          BY <1>7, <1>9
        <4>4. s4_due = job.index - 1
          BY <3>1, <2>9, <1>5
        <4>5. FirstRow(g) = FirstRow(k + 1)
          BY <4>2, Zenon
        <4> QED BY <4>1, <4>3, <4>4, <4>5, <1>5
      <3>2. CASE ~status[3]
        <4>1. Num(status[3]) = 0
          BY <3>2 DEF Num
        <4>2. g = k
          BY <4>1, <1>9
        <4>3. FirstRow(k) \in Nat
          BY <1>7, <1>9
        <4>4. s4_due = 0
          BY <3>2, <2>9, <1>5
        <4>5. FirstRow(g) = FirstRow(k)
          BY <4>2, Zenon
        <4> QED BY <4>1, <4>3, <4>4, <4>5
      <3> QED BY <3>1, <3>2
    <2>14. Taken(g2)' = Taken(g) + Num(LeafMoves)
      <3>1. LeafMoves <=> status[4]
        BY <2>1 DEF LeafMoves, hold_s3s4
      <3>2. Num(LeafMoves) = Num(status[4]) /\ Num(status'[4]) = Num(status[3])
        BY <3>1, <2>3 DEF Num
      <3>3. Num(status[4]) \in {0, 1} /\ Num(status[3]) \in {0, 1}
            /\ FirstRow(k) \in Nat /\ s4_due \in Nat
        BY <1>5, <1>7, <1>9 DEF Num
      <3> QED BY <3>2, <3>3, <2>10, <2>12, <2>13, <1>9
    <2> QED BY <2>11, <2>14
  <1> QED BY <1>8, <1>10, <1>11, <1>12

-----------------------------------------------------------------------------
(* The numbers of blocks                                                   *)

(* With twice as many blocks at each level as at the next, there are 2^d   *)
(* times as many d levels below.                                           *)
LEMMA Doubling ==
  ASSUME NEW L \in Nat, NEW c \in [1..L -> Nat],
         \A k \in 1..(L - 1) : c[k] >= 2 * c[k + 1],
         NEW i \in 1..L, NEW d \in Nat, i + d <= L
  PROVE  c[i] >= 2^d * c[i + d]
  <1> DEFINE T == {e \in Nat : i + e <= L /\ ~(c[i] >= 2^e * c[i + e])}
  <1> SUFFICES ASSUME T # {} PROVE FALSE
    OBVIOUS
  <1>1. PICK e \in T : \A f \in T : e <= f
    BY LeastNatural
  <1>2. e # 0
    <2>1. ASSUME e = 0 PROVE c[i] >= 2^e * c[i + e]
      <3>1. 2^e = 1 /\ i + e = i /\ c[i] \in Nat
        BY <2>1, PowerZero
      <3> QED BY <3>1
    <2> QED BY <1>1, <2>1
  <1>3. e - 1 \in Nat /\ i + (e - 1) <= L /\ i + (e - 1) \in 1..(L - 1) /\ e - 1 \notin T
    BY <1>1, <1>2
  <1>4. c[i] >= 2^(e - 1) * c[i + (e - 1)]
    BY <1>3
  <1>5. c[i + (e - 1)] >= 2 * c[i + e]
    <2>1. (i + (e - 1)) + 1 = i + e
      BY <1>1
    <2> QED BY <1>3, <2>1
  <1>6. 2^e = 2 * 2^(e - 1) /\ 2^(e - 1) \in Nat
    BY <1>1, <1>2, <1>3, PowerBefore, NatPower
  <1> DEFINE p == 2^(e - 1)
             x == c[i + (e - 1)]
             y == c[i + e]
  <1>7. p \in Nat /\ x \in Nat /\ y \in Nat /\ x >= 2 * y /\ c[i] >= p * x /\ c[i] \in Nat
    BY <1>1, <1>3, <1>4, <1>5, <1>6
  <1>8. ~(c[i] >= (2 * p) * y)
    BY <1>1, <1>6
  <1> HIDE DEF p, x, y
  <1>9. p * x >= p * (2 * y)
    <2>1. p * x = p * (2 * y) + p * (x - 2 * y)
      BY <1>7
    <2>2. x - 2 * y \in Nat
      BY <1>7
    <2>3. p * (x - 2 * y) \in Nat /\ p * (2 * y) \in Nat
      BY <1>7, <2>2
    <2> QED BY <2>1, <2>3
  <1>10. p * (2 * y) = (2 * p) * y /\ p * (2 * y) \in Nat /\ p * x \in Nat
    BY <1>7
  <1> DEFINE u == p * x
             v == p * (2 * y)
  <1>11. c[i] \in Nat /\ u \in Nat /\ v \in Nat /\ c[i] >= u /\ u >= v /\ ~(c[i] >= v)
    BY <1>7, <1>8, <1>9, <1>10
  <1> HIDE DEF u, v
  <1> QED BY <1>11

(* Of 2^(L-1) leaves at most one block of level L can be made, and when it *)
(* is made no other block is left.                                         *)
LEMMA RootAlone ==
  ASSUME NEW L \in Nat, L >= 1, NEW c \in [1..L -> Nat], NEW x \in [1..(L - 1) -> Nat],
         \A k \in 1..(L - 1) : c[k] = x[k] + 2 * c[k + 1],
         c[1] <= 2^(L - 1)
  PROVE  /\ c[L] <= 1
         /\ c[L] = 1 => c[1] = 2^(L - 1) /\ \A k \in 1..(L - 1) : x[k] = 0
  <1>1. \A k \in 1..(L - 1) : c[k] \in Nat /\ x[k] \in Nat /\ c[k + 1] \in Nat
    OBVIOUS
  <1>2. \A k \in 1..(L - 1) : c[k] >= 2 * c[k + 1]
    BY <1>1
  <1>3. ASSUME NEW i \in 1..L, NEW j \in 1..L, i <= j
        PROVE  c[i] >= 2^(j - i) * c[j]
    <2>1. j - i \in Nat /\ i + (j - i) = j /\ i + (j - i) <= L
      BY <1>3
    <2>2. c[i] >= 2^(j - i) * c[i + (j - i)]
      BY <1>2, <2>1, Doubling, Zenon
    <2> QED BY <2>1, <2>2, Zenon
  <1>4. 2^(L - 1) \in Nat /\ 2^(L - 1) >= 1
    BY NatPower
  <1>5. c[1] >= 2^(L - 1) * c[L] /\ c[1] \in Nat /\ c[L] \in Nat
    <2>1. 1 \in 1..L /\ L \in 1..L /\ 1 <= L
      OBVIOUS
    <2>2. c[1] >= 2^(L - 1) * c[L]
      BY <2>1, <1>3, Zenon
    <2> QED BY <2>1, <2>2
  <1>6. c[L] <= 1
    <2> DEFINE p == 2^(L - 1)
               r == c[L]
    <2>0. p \in Nat /\ p >= 1 /\ r \in Nat /\ c[1] >= p * r /\ c[1] <= p
          /\ c[1] \in Nat
      BY <1>4, <1>5
    <2> HIDE DEF p, r
    <2> DEFINE v == p * r
    <2>a. v \in Nat /\ c[1] >= v
      BY <2>0
    <2> HIDE DEF v
    <2>b. v <= p
      BY <2>0, <2>a
    <2>1. p \in Nat /\ p >= 1 /\ r \in Nat /\ p * r <= p
      BY <2>0, <2>b DEF v
    <2>2. SUFFICES ASSUME r >= 2 PROVE FALSE
      BY <2>1 DEF r
    <2>3. p * r = p * 2 + p * (r - 2) /\ r - 2 \in Nat
      BY <2>1, <2>2
    <2>4. p * (r - 2) \in Nat
      BY <2>1, <2>3
    <2> QED BY <2>1, <2>3, <2>4
  <1>7. ASSUME c[L] = 1 PROVE c[1] = 2^(L - 1)
    BY <1>4, <1>5, <1>7
  <1>8. ASSUME c[L] = 1, NEW k \in 1..(L - 1) PROVE x[k] = 0
    <2>1. c[k + 1] >= 2^(L - (k + 1)) * c[L]
      BY <1>3
    <2>2. c[1] >= 2^(k - 1) * c[k]
      BY <1>3
    <2>3. L - (k + 1) \in Nat /\ k - 1 \in Nat /\ L - k \in Nat
          /\ L - k >= 1 /\ (L - k) - 1 = L - (k + 1) /\ (k - 1) + (L - k) = L - 1
      BY <1>8
    <2>4. 2^(L - k) = 2 * 2^((L - k) - 1) /\ 2^((L - k) - 1) = 2^(L - (k + 1))
      BY <2>3, PowerBefore
    <2>5. 2^((k - 1) + (L - k)) = 2^(k - 1) * 2^(L - k)
      BY <2>3, PowersMultiply
    <2>6. 2^(L - 1) = 2^(k - 1) * 2^(L - k)
      BY <2>3, <2>5
    <2> DEFINE a == 2^(k - 1)
               b == 2^(L - (k + 1))
    <2>7. a \in Nat /\ a >= 1 /\ b \in Nat
      BY <2>3, NatPower
    <2>8. c[k] >= x[k] + 2 * b /\ c[k] \in Nat /\ x[k] \in Nat /\ c[k + 1] \in Nat
      BY <1>1, <1>8, <2>1, <2>7, SMTT(60)
    <2>9. c[1] = a * (2 * b) /\ c[1] >= a * c[k]
      BY <1>7, <1>8, <2>2, <2>4, <2>6
    <2> DEFINE y == x[k]
               z == c[k]
    <2> HIDE DEF a, b, y, z
    <2>10. y \in Nat /\ z \in Nat /\ z >= y + 2 * b /\ a * (2 * b) >= a * z
      BY <2>8, <2>9 DEF y, z
    <2>11. a * z = a * (2 * b) + a * (z - 2 * b) /\ z - 2 * b \in Nat /\ z - 2 * b >= y
      BY <2>7, <2>10
    <2>12. a * (z - 2 * b) <= 0
      BY <2>7, <2>10, <2>11
    <2>13. z - 2 * b = 0
      <3> DEFINE t == z - 2 * b
      <3>1. t \in Nat /\ a \in Nat /\ a >= 1 /\ a * t <= 0
        BY <2>7, <2>11, <2>12
      <3> HIDE DEF t
      <3>2. ASSUME t >= 1 PROVE FALSE
        <4>1. a * t = a + a * (t - 1) /\ t - 1 \in Nat
          BY <3>1, <3>2
        <4>2. a * (t - 1) \in Nat
          BY <3>1, <4>1
        <4> QED BY <3>1, <4>1, <4>2
      <3>3. t = 0
        BY <3>1, <3>2
      <3> QED BY <3>3 DEF t
    <2>14. y = 0
      BY <2>10, <2>11, <2>13
    <2> QED BY <2>14 DEF y
  <1> QED BY <1>6, <1>7, <1>8

(* A match is a number.                                                    *)
LEMMA SameType == ASSUME NEW a, NEW b PROVE Same(a, b) \in Nat
  BY DEF Same

(* Blocks in flight are a number.                                          *)
LEMMA InFlightType == ASSUME NEW k PROVE InFlight(k) \in Nat
  <1>1. /\ Same(n[5], k) \in Nat /\ Same(n[6], k) \in Nat
        /\ Same(n[7], k) \in Nat /\ Same(n[8], k) \in Nat
    BY SameType
  <1> QED BY <1>1 DEF InFlight

(* A level of which no block is in flight is in none of stages 5 to 8.     *)
LEMMA InFlightNone ==
  ASSUME NEW k, InFlight(k)' = 0, NEW s \in 5..8
  PROVE  n'[s] # k
  <1>1. InFlight(k)' = ((Same(n'[5], k) + Same(n'[6], k)) + Same(n'[7], k)) + Same(n'[8], k)
    BY DEF InFlight, Same
  <1>2. /\ Same(n'[5], k) = 0 /\ Same(n'[6], k) = 0
        /\ Same(n'[7], k) = 0 /\ Same(n'[8], k) = 0
    BY <1>1, SameType, SMTT(30)
  <1>3. n'[5] # k /\ n'[6] # k /\ n'[7] # k /\ n'[8] # k
    BY <1>2 DEF Same
  <1>4. s = 5 \/ s = 6 \/ s = 7 \/ s = 8
    OBVIOUS
  <1> QED BY <1>3, <1>4

(* No more leaves are taken than the run has, and when all of them are,    *)
(* the front is empty and the reader has stopped.                          *)
LEMMA FrontBound ==
  ASSUME Registers, RoundsApart, ReaderRight, NoBubble,
         NEW g \in Nat, NEW q \in Nat, GroupsInOrder(g, q), Taken(g) >= 0
  PROVE  /\ Taken(g) \in Nat
         /\ Taken(g) + Num(status[4]) <= 2^(job.level - 1)
         /\ Taken(g) = 2^(job.level - 1) =>
              rd = "idle" /\ \A s \in 0..4 : ~status[s]
  <1>1. /\ job \in Jobs /\ job.split \in 1..4 /\ job.index \in Nat /\ job.index >= 1
        /\ Groups \in Nat /\ Groups >= 1
        /\ FirstRow(Groups) = 2^(job.level - 1)
        /\ data_size_batches = GroupStart(Groups)
    BY JobFacts DEF Registers
  <1>2. ASSUME NEW h \in Nat
        PROVE  /\ GroupStart(h) \in Nat /\ GroupStart(h + 1) = GroupStart(h) + job.split
               /\ FirstRow(h) \in Nat /\ FirstRow(h + 1) = FirstRow(h) + job.index
               /\ GroupStart(h) >= job.split
    BY <1>1, Counting
  <1>3. s4_due \in 0..(job.index - 1)
    <2>1. s4_cnt \in 0..(job.index - 1)
      BY DEF Registers
    <2>2. s4_due = IF o_start(4)
                   THEN IF s4_cnt = job.index - 1 THEN 0 ELSE s4_cnt + 1
                   ELSE s4_cnt
      BY DEF s4_due, CountTo
    <2> QED BY <1>1, <2>1, <2>2
  <1>4. Entered <= data_size_batches /\ Entered \in Nat
    <2>1. data_size_batches \in Nat
      BY <1>1, <1>2
    <2>2. o_start(0) => start_pulse
      BY DEF o_start
    <2>3. rd = "halt" /\ o_start(0) => batches < data_size_batches
      BY <2>2 DEF RoundsApart, ReaderRight
    <2>4. batches \in Nat /\ rd \in {"idle", "xfer", "halt"}
      BY DEF Registers
    <2>5. CASE rd = "idle"
      BY <2>1, <2>5 DEF Entered
    <2>6. CASE rd = "xfer"
      BY <2>1, <2>4, <2>6 DEF Entered, Num, ReaderRight
    <2>7. CASE rd = "halt"
      BY <2>1, <2>3, <2>4, <2>7 DEF Entered, Num, ReaderRight
    <2> QED BY <2>4, <2>5, <2>6, <2>7
  <1>5. Passed \in 0..data_size_batches
    BY DEF NoBubble
  <1>6. ~write_uram => Passed = GroupStart(g) + q /\ Passed >= job.split
    BY <1>1, <1>5, <1>2, SMTT(30) DEF GroupsInOrder
  <1>7. g <= Groups
    <2>1. ASSUME ~write_uram, g > Groups PROVE FALSE
      <3>1. GroupStart(Groups + 1) <= GroupStart(g)
        BY <1>1, <2>1, CountingOrdered
      <3>2. /\ GroupStart(Groups + 1) = GroupStart(Groups) + job.split
            /\ GroupStart(Groups) \in Nat /\ GroupStart(g) \in Nat
        BY <1>1, <1>2
      <3>3. Passed <= GroupStart(Groups) /\ Passed = GroupStart(g) + q
        BY <1>1, <1>5, <1>6, <2>1
      <3> QED BY <3>1, <3>2, <3>3, <1>1
    <2>2. write_uram => g = 0
      BY DEF GroupsInOrder
    <2> QED BY <2>1, <2>2, <1>1
  <1>8. FirstRow(g) <= FirstRow(Groups)
    BY <1>1, <1>7, CountingOrdered
  <1>9. /\ status[3] => g >= 1
        /\ ~status[3] => s4_due = 0
    BY DEF GroupsInOrder
  <1>10. /\ Extracted(g) \in Nat /\ Extracted(g) <= FirstRow(g)
         /\ status[3] => Extracted(g) < FirstRow(g)
    <2>1. CASE status[3]
      <3>1. Num(status[3]) = 1 /\ g - 1 \in Nat
        BY <2>1, <1>9 DEF Num
      <3>2. Extracted(g) = FirstRow(g - 1) + s4_due
        BY <3>1 DEF Extracted
      <3>3. FirstRow((g - 1) + 1) = FirstRow(g - 1) + job.index /\ FirstRow(g - 1) \in Nat
        BY <3>1, <1>2
      <3>4. FirstRow(g) = FirstRow((g - 1) + 1)
        BY (g - 1) + 1 = g, Zenon
      <3> QED BY <3>2, <3>3, <3>4, <1>1, <1>3
    <2>2. CASE ~status[3]
      <3>1. Num(status[3]) = 0
        BY <2>2 DEF Num
      <3>2. g - Num(status[3]) = g
        BY <3>1
      <3>3. Extracted(g) = FirstRow(g) + s4_due
        BY <3>2 DEF Extracted
      <3> QED BY <3>3, <2>2, <1>2, <1>9
    <2> QED BY <2>1, <2>2
  <1>11. Taken(g) \in Nat /\ Taken(g) + Num(status[4]) <= 2^(job.level - 1)
    <2>1. Taken(g) = Extracted(g) - Num(status[4]) /\ Num(status[4]) \in {0, 1}
      BY NumType DEF Taken
    <2>2. FirstRow(g) \in Nat /\ FirstRow(Groups) \in Nat
      BY <1>1, <1>2
    <2> QED BY <2>1, <2>2, <1>1, <1>8, <1>10
  <1>12. ASSUME Taken(g) = 2^(job.level - 1)
         PROVE  rd = "idle" /\ \A s \in 0..4 : ~status[s]
    <2>1. Taken(g) = Extracted(g) - Num(status[4]) /\ Num(status[4]) \in {0, 1}
      BY NumType DEF Taken
    <2>2. FirstRow(g) \in Nat /\ FirstRow(Groups) \in Nat
      BY <1>1, <1>2
    <2>3. Num(status[4]) = 0 /\ ~status[3] /\ FirstRow(g) = FirstRow(Groups)
      BY <2>1, <2>2, <1>1, <1>8, <1>10, <1>12
    <2>4. ~status[4]
      BY <2>3 DEF Num
    <2>5. g = Groups
      <3>1. ASSUME g < Groups PROVE FALSE
        <4>1. FirstRow(g + 1) <= FirstRow(Groups)
          BY <1>1, <3>1, CountingOrdered
        <4>2. FirstRow(g + 1) = FirstRow(g) + job.index
          BY <1>2
        <4> QED BY <4>1, <4>2, <2>2, <2>3, <1>1
      <3> QED BY <3>1, <1>1, <1>7
    <2>6. ~write_uram
      BY <2>5, <1>1 DEF GroupsInOrder
    <2>7. Passed = data_size_batches
      <3>1. Passed = GroupStart(Groups) + q /\ GroupStart(Groups) \in Nat
        BY <2>5, <2>6, <1>6, <1>1, <1>2
      <3> QED BY <3>1, <1>1, <1>5
    <2>8. /\ Num(status[0]) = 0 /\ Num(status[1]) = 0 /\ Num(status[2]) = 0
          /\ Entered = data_size_batches
      BY <2>7, <1>4, NumType, <1>5 DEF Passed
    <2>9. ~status[0] /\ ~status[1] /\ ~status[2]
      BY <2>8 DEF Num
    <2>10. rd = "idle"
      <3>1. ASSUME rd # "idle" PROVE FALSE
        <4>1. batches = 0 /\ rd # "idle"
          BY <2>9, <3>1 DEF ReaderRight
        <4>2. Entered = 0
          BY <4>1, <2>9 DEF Entered, Num
        <4>3. data_size_batches >= 1
          BY <1>1, <1>2
        <4> QED BY <4>2, <4>3, <2>8
      <3> QED BY <3>1
    <2>11. \A s \in 0..4 : s = 0 \/ s = 1 \/ s = 2 \/ s = 3 \/ s = 4
      OBVIOUS
    <2> QED BY <2>3, <2>4, <2>9, <2>10, <2>11
  <1> QED BY <1>11, <1>12

(* How a round moves the levels of stages 5 to 9, the trace and the bits   *)
(* of the reduce buffer.                                                   *)
LEMMA RoundLevels ==
  ASSUME Round, Levels
  PROVE  /\ status'[5] <=> (n[8] < MaxN /\ IF reduce_trace THEN status[8]
                                           ELSE status[4] \/ stall_nxt)
         /\ n'[5] = IF ~status'[5] THEN 0
                    ELSE IF stall_nxt \/ reduce_trace THEN n[8] + 1 ELSE 1
         /\ n'[6] = n[5] /\ n'[7] = n[6] /\ n'[8] = n[7] /\ n'[9] = n[8]
         /\ reduce_trace' <=> reduce_trace \/ n[8] = job.level
         /\ \A k \in 0..MaxN :
              rb_status'[k] <=> IF k = n[8] /\ n[8] # 0 THEN ~stall_nxt
                                ELSE rb_status[k]
         /\ \A s \in 5..9 : n[s] \in 0..MaxN
         /\ stall_nxt => n[8] # 0 /\ n[8] < MaxN /\ rb_status[n[8]]
         /\ n[8] # 0 /\ n[8] < MaxN /\ rb_status[n[8]] => stall_nxt
         /\ Levels'
  <1>1. /\ status' = status_nxt(rd = "idle") /\ n' = n_nxt(rd = "idle")
        /\ job' = job /\ delay' = 0
    BY RoundRegisters
  <1>2. /\ status'[5] <=> (n[8] < MaxN /\ IF reduce_trace THEN status[8]
                                           ELSE status[4] \/ stall_nxt)
        /\ status'[6] <=> status[5]
        /\ status'[7] <=> status[6]
        /\ status'[8] <=> status[7]
        /\ status'[9] <=> status[8]
    BY <1>1, StatusMoves
  <1>3. /\ n'[5] = IF ~status'[5] THEN 0
                   ELSE IF stall_nxt \/ reduce_trace THEN n[8] + 1 ELSE 1
        /\ n'[6] = n[5] /\ n'[7] = n[6] /\ n'[8] = n[7] /\ n'[9] = n[8]
    BY <1>1, LevelMoves
  <1>4. /\ ClockRbStatus(FALSE)
        /\ reduce_trace' = reduce_trace_nxt(FALSE)
    BY Zenon DEF Round, Tick, Clock, ControlClock
  <1>5. reduce_trace' <=> reduce_trace \/ n[8] = job.level
    BY <1>4 DEF reduce_trace_nxt
  <1>6. /\ n \in [5..9 -> 0..MaxN] /\ rb_status \in [0..MaxN -> BOOLEAN]
        /\ all_stage_done /\ MaxN \in Nat
    BY JobFacts DEF Round, Registers
  <1>7. \A s \in 5..9 : n[s] \in 0..MaxN
    BY <1>6
  <1>8. /\ stall_nxt => n[8] # 0 /\ n[8] < MaxN /\ rb_status[n[8]]
        /\ n[8] # 0 /\ n[8] < MaxN /\ rb_status[n[8]] => stall_nxt
    BY DEF stall_nxt, Levels
  <1>9. status[8] <=> n[8] # 0
    BY DEF Levels
  <1>10. rb_status' = IF n[8] # 0 THEN [rb_status EXCEPT ![n[8]] = ~stall_nxt]
                      ELSE rb_status
    BY <1>4, <1>6, <1>8, <1>9 DEF ClockRbStatus
  <1>11. \A k \in 0..MaxN :
           rb_status'[k] <=> IF k = n[8] /\ n[8] # 0 THEN ~stall_nxt
                             ELSE rb_status[k]
    BY <1>6, <1>10
  <1>12. Levels'
    <2>1. ~rb_status'[0]
      BY <1>6, <1>11 DEF Levels
    <2>2. status'[5] <=> n'[5] # 0
      BY <1>3, <1>7
    <2>3. \A s \in 6..9 : status'[s] <=> n'[s] # 0
      <3>1. \A s \in 6..9 : s = 6 \/ s = 7 \/ s = 8 \/ s = 9
        OBVIOUS
      <3> QED BY <3>1, <1>2, <1>3 DEF Levels
    <2>4. \A s \in 5..9 : s = 5 \/ s \in 6..9
      OBVIOUS
    <2> QED BY <1>1, <2>1, <2>2, <2>3, <2>4 DEF Levels
  <1> QED BY <1>2, <1>3, <1>5, <1>7, <1>8, <1>11, <1>12

(* A round moves one level into stage 5 and one out of stage 8.            *)
LEMMA RoundInFlight ==
  ASSUME Round, Levels, NEW k
  PROVE  /\ InFlight(k)' = (InFlight(k) - Same(n[8], k)) + Same(n'[5], k)
         /\ InFlight(k)' \in Nat /\ InFlight(k) \in Nat
  <1>1. n'[6] = n[5] /\ n'[7] = n[6] /\ n'[8] = n[7]
    BY RoundLevels
  <1>2. InFlight(k)' = ((Same(n'[5], k) + Same(n[5], k)) + Same(n[6], k)) + Same(n[7], k)
    BY <1>1 DEF InFlight, Same
  <1>3. /\ Same(n'[5], k) \in Nat /\ Same(n[5], k) \in Nat /\ Same(n[6], k) \in Nat
        /\ Same(n[7], k) \in Nat /\ Same(n[8], k) \in Nat
    BY SameType
  <1> QED BY <1>2, <1>3 DEF InFlight

(* The round that makes a block of level n'[5] counts it.                  *)
Grown(c, d) == \A k \in 1..job.level : d[k] = c[k] + Same(n'[5], k)

(* The tree is not complete: the round brings in a leaf, packs two         *)
(* siblings or moves the blocks on, and the numbers of blocks still add    *)
(* up.  If that makes the root, it is alone.                               *)
LEMMA TallyRound ==
  ASSUME Round, Levels, NEW L \in Nat, L = job.level,
         NEW c \in [1..L -> Nat], Tally(c), c[L] = 0,
         c[1] + Num(status[4]) <= 2^(L - 1)
  PROVE  \E d \in [1..L -> Nat] :
           /\ d[1] = c[1] + Num(LeafMoves)
           /\ Tally(d)'
           /\ Grown(c, d)
  <1> DEFINE v == n'[5]
  <1>1. /\ L \in 1..MaxN /\ MaxN \in Nat /\ job' = job
    BY JobFacts, RoundRegisters DEF Round, Registers
  <1>2. /\ ~reduce_trace
        /\ \A s \in 5..9 : n[s] < L /\ n[s] \in 0..MaxN
        /\ \A k \in L..MaxN : ~rb_status[k]
        /\ \A k \in 1..(L - 1) :
             c[k] = (InFlight(k) + Num(rb_status[k])) + 2 * c[k + 1]
    BY RoundLevels DEF Tally
  <1>3. /\ v = IF stall_nxt THEN n[8] + 1 ELSE IF status[4] THEN 1 ELSE 0
        /\ n'[6] = n[5] /\ n'[7] = n[6] /\ n'[8] = n[7] /\ n'[9] = n[8]
        /\ ~reduce_trace'
        /\ \A k \in 0..MaxN :
             rb_status'[k] <=> IF k = n[8] /\ n[8] # 0 THEN ~stall_nxt
                               ELSE rb_status[k]
        /\ stall_nxt => n[8] # 0 /\ n[8] < MaxN /\ rb_status[n[8]]
        /\ n[8] # 0 /\ n[8] < MaxN /\ rb_status[n[8]] => stall_nxt
    BY RoundLevels, <1>1, <1>2, SMTT(30)
  <1>4. \A k \in 1..(L - 1) :
          /\ InFlight(k)' = (InFlight(k) - Same(n[8], k)) + Same(v, k)
          /\ InFlight(k)' \in Nat /\ InFlight(k) \in Nat
    BY RoundInFlight
  <1> HIDE DEF v
  <1>5. PICK d \in [1..L -> Nat] : \A k \in 1..L : d[k] = c[k] + Same(v, k)
    <2> DEFINE e == [k \in 1..L |-> c[k] + Same(v, k)]
    <2>1. e \in [1..L -> Nat] /\ \A k \in 1..L : e[k] = c[k] + Same(v, k)
      BY DEF Same
    <2> HIDE DEF e
    <2> QED BY <2>1
  <1>6. \A k \in 1..L : d[k] = c[k] + Same(v, k) /\ d[k] \in Nat /\ c[k] \in Nat
    BY <1>5
  <1>7. n[8] < L /\ n[8] \in Nat
    BY <1>2
  <1>a. /\ stall_nxt => v = n[8] + 1
        /\ ~stall_nxt /\ status[4] => v = 1
        /\ ~stall_nxt /\ ~status[4] => v = 0
    BY <1>3
  <1>8. v \in 0..L
    BY <1>1, <1>a, <1>7
  <1>9. d[1] = c[1] + Num(LeafMoves)
    <2>1. LeafMoves <=> 1 = v
      BY <1>3, <1>7 DEF LeafMoves
    <2>2. Num(LeafMoves) = Same(v, 1)
      BY <2>1 DEF Num, Same
    <2> QED BY <2>2, <1>1, <1>6
  <1>10. ASSUME NEW k \in 1..(L - 1)
         PROVE  d[k] = (InFlight(k)' + Num(rb_status'[k])) + 2 * d[k + 1]
    <2>1. /\ c[k] = (InFlight(k) + Num(rb_status[k])) + 2 * c[k + 1]
          /\ d[k] = c[k] + Same(v, k) /\ d[k + 1] = c[k + 1] + Same(v, k + 1)
          /\ c[k] \in Nat /\ c[k + 1] \in Nat
          /\ k \in 0..MaxN
      <3>1. k \in 1..L /\ k + 1 \in 1..L /\ k \in 0..MaxN
        BY <1>1
      <3>2. d[k] = c[k] + Same(v, k) /\ c[k] \in Nat
        BY <3>1, <1>6
      <3>3. d[k + 1] = c[k + 1] + Same(v, k + 1) /\ c[k + 1] \in Nat
        BY <3>1, <1>6
      <3>4. c[k] = (InFlight(k) + Num(rb_status[k])) + 2 * c[k + 1]
        BY <1>2
      <3> QED BY <3>1, <3>2, <3>3, <3>4
    <2>2. /\ InFlight(k)' = (InFlight(k) - Same(n[8], k)) + Same(v, k)
          /\ InFlight(k)' \in Nat /\ InFlight(k) \in Nat
      BY <1>4
    <2>3. rb_status'[k] <=> IF k = n[8] /\ n[8] # 0 THEN ~stall_nxt
                            ELSE rb_status[k]
      BY <1>3, <2>1
    <2>5. Num(rb_status'[k]) + 2 * Same(v, k + 1) = Num(rb_status[k]) + Same(n[8], k)
      <3>1. CASE n[8] # k
        <4>1. Same(n[8], k) = 0 /\ Num(rb_status'[k]) = Num(rb_status[k])
          BY <3>1, <2>3 DEF Num, Same
        <4>2. k + 1 # v
          BY <3>1, <1>a, <1>7
        <4>3. Same(v, k + 1) = 0 /\ Num(rb_status[k]) \in Nat
          BY <4>2 DEF Num, Same
        <4> QED BY <4>1, <4>3
      <3>2. CASE n[8] = k /\ stall_nxt
        <4>1. rb_status[k] /\ ~rb_status'[k] /\ k + 1 = v
          BY <3>2, <2>3, <1>3
        <4>2. /\ Same(n[8], k) = 1 /\ Num(rb_status[k]) = 1
              /\ Num(rb_status'[k]) = 0 /\ Same(v, k + 1) = 1
          BY <4>1, <3>2 DEF Num, Same
        <4> QED BY <4>2
      <3>3. CASE n[8] = k /\ ~stall_nxt
        <4>1. ~rb_status[k] /\ rb_status'[k] /\ k + 1 # v
          BY <3>3, <2>3, <1>1, <1>3
        <4>2. /\ Same(n[8], k) = 1 /\ Num(rb_status[k]) = 0
              /\ Num(rb_status'[k]) = 1 /\ Same(v, k + 1) = 0
          BY <4>1, <3>3 DEF Num, Same
        <4> QED BY <4>2
      <3> QED BY <3>1, <3>2, <3>3
    <2>6. /\ Num(rb_status'[k]) \in Nat /\ Same(v, k + 1) \in Nat
          /\ Num(rb_status[k]) \in Nat /\ Same(n[8], k) \in Nat /\ Same(v, k) \in Nat
      BY NumType, SameType
    <2>7. d[k] \in Nat /\ d[k + 1] \in Nat
      BY <1>1, <1>6
    <2> DEFINE f1 == InFlight(k)
               f2 == InFlight(k)'
               r1 == Num(rb_status[k])
               r2 == Num(rb_status'[k])
               s8 == Same(n[8], k)
               s5 == Same(v, k)
               up == Same(v, k + 1)
               ck == c[k]
               cn == c[k + 1]
               dk == d[k]
               dn == d[k + 1]
    <2>8. /\ ck = (f1 + r1) + 2 * cn /\ dk = ck + s5
          /\ dn = cn + up /\ f2 = (f1 - s8) + s5
          /\ r2 + 2 * up = r1 + s8
      BY <2>1, <2>2, <2>5, Zenon
    <2>9. /\ f1 \in Nat /\ f2 \in Nat /\ r1 \in Nat /\ r2 \in Nat
          /\ s8 \in Nat /\ s5 \in Nat /\ up \in Nat
          /\ ck \in Nat /\ cn \in Nat
      BY <2>1, <2>2, <2>6, Zenon
    <2> HIDE DEF f1, f2, r1, r2, s8, s5, up, ck, cn, dk, dn
    <2>10. dk = (f2 + r2) + 2 * dn
      BY ONLY <2>8, <2>9
    <2> QED BY <2>10, Zenon DEF f2, r2, dk, dn
  <1>11. d[L] = Same(v, L)
    <2>1. d[L] = c[L] + Same(v, L) /\ Same(v, L) \in Nat
      BY <1>1, <1>6, SameType
    <2> QED BY <2>1
  <1>14. ASSUME NEW k \in L..MaxN PROVE ~rb_status'[k]
    <2>1. k \in 0..MaxN /\ k # n[8] /\ ~rb_status[k]
      BY <1>1, <1>2, <1>7, SMTT(30)
    <2> QED BY <2>1, <1>3
  <1>12. CASE v # L
    <2>1. d[L] = 0
      BY <1>11, <1>12 DEF Num, Same
    <2>2. \A s \in 5..9 : n'[s] < L
      <3>1. v < L
        BY <1>1, <1>8, <1>12
      <3>2. \A s \in 5..9 : s = 5 \/ s = 6 \/ s = 7 \/ s = 8 \/ s = 9
        OBVIOUS
      <3> QED BY <3>1, <3>2, <1>2, <1>3, SMTT(60) DEF v
    <2>3. \A k \in L..MaxN : ~rb_status'[k]
      BY <1>14
    <2>4. Tally(d)'
      BY <1>1, <1>3, <1>10, <2>1, <2>2, <2>3 DEF Tally
    <2> QED BY <1>5, <1>9, <2>4 DEF v, Grown
  <1>13. CASE v = L
    <2>1. d[L] = 1
      BY <1>11, <1>13 DEF Num, Same
    <2>2. d[1] <= 2^(L - 1)
      <3>1. Num(LeafMoves) <= Num(status[4])
        BY DEF LeafMoves, Num
      <3>2. Num(LeafMoves) \in Nat /\ Num(status[4]) \in Nat /\ c[1] \in Nat
        BY NumType, <1>1, <1>6
      <3>3. 2^(L - 1) \in Nat
        BY <1>1, NatPower
      <3> QED BY <3>1, <3>2, <3>3, <1>9
    <2>3. \A k \in 1..(L - 1) : InFlight(k)' = 0
      <3> DEFINE x == [k \in 1..(L - 1) |-> InFlight(k)' + Num(rb_status'[k])]
      <3>1. \A k \in 1..(L - 1) : InFlight(k)' \in Nat /\ Num(rb_status'[k]) \in Nat
        BY <1>4, NumType
      <3>2. x \in [1..(L - 1) -> Nat]
        BY <3>1
      <3>3. \A k \in 1..(L - 1) : x[k] = InFlight(k)' + Num(rb_status'[k])
        OBVIOUS
      <3>4. \A k \in 1..(L - 1) : d[k] = x[k] + 2 * d[k + 1]
        BY <1>10, <3>3
      <3> HIDE DEF x
      <3>a. L >= 1
        BY <1>1
      <3>b. \A y \in [1..(L - 1) -> Nat] :
              (\A k \in 1..(L - 1) : d[k] = y[k] + 2 * d[k + 1])
                => \A k \in 1..(L - 1) : y[k] = 0
        <4> SUFFICES ASSUME NEW y \in [1..(L - 1) -> Nat],
                            \A k \in 1..(L - 1) : d[k] = y[k] + 2 * d[k + 1]
                     PROVE  \A k \in 1..(L - 1) : y[k] = 0
          OBVIOUS
        <4>1. d[L] = 1 => d[1] = 2^(L - 1) /\ \A k \in 1..(L - 1) : y[k] = 0
          BY ONLY <3>a, <2>2, <1>5, RootAlone, y \in [1..(L - 1) -> Nat], L \in Nat,
             \A k \in 1..(L - 1) : d[k] = y[k] + 2 * d[k + 1], Zenon
        <4> QED BY <4>1, <2>1
      <3>5. \A k \in 1..(L - 1) : x[k] = 0
        BY <3>b, <3>2, <3>4, Zenon
      <3>6. ASSUME NEW k \in 1..(L - 1) PROVE InFlight(k)' = 0
        <4> DEFINE f2 == InFlight(k)'
                   r2 == Num(rb_status'[k])
        <4>1. f2 \in Nat /\ r2 \in Nat /\ x[k] = f2 + r2 /\ x[k] = 0
          BY <3>1, <3>3, <3>5, Zenon
        <4> HIDE DEF f2, r2
        <4>2. f2 = 0
          BY ONLY <4>1
        <4> QED BY <4>2, Zenon DEF f2
      <3> QED BY <3>6
    <2>4. n'[6] = 0 /\ n'[7] = 0 /\ n'[8] = 0
      <3>1. ASSUME NEW s \in 6..8 PROVE n'[s] = 0
        <4>1. n'[s] \in 0..(L - 1)
          <5>1. s = 6 \/ s = 7 \/ s = 8
            OBVIOUS
          <5>2. \A t \in 5..7 : n[t] < L /\ n[t] \in 0..MaxN
            BY <1>2, SMTT(30)
          <5>3. n'[s] = n[5] \/ n'[s] = n[6] \/ n'[s] = n[7]
            BY <5>1, <1>3
          <5>4. \A t \in 5..7 : n[t] \in 0..(L - 1)
            BY ONLY <5>2, <1>1, L \in Nat, SMTT(60)
          <5>5. n[5] \in 0..(L - 1) /\ n[6] \in 0..(L - 1) /\ n[7] \in 0..(L - 1)
            BY ONLY <5>4
          <5> QED BY <5>3, <5>5, Zenon
        <4>2. ASSUME n'[s] # 0 PROVE FALSE
          <5>1. PICK k \in 1..(L - 1) : n'[s] = k
            BY <4>1, <4>2, <1>1
          <5>2. InFlight(k)' = 0
            BY <2>3
          <5> QED BY <5>1, <5>2, InFlightNone
        <4> QED BY <4>2
      <3> QED BY <3>1
    <2>5. n'[9] = L - 1
      <3>1. CASE stall_nxt
        BY <3>1, <1>3, <1>7, <1>13
      <3>2. CASE ~stall_nxt
        BY <3>2, <1>1, <1>2, <1>3, <1>7, <1>13
      <3> QED BY <3>1, <3>2
    <2>6. \A k \in L..MaxN : ~rb_status'[k]
      BY <1>14
    <2>7. Root(5, L)'
      <3>1. \A t \in (5..9) \ {5} : t = 6 \/ t = 7 \/ t = 8 \/ t = 9
        OBVIOUS
      <3>2. \A t \in (5..9) \ {5} : n'[t] = IF 5 = 5 /\ t = 9 THEN L - 1 ELSE 0
        BY <3>1, <2>4, <2>5
      <3> QED BY <3>2, <1>1, <1>13, <2>6 DEF Root, v
    <2>8. \E s \in 5..9, m \in L..MaxN : Root(s, m)'
      BY <1>1, <2>7
    <2>9. Tally(d)'
      BY <1>1, <1>10, <2>1, <2>8 DEF Tally
    <2> QED BY <1>5, <1>9, <2>9 DEF v, Grown
  <1> QED BY <1>12, <1>13

(* When there is a root, all leaves are taken and no other block is left.  *)
LEMMA TreeComplete ==
  ASSUME Registers, NEW L \in Nat, L = job.level, NEW c \in [1..L -> Nat],
         Tally(c), c[L] # 0, c[1] <= 2^(L - 1)
  PROVE  /\ c[1] = 2^(L - 1)
         /\ \A k \in 1..(L - 1) : InFlight(k) = 0 /\ Num(rb_status[k]) = 0
  <1>1. L >= 1
    <2>1. job \in Jobs
      BY DEF Registers
    <2> QED BY <2>1, JobFacts
  <1> DEFINE x == [k \in 1..(L - 1) |-> InFlight(k) + Num(rb_status[k])]
  <1>2. ASSUME NEW k \in 1..(L - 1)
        PROVE  InFlight(k) \in Nat /\ Num(rb_status[k]) \in Nat
    BY InFlightType, NumType
  <1>3. x \in [1..(L - 1) -> Nat]
    BY <1>2
  <1>4. \A k \in 1..(L - 1) : x[k] = InFlight(k) + Num(rb_status[k])
    OBVIOUS
  <1>5. \A k \in 1..(L - 1) : c[k] = x[k] + 2 * c[k + 1]
    BY <1>4, Zenon DEF Tally
  <1> HIDE DEF x
  <1>6. ASSUME NEW y \in [1..(L - 1) -> Nat],
               \A k \in 1..(L - 1) : c[k] = y[k] + 2 * c[k + 1]
        PROVE  /\ c[L] <= 1
               /\ c[L] = 1 => c[1] = 2^(L - 1) /\ \A k \in 1..(L - 1) : y[k] = 0
    BY ONLY <1>1, <1>6, RootAlone, L \in Nat, c \in [1..L -> Nat],
       c[1] <= 2^(L - 1), y \in [1..(L - 1) -> Nat], Zenon
  <1>7. /\ c[L] <= 1
        /\ c[L] = 1 => c[1] = 2^(L - 1) /\ \A k \in 1..(L - 1) : x[k] = 0
    BY <1>3, <1>5, <1>6, Zenon
  <1>8. c[L] = 1
    <2>1. c[L] \in Nat /\ c[L] # 0 /\ c[L] <= 1
      BY <1>1, <1>7
    <2> QED BY ONLY <2>1
  <1>9. ASSUME NEW k \in 1..(L - 1) PROVE InFlight(k) = 0 /\ Num(rb_status[k]) = 0
    <2> DEFINE f == InFlight(k)
               r == Num(rb_status[k])
    <2>1. f \in Nat /\ r \in Nat /\ x[k] = f + r /\ x[k] = 0
      BY <1>2, <1>4, <1>7, <1>8, Zenon
    <2> HIDE DEF f, r
    <2>2. f = 0 /\ r = 0
      BY ONLY <2>1
    <2> QED BY <2>2, Zenon DEF f, r
  <1> QED BY <1>7, <1>8, <1>9, Zenon

(* Where the root is, other stages do not take part; it reaches stage 9    *)
(* with the last level only at the end of the run.                         *)
LEMMA RootPlace ==
  ASSUME Registers, Levels, NEW L, L = job.level, NEW s \in 5..9,
         NEW m \in L..MaxN, Root(s, m)
  PROVE  /\ \A t \in 5..9 : status[t] => t = s \/ (s = 5 /\ t = 9)
         /\ n[9] = MaxN => s = 9 /\ m = MaxN
  <1>0. MaxN \in Nat /\ L \in 1..MaxN
    BY JobFacts DEF Registers
  <1>1. MaxN \in Nat /\ L \in 1..MaxN /\ m \in Nat /\ m >= 1 /\ m <= MaxN
    BY <1>0
  <1>2. \A t \in 5..9 : status[t] <=> n[t] # 0
    BY DEF Levels
  <1>3. \A t \in (5..9) \ {s} : n[t] = IF s = 5 /\ t = 9 THEN m - 1 ELSE 0
    BY DEF Root
  <1>4. s # 9 => n[9] = IF s = 5 THEN m - 1 ELSE 0
    BY <1>3
  <1>5. s = 9 => m = MaxN
    BY DEF Root
  <1> QED BY <1>1, <1>2, <1>3, <1>4, <1>5

(* The tree is complete: its block moves on, trip after trip, to the end.  *)
LEMMA TallyRoot ==
  ASSUME Round, Levels, NEW L \in Nat, L = job.level,
         NEW c \in [1..L -> Nat], Tally(c), c[L] # 0,
         c[1] <= 2^(L - 1), ~status[4]
  PROVE  /\ ~o_mvp_done => Tally(c)'
         /\ o_mvp_done => \A s \in 5..9 : n'[s] = 0
         /\ \A k \in 1..L : Same(n'[5], k) = 0
  <1> DEFINE v == n'[5]
  <1>1. /\ L \in 1..MaxN /\ MaxN \in Nat /\ job' = job /\ delay = 3 /\ Registers
    BY JobFacts, RoundRegisters DEF Round, Registers
  <1>2. PICK s \in 5..9, m \in L..MaxN : Root(s, m)
    BY DEF Tally
  <1>3. /\ status'[5] <=> (n[8] < MaxN /\ IF reduce_trace THEN status[8]
                                          ELSE status[4] \/ stall_nxt)
        /\ v = IF ~status'[5] THEN 0
               ELSE IF stall_nxt \/ reduce_trace THEN n[8] + 1 ELSE 1
        /\ n'[6] = n[5] /\ n'[7] = n[6] /\ n'[8] = n[7] /\ n'[9] = n[8]
        /\ reduce_trace' <=> reduce_trace \/ n[8] = L
        /\ \A k \in 0..MaxN :
             rb_status'[k] <=> IF k = n[8] /\ n[8] # 0 THEN ~stall_nxt
                               ELSE rb_status[k]
        /\ stall_nxt => n[8] # 0 /\ n[8] < MaxN /\ rb_status[n[8]]
    BY RoundLevels
  <1>4. /\ status[8] <=> n[8] # 0
        /\ n[8] = L => reduce_trace
        /\ status[9] <=> n[9] # 0
    BY <1>1 DEF Levels
  <1>5. /\ n[s] = m
        /\ \A t \in (5..9) \ {s} : n[t] = IF s = 5 /\ t = 9 THEN m - 1 ELSE 0
        /\ \A k \in L..MaxN : rb_status[k] => k < m \/ s = 9
        /\ m > L => reduce_trace
        /\ s = 9 => m = MaxN
    BY <1>2 DEF Root
  <1>6. m \in Nat /\ m >= L /\ m <= MaxN /\ m # 0
    BY <1>1
  <1>7. s = 5 \/ s = 6 \/ s = 7 \/ s = 8 \/ s = 9
    OBVIOUS
  <1>8. /\ s # 8 => n[8] = 0 /\ v = 0
        /\ s = 8 => n[8] = m /\ reduce_trace /\ v = IF m < MaxN THEN m + 1 ELSE 0
    <2>1. CASE s # 8
      <3>1. n[8] = 0
        BY <2>1, <1>5
      <3>2. ~status'[5]
        BY <3>1, <1>3, <1>4
      <3> QED BY <2>1, <3>1, <3>2, <1>3
    <2>2. CASE s = 8
      <3>1. n[8] = m /\ reduce_trace
        BY <2>2, <1>4, <1>5, <1>6
      <3>2. status'[5] <=> m < MaxN
        BY <3>1, <1>3, <1>4, <1>6
      <3> QED BY <2>2, <3>1, <3>2, <1>3
    <2> QED BY <2>1, <2>2
  <1> HIDE DEF v
  <1>9. \A t \in 5..9 : t = 5 \/ t = 6 \/ t = 7 \/ t = 8 \/ t = 9
    OBVIOUS
  <1>10. o_mvp_done => s = 9
    <2>1. o_mvp_done => n[9] = MaxN
      BY DEF o_mvp_done
    <2> QED BY <2>1, <1>1, <1>2, RootPlace
  <1>11. s = 9 => o_mvp_done
    <2>1. all_stage_done
      BY DEF Round
    <2> QED BY <2>1, <1>1, <1>4, <1>5 DEF o_mvp_done
  <1>12. o_mvp_done => \A t \in 5..9 : n'[t] = 0
    <2> SUFFICES ASSUME o_mvp_done PROVE \A t \in 5..9 : n'[t] = 0
      OBVIOUS
    <2>1. s = 9
      BY <1>10
    <2>2. n[5] = 0 /\ n[6] = 0 /\ n[7] = 0 /\ n[8] = 0 /\ v = 0
      BY <2>1, <1>5, <1>8
    <2> QED BY <2>2, <1>3, <1>9 DEF v
  <1>13. ASSUME NEW k \in 1..(L - 1)
         PROVE  InFlight(k)' = 0 /\ Num(rb_status'[k]) = 0
    <2>1. InFlight(k) = 0 /\ Num(rb_status[k]) = 0
      BY <1>1, TreeComplete
    <2>2. n[8] # k /\ v # k /\ k \in 0..MaxN /\ k < L
      BY <1>1, <1>6, <1>8
    <2>3. Same(n[8], k) = 0 /\ Same(v, k) = 0
      BY <2>2 DEF Same
    <2>4. InFlight(k)' = (InFlight(k) - Same(n[8], k)) + Same(v, k)
      BY RoundInFlight DEF v
    <2>5. InFlight(k)' = (0 - 0) + 0
      BY <2>1, <2>3, <2>4, Zenon
    <2>6. rb_status'[k] <=> rb_status[k]
      BY <2>2, <1>3
    <2>7. Num(rb_status'[k]) = 0
      BY <2>1, <2>6 DEF Num
    <2>8. (0 - 0) + 0 = 0
      OBVIOUS
    <2> QED BY <2>5, <2>7, <2>8, Zenon
  <1>14. ASSUME NEW k \in 1..(L - 1)
         PROVE  c[k] = (InFlight(k)' + Num(rb_status'[k])) + 2 * c[k + 1]
    <2>1. c[k] = (InFlight(k) + Num(rb_status[k])) + 2 * c[k + 1]
      BY DEF Tally
    <2>2. InFlight(k) = 0 /\ Num(rb_status[k]) = 0
      BY <1>1, TreeComplete
    <2>3. InFlight(k)' = 0 /\ Num(rb_status'[k]) = 0
      BY <1>13
    <2> QED BY <2>1, <2>2, <2>3, Zenon
  <1>15. ASSUME NEW k \in L..MaxN, rb_status'[k] PROVE k <= m
    <2>1. CASE k = n[8]
      BY <2>1, <1>1, <1>6, <1>8
    <2>2. CASE k # n[8]
      <3>1. rb_status[k]
        BY <2>2, <1>1, <1>3, <1>15
      <3> QED BY <3>1, <1>1, <1>5, <1>6
    <2> QED BY <2>1, <2>2
  <1>16. ASSUME ~o_mvp_done
         PROVE  \E t \in 5..9, w \in L..MaxN : Root(t, w)'
    <2>1. s # 9
      BY <1>11, <1>16
    <2>2. CASE s = 8 /\ m < MaxN
      <3>1. v = m + 1 /\ n'[6] = 0 /\ n'[7] = 0 /\ n'[8] = 0 /\ n'[9] = m
        BY <2>2, <1>3, <1>5, <1>8
      <3>2. \A t \in (5..9) \ {5} :
              n'[t] = IF 5 = 5 /\ t = 9 THEN (m + 1) - 1 ELSE 0
        BY <3>1, <1>6, <1>9
      <3>3. \A k \in L..MaxN : rb_status'[k] => k < m + 1 \/ 5 = 9
        BY <1>1, <1>6, <1>15
      <3>4. m + 1 \in L..MaxN /\ reduce_trace'
        BY <1>1, <1>3, <1>6, <1>8, <2>2
      <3>5. Root(5, m + 1)'
        BY <3>1, <3>2, <3>3, <3>4, <1>1 DEF Root, v
      <3>6. 5 \in 5..9
        OBVIOUS
      <3> QED BY <3>4, <3>5, <3>6
    <2>3. CASE s = 8 /\ ~(m < MaxN)
      <3>1. v = 0 /\ n'[6] = 0 /\ n'[7] = 0 /\ n'[8] = 0 /\ n'[9] = MaxN
        BY <2>3, <1>1, <1>3, <1>5, <1>6, <1>8
      <3>2. \A t \in (5..9) \ {9} :
              n'[t] = IF 9 = 5 /\ t = 9 THEN MaxN - 1 ELSE 0
        BY <3>1, <1>9 DEF v
      <3>3. MaxN \in L..MaxN /\ reduce_trace'
        BY <1>1, <1>3, <1>8, <2>3
      <3>5. Root(9, MaxN)'
        BY <3>1, <3>2, <3>3, <1>1 DEF Root
      <3>6. 9 \in 5..9
        OBVIOUS
      <3> QED BY <3>3, <3>5, <3>6
    <2>4. CASE s \in 5..7
      <3>1. v = 0 /\ n'[9] = 0
        BY <2>4, <1>3, <1>5, <1>8
      <3>2. n'[s + 1] = m /\ s + 1 \in 6..8
        BY <2>4, <1>3, <1>5, <1>7
      <3>3. ASSUME NEW t \in (5..9) \ {s + 1}
            PROVE  n'[t] = IF s + 1 = 5 /\ t = 9 THEN m - 1 ELSE 0
        <4>1. t = 5 \/ t = 9 => n'[t] = 0
          BY <3>1 DEF v
        <4>2. t \in 6..8 => n'[t] = n[t - 1] /\ t - 1 # s /\ t - 1 \in 5..7
          <5>1. t = 6 => n'[t] = n[t - 1]
            BY <1>3
          <5>2. t = 7 => n'[t] = n[t - 1]
            BY <1>3
          <5>3. t = 8 => n'[t] = n[t - 1]
            BY <1>3
          <5>4. t \in 6..8 => t = 6 \/ t = 7 \/ t = 8
            OBVIOUS
          <5> QED BY <5>1, <5>2, <5>3, <5>4
        <4>3. t \in 6..8 => n'[t] = 0
          BY <4>2, <1>5
        <4> QED BY <4>1, <4>3, <1>9, <3>2
      <3>4. ASSUME NEW k \in L..MaxN, rb_status'[k] PROVE k < m
        <4>1. rb_status[k]
          BY <2>4, <1>1, <1>3, <1>8, <3>4, SMTT(30)
        <4> QED BY <4>1, <2>4, <1>5
      <3>5. m > L => reduce_trace'
        BY <1>3, <1>5
      <3>6. s + 1 # 9 /\ s + 1 \in 5..9
        BY <2>4
      <3>7. Root(s + 1, m)'
        BY <3>2, <3>3, <3>4, <3>5, <3>6, <1>1 DEF Root
      <3> QED BY <3>6, <3>7
    <2> QED BY <2>1, <2>2, <2>3, <2>4, <1>7
  <1>17. ~o_mvp_done => Tally(c)'
    <2> SUFFICES ASSUME ~o_mvp_done PROVE Tally(c)'
      OBVIOUS
    <2>1. \E t \in 5..9, w \in L..MaxN : Root(t, w)'
      BY <1>16
    <2> QED BY <2>1, <1>1, <1>14 DEF Tally
  <1>18. ASSUME NEW k \in 1..L PROVE Same(n'[5], k) = 0
    <2>1. v # k
      BY <1>1, <1>6, <1>8
    <2> QED BY <2>1 DEF v, Same
  <1> QED BY <1>12, <1>17, <1>18

-----------------------------------------------------------------------------
(* Steps that leave the front and the tree as they are                     *)

(* The order of batches is kept when the registers it is about stay.       *)
LEMMA SameFront ==
  ASSUME job' = job, status' = status, write_uram' <=> write_uram,
         write_uram_cnt' = write_uram_cnt, Entered' = Entered,
         s2_due' = s2_due, s4_due' = s4_due,
         ~status[0] /\ rd = "idle" => rd' = "idle",
         NEW g \in Nat, NEW q \in Nat
  PROVE  /\ NoBubble => NoBubble'
         /\ GroupsInOrder(g, q) => GroupsInOrder(g, q)'
         /\ Taken(g)' = Taken(g)
  <1>1. Passed' = Passed
    BY Zenon DEF Passed
  <1>2. data_size_batches' = data_size_batches
    BY Zenon DEF data_size_batches
  <1>3. NoBubble => NoBubble'
    BY <1>1, <1>2 DEF NoBubble, Num
  <1>4. GroupStart(g)' = GroupStart(g)
    BY Zenon DEF GroupStart
  <1>5. GroupsInOrder(g, q) => GroupsInOrder(g, q)'
    BY <1>1, <1>4 DEF GroupsInOrder
  <1>6. Taken(g)' = Taken(g)
    BY Zenon DEF Taken, Extracted, FirstRow
  <1> QED BY <1>3, <1>5, <1>6

(* The numbers of blocks are kept when the levels stay; the trace may      *)
(* begin when the root is in stage 8.                                      *)
LEMMA SameTree ==
  ASSUME Registers, job' = job, n' = n, rb_status' = rb_status,
         reduce_trace => reduce_trace', reduce_trace' => reduce_trace \/ n[8] = job.level,
         NEW L \in Nat, L = job.level, NEW c \in [1..L -> Nat], Tally(c)
  PROVE  Tally(c)'
  <1>1. ASSUME NEW k \in 1..(L - 1)
        PROVE  c[k] = (InFlight(k)' + Num(rb_status'[k])) + 2 * c[k + 1]
    <2>1. InFlight(k)' = InFlight(k)
      BY Zenon DEF InFlight
    <2>2. c[k] = (InFlight(k) + Num(rb_status[k])) + 2 * c[k + 1]
      BY DEF Tally
    <2> QED BY <2>1, <2>2, Zenon
  <1>2. CASE c[L] = 0
    <2>1. /\ ~reduce_trace
          /\ \A s \in 5..9 : n[s] < L
          /\ \A k \in L..MaxN : ~rb_status[k]
      BY <1>2 DEF Tally
    <2>2. n[8] < L
      BY <2>1
    <2>3. ~reduce_trace'
      BY <2>1, <2>2
    <2> QED BY <1>1, <1>2, <2>1, <2>3 DEF Tally
  <1>3. CASE c[L] # 0
    <2>1. PICK s \in 5..9, m \in L..MaxN : Root(s, m)
      BY <1>3 DEF Tally
    <2>2. Root(s, m)'
      BY <2>1 DEF Root
    <2> QED BY <1>1, <1>3, <2>1, <2>2 DEF Tally
  <1> QED BY <1>2, <1>3

(* Both together.                                                          *)
LEMMA SameRun ==
  ASSUME Registers, job' = job, status' = status, write_uram' <=> write_uram,
         write_uram_cnt' = write_uram_cnt, Entered' = Entered,
         s2_due' = s2_due, s4_due' = s4_due,
         ~status[0] /\ rd = "idle" => rd' = "idle",
         n' = n, rb_status' = rb_status,
         reduce_trace => reduce_trace', reduce_trace' => reduce_trace \/ n[8] = job.level,
         NoBubble, RunInOrder
  PROVE  NoBubble' /\ RunInOrder'
  <1>1. PICK g \in Nat, q \in Nat :
          /\ GroupsInOrder(g, q) /\ Taken(g) >= 0
          /\ \E c \in [1..job.level -> Nat] : c[1] = Taken(g) /\ Tally(c)
    BY DEF RunInOrder
  <1>2. PICK L \in Nat : L = job.level
    <2>1. job \in Jobs
      BY DEF Registers
    <2> QED BY <2>1, JobFacts
  <1>3. PICK c \in [1..L -> Nat] : c[1] = Taken(g) /\ Tally(c)
    BY <1>1, <1>2, Zenon
  <1>4. NoBubble' /\ GroupsInOrder(g, q)' /\ Taken(g)' = Taken(g)
    BY <1>1, SameFront
  <1>5. Tally(c)'
    BY <1>2, <1>3, SameTree
  <1>6. c \in [1..job'.level -> Nat]
    BY <1>2
  <1> QED BY <1>1, <1>3, <1>4, <1>5, <1>6 DEF RunInOrder

-----------------------------------------------------------------------------
(* The clock edge that ends a round                                        *)

(* Every stage has finished.                                               *)
LEMMA RoundDone ==
  ASSUME Round
  PROVE  /\ \A s \in 1..WrUram : done[s]
         /\ ~done[0] => rd = "xfer" /\ batches = 0 /\ ~status[0]
  <1>1. /\ \A s \in 0..9 : done[s] \/ ~status[s]
        /\ done[10] \/ ~status[2]
        /\ \A s \in 1..9 : ~done[s] => status[s]
        /\ ~done[10] => status[2]
        /\ ~done[0] => status[0] \/ (rd = "xfer" /\ batches = 0)
    BY DEF Round, all_stage_done, RoundsApart, Stages, WrUram
  <1>2. \A s \in 1..10 : s \in 1..9 \/ s = 10
    OBVIOUS
  <1>3. 1..9 \subseteq 0..9 /\ 0 \in 0..9
    OBVIOUS
  <1> QED BY <1>1, <1>2, <1>3 DEF WrUram

(* The next status bits are bits.                                          *)
LEMMA StatusType ==
  ASSUME Registers
  PROVE  status_nxt(rd = "idle") \in [Stages -> BOOLEAN]
  <1>1. status \in [Stages -> BOOLEAN]
    BY DEF Registers
  <1>2. ASSUME NEW s \in Stages PROVE status_nxt(rd = "idle")[s] \in BOOLEAN
    <2>1. s = 0 \/ s = 1 \/ s = 2 \/ s = 3 \/ s = 4 \/ s = 5 \/ s = 6 \/ s = 7
          \/ s = 8 \/ s = 9
      BY DEF Stages
    <2>2. \A t \in 0..9 : status[t] \in BOOLEAN
      BY <1>1 DEF Stages
    <2> DEFINE w == status_nxt(rd = "idle")
    <2>3. /\ w[0] = (IF frozen THEN status[0] ELSE ~(rd = "idle"))
          /\ w[1] = (IF frozen THEN status[1] ELSE status[0])
          /\ w[2] = (IF frozen THEN status[2] ELSE status[1])
          /\ w[3] = (IF hold_s3s4 \/ stall_for_s4 \/ stall_for_s2
                     THEN status[3] ELSE status[2] /\ ~write_uram)
          /\ w[4] = (IF hold_s3s4 \/ stall_for_s2
                     THEN stall_nxt /\ status[4] ELSE status[3])
          /\ w[5] = (/\ IF reduce_trace THEN status[8]
                        ELSE status[4] \/ stall_nxt
                     /\ n[8] < MaxN)
          /\ w[6] = status[5] /\ w[7] = status[6] /\ w[8] = status[7]
          /\ w[9] = status[8]
      BY DEF status_nxt, Stages, frozen
    <2>4. /\ status[0] \in BOOLEAN /\ status[1] \in BOOLEAN /\ status[2] \in BOOLEAN
          /\ status[3] \in BOOLEAN /\ status[5] \in BOOLEAN /\ status[6] \in BOOLEAN
          /\ status[7] \in BOOLEAN /\ status[8] \in BOOLEAN
      BY <2>2
    <2> HIDE DEF w
    <2>5. ASSUME NEW p, NEW x \in BOOLEAN, NEW y \in BOOLEAN
          PROVE  (IF p THEN x ELSE y) \in BOOLEAN
      OBVIOUS
    <2>6. /\ (~(rd = "idle")) \in BOOLEAN /\ (status[2] /\ ~write_uram) \in BOOLEAN
          /\ (stall_nxt /\ status[4]) \in BOOLEAN
      BY Zenon
    <2>7. w[0] \in BOOLEAN /\ w[1] \in BOOLEAN /\ w[2] \in BOOLEAN
      BY <2>3, <2>4, <2>5, <2>6, Zenon
    <2>8. w[3] \in BOOLEAN /\ w[4] \in BOOLEAN
      BY <2>3, <2>4, <2>5, <2>6, Zenon
    <2>9. w[5] \in BOOLEAN
      BY <2>3, Zenon
    <2>10. w[s] \in BOOLEAN
      BY <2>1, <2>3, <2>4, <2>7, <2>8, <2>9, Zenon
    <2> QED BY <2>10 DEF w
  <1>3. status_nxt(rd = "idle") = [s \in Stages |-> status_nxt(rd = "idle")[s]]
    BY DEF status_nxt
  <1> QED BY <1>2, <1>3

(* The stall registers are bits.                                           *)
LEMMA StallTypes ==
  ASSUME Registers, ClockStalls
  PROVE  /\ stall' \in BOOLEAN /\ stall_s2' \in BOOLEAN /\ stall_s4' \in BOOLEAN
         /\ stall_s0s1s2' \in BOOLEAN /\ stall_s3s4' \in BOOLEAN
  <1>1. CASE all_stage_done
    BY <1>1 DEF ClockStalls, stall_nxt, stall_for_s2, stall_for_s4, hold_s0s1s2,
            hold_s3s4
  <1>2. CASE ~all_stage_done
    BY <1>2 DEF ClockStalls, stalls, Registers
  <1> QED BY <1>1, <1>2

(* A round keeps the widths.                                               *)
LEMMA RoundTypes ==
  ASSUME Round, Levels
  PROVE  Registers'
  <1>1. /\ start_pulse' /\ delay' = 0 /\ job' = job
        /\ status' = status_nxt(rd = "idle") /\ n' = n_nxt(rd = "idle")
        /\ s2_cnt' = s2_cnt /\ s4_cnt' = s4_cnt
        /\ rd' = rd /\ done' = done
    BY RoundRegisters
  <1>2. /\ ControlClock(FALSE, rd = "idle") /\ ClockReader(FALSE)
        /\ wr' = (wr \/ o_mvp_done) /\ ap_idle' = ap_idle /\ starts' = starts
    BY Zenon DEF Round, Tick, Clock
  <1>3. Registers /\ all_stage_done
    BY DEF Round
  <1>4. /\ job' \in Jobs /\ done' \in [Signals -> BOOLEAN] /\ delay' \in 0..3
        /\ start_pulse' \in BOOLEAN
        /\ s2_cnt' \in 0..(job'.split - 1) /\ s4_cnt' \in 0..(job'.index - 1)
        /\ rd' \in {"idle", "xfer", "halt"}
        /\ ap_idle' \in BOOLEAN /\ starts' \in 0..MaxStarts
    BY <1>1, <1>2, <1>3 DEF Registers
  <1>5. idle' \in BOOLEAN /\ reduce_trace' \in BOOLEAN /\ wr' \in BOOLEAN
    BY <1>2, <1>3 DEF ControlClock, reduce_trace_nxt, Registers
  <1>6. /\ stall' \in BOOLEAN /\ stall_s2' \in BOOLEAN /\ stall_s4' \in BOOLEAN
        /\ stall_s0s1s2' \in BOOLEAN /\ stall_s3s4' \in BOOLEAN
    <2>1. ClockStalls
      BY <1>2, Zenon DEF ControlClock
    <2> QED BY <2>1, <1>3, StallTypes
  <1>7. status' \in [Stages -> BOOLEAN]
    BY <1>1, <1>3, StatusType
  <1>8. n' \in [5..9 -> 0..MaxN]
    <2>1. /\ status'[5] <=> (n[8] < MaxN /\ IF reduce_trace THEN status[8]
                                            ELSE status[4] \/ stall_nxt)
          /\ n'[5] = IF ~status'[5] THEN 0
                     ELSE IF stall_nxt \/ reduce_trace THEN n[8] + 1 ELSE 1
          /\ n'[6] = n[5] /\ n'[7] = n[6] /\ n'[8] = n[7] /\ n'[9] = n[8]
          /\ \A s \in 5..9 : n[s] \in 0..MaxN
      BY RoundLevels
    <2>2. MaxN \in Nat /\ MaxN >= 1
      BY <1>3, JobFacts DEF Registers
    <2>3. ASSUME NEW s \in 5..9 PROVE n'[s] \in 0..MaxN
      <3>1. s = 5 \/ s = 6 \/ s = 7 \/ s = 8 \/ s = 9
        OBVIOUS
      <3>2. n'[5] \in 0..MaxN
        BY <2>1, <2>2
      <3> QED BY <3>1, <3>2, <2>1
    <2>4. n' = [s \in 5..9 |-> n'[s]]
      BY <1>1 DEF n_nxt
    <2> QED BY <2>3, <2>4
  <1>9. rb_status' \in [0..MaxN -> BOOLEAN]
    <2>1. ClockRbStatus(FALSE)
      BY <1>2, Zenon DEF ControlClock
    <2>2. rb_status \in [0..MaxN -> BOOLEAN]
      BY <1>3 DEF Registers
    <2> QED BY <2>1, <2>2 DEF ClockRbStatus, stall_nxt
  <1>10. write_uram' \in BOOLEAN /\ write_uram_cnt' \in 0..(job'.split - 1)
    <2>1. write_uram_cnt' = IF write_uram /\ status[2]
                              THEN IF write_uram_cnt = job.split - 1 THEN 0
                                   ELSE write_uram_cnt + 1
                              ELSE write_uram_cnt
      BY RoundVector
    <2>2. write_uram_cnt \in 0..(job.split - 1) /\ job.split \in 1..4
      BY <1>3, JobFacts DEF Registers
    <2>3. ClockCounts(FALSE)
      BY <1>2, Zenon DEF ControlClock
    <2>4. write_uram' \in BOOLEAN
      BY <2>3, <1>3 DEF ClockCounts, Registers
    <2> QED BY <1>1, <2>1, <2>2, <2>4
  <1>11. batches' \in Nat
    BY <1>2, <1>3 DEF ClockReader, Registers
  <1> QED BY <1>4, <1>5, <1>6, <1>7, <1>8, <1>9, <1>10, <1>11 DEF Registers

(* A round finds all stages done and the reader at rest.                   *)
LEMMA RoundReader ==
  ASSUME Round
  PROVE  RoundsApart' /\ ReaderRight'
  <1>1. /\ start_pulse' /\ delay' = 0 /\ job' = job
        /\ rd' = rd /\ (rd # "idle" => batches' = batches) /\ done' = done
    BY RoundRegisters
  <1>2. /\ \A s \in 1..WrUram : done[s]
        /\ ~done[0] => rd = "xfer" /\ batches = 0 /\ ~status[0]
    BY RoundDone
  <1>3. /\ \A s \in 1..10 : done'[s]
        /\ ~done'[0] => rd' = "xfer" /\ batches' = 0
    BY <1>1, <1>2 DEF WrUram
  <1>4. 1..9 \subseteq 1..10 /\ 10 \in 1..10
    OBVIOUS
  <1>5. RoundsApart'
    BY <1>1, <1>3, <1>4 DEF RoundsApart, WrUram
  <1>6. status'[0] <=> (IF frozen THEN status[0] ELSE rd # "idle")
    BY RoundMoves
  <1>7. data_size_batches' = data_size_batches
    BY <1>1, Zenon DEF data_size_batches
  <1>8. ReaderRight
    BY DEF Round
  <1>9. ReaderRight'
    BY <1>1, <1>2, <1>6, <1>7, <1>8 DEF ReaderRight
  <1> QED BY <1>5, <1>9

(* Some number of groups, batches and blocks accounts for the registers    *)
(* after the round as well: at most one block more, at the level that      *)
(* enters stage 5.                                                         *)
LEMMA RoundTally ==
  ASSUME Round, Levels, NoBubble, NEW g \in Nat, NEW q \in Nat,
         GroupsInOrder(g, q), Taken(g) >= 0,
         NEW L \in Nat, L = job.level, NEW c \in [1..L -> Nat], c[1] = Taken(g), Tally(c)
  PROVE  /\ ~o_mvp_done =>
              \E g2, q2 \in Nat, d \in [1..L -> Nat] :
                /\ GroupsInOrder(g2, q2)' /\ Taken(g2)' >= 0
                /\ d[1] = Taken(g2)' /\ Tally(d)'
                /\ Grown(c, d)
                /\ Taken(g2)' = Taken(g) + Num(LeafMoves)
         /\ o_mvp_done => /\ rd = "idle" /\ \A s \in 0..4 : ~status[s]
                          /\ \A s \in 5..9 : n'[s] = 0
                          /\ c[L] # 0
  <1>4. /\ Taken(g) \in Nat
        /\ Taken(g) + Num(status[4]) <= 2^(job.level - 1)
        /\ Taken(g) = 2^(job.level - 1) =>
             rd = "idle" /\ \A s \in 0..4 : ~status[s]
    BY FrontBound DEF Round
  <1>5. PICK g2 \in Nat, q2 \in Nat :
          GroupsInOrder(g2, q2)' /\ Taken(g2)' = Taken(g) + Num(LeafMoves)
    BY RoundFront
  <1>6. c[1] + Num(status[4]) <= 2^(L - 1)
    BY <1>4, Zenon
  <1>7. Num(status[4]) \in Nat /\ Num(LeafMoves) \in Nat /\ c[1] \in Nat
    BY NumType, <1>4
  <1>8. Registers /\ MaxN \in Nat /\ L \in 1..MaxN /\ job' = job
    BY JobFacts, RoundRegisters DEF Round, Registers
  <1>9. CASE c[L] = 0
    <2>1. PICK d \in [1..L -> Nat] :
            d[1] = c[1] + Num(LeafMoves) /\ Tally(d)' /\ Grown(c, d)
      BY <1>6, <1>9, TallyRound
    <2>2. d[1] = Taken(g2)' /\ Taken(g2)' >= 0
      <3>1. d[1] = Taken(g2)'
        BY <1>5, <2>1, Zenon
      <3>2. d[1] \in Nat
        BY <1>8
      <3> QED BY <3>1, <3>2
    <2>3. \E h, p \in Nat, e \in [1..L -> Nat] :
            /\ GroupsInOrder(h, p)' /\ Taken(h)' >= 0
            /\ e[1] = Taken(h)' /\ Tally(e)'
            /\ Grown(c, e)
            /\ Taken(h)' = Taken(g) + Num(LeafMoves)
      BY <1>5, <2>1, <2>2
    <2>4. ~o_mvp_done
      <3>1. n[9] < L
        BY <1>9 DEF Tally
      <3> QED BY <3>1, <1>8 DEF o_mvp_done
    <2> QED BY <2>3, <2>4
  <1>10. CASE c[L] # 0
    <2>1. c[1] <= 2^(L - 1)
      <3>1. 2^(L - 1) \in Nat
        BY <1>8, NatPower
      <3> QED BY <3>1, <1>6, <1>7
    <2>2. c[1] = 2^(L - 1)
      BY <2>1, <1>8, <1>10, TreeComplete
    <2>3. Taken(g) = 2^(job.level - 1)
      BY <2>2, Zenon
    <2>4. rd = "idle" /\ \A s \in 0..4 : ~status[s]
      BY <2>3, <1>4
    <2>5. ~status[4]
      BY <2>4
    <2>6. /\ ~o_mvp_done => Tally(c)'
          /\ o_mvp_done => \A s \in 5..9 : n'[s] = 0
          /\ \A k \in 1..L : Same(n'[5], k) = 0
      BY <2>1, <2>5, <1>10, TallyRoot
    <2>7. Num(LeafMoves) = 0
      BY <2>5 DEF LeafMoves, Num
    <2>8. c[1] = Taken(g2)' /\ Taken(g2)' >= 0
      <3>1. Taken(g2)' = c[1] + 0
        BY <1>5, <2>7, Zenon
      <3>2. c[1] + 0 = c[1] /\ c[1] >= 0
        BY <1>7
      <3> QED BY <3>1, <3>2
    <2>9. Grown(c, c)
      <3>1. ASSUME NEW k \in 1..L PROVE c[k] = c[k] + Same(n'[5], k)
        <4>1. c[k] \in Nat /\ Same(n'[5], k) = 0
          BY <2>6
        <4> QED BY <4>1
      <3> QED BY <3>1, Zenon DEF Grown
    <2>10. ASSUME ~o_mvp_done
           PROVE  \E h, p \in Nat, e \in [1..L -> Nat] :
                    /\ GroupsInOrder(h, p)' /\ Taken(h)' >= 0
                    /\ e[1] = Taken(h)' /\ Tally(e)'
                    /\ Grown(c, e)
                    /\ Taken(h)' = Taken(g) + Num(LeafMoves)
      BY <1>5, <2>6, <2>8, <2>9, <2>10
    <2> QED BY <2>4, <2>6, <2>10, <1>10
  <1> QED BY <1>9, <1>10

(* After the last round of a run nothing is left.                          *)
LEMMA RoundRun ==
  ASSUME Round, Levels, NoBubble, RunInOrder
  PROVE  /\ ~o_mvp_done => RunInOrder'
         /\ o_mvp_done => rd = "idle" /\ \A s \in 0..4 : ~status[s]
         /\ o_mvp_done => \A s \in 5..9 : n'[s] = 0
  <1>1. PICK g \in Nat, q \in Nat :
          /\ GroupsInOrder(g, q) /\ Taken(g) >= 0
          /\ \E c \in [1..job.level -> Nat] : c[1] = Taken(g) /\ Tally(c)
    BY DEF RunInOrder
  <1>2. PICK L \in Nat : L = job.level
    <2>1. job \in Jobs
      BY DEF Round, Registers
    <2> QED BY <2>1, JobFacts
  <1>3. PICK c \in [1..L -> Nat] : c[1] = Taken(g) /\ Tally(c)
    BY <1>1, <1>2, Zenon
  <1>4. /\ ~o_mvp_done =>
              \E g2, q2 \in Nat, d \in [1..L -> Nat] :
                /\ GroupsInOrder(g2, q2)' /\ Taken(g2)' >= 0
                /\ d[1] = Taken(g2)' /\ Tally(d)'
        /\ o_mvp_done => /\ rd = "idle" /\ \A s \in 0..4 : ~status[s]
                         /\ \A s \in 5..9 : n'[s] = 0
    BY <1>1, <1>2, <1>3, RoundTally
  <1>5. job'.level = L
    BY <1>2, RoundRegisters
  <1>6. ~o_mvp_done => RunInOrder'
    BY <1>4, <1>5 DEF RunInOrder
  <1> QED BY <1>4, <1>6

(* The clock edge that ends a round keeps the invariant.                   *)
LEMMA RoundKeeps ==
  ASSUME ControlInv, ~idle, all_stage_done, Tick
  PROVE  ControlInv'
  <1>1. Round /\ Levels /\ NoBubble /\ RunInOrder /\ Ends
    BY Zenon DEF ControlInv, Running, Round
  <1>2. Registers'
    BY <1>1, RoundTypes
  <1>3. RoundsApart' /\ ReaderRight'
    BY <1>1, RoundReader
  <1>4. Levels'
    BY <1>1, RoundLevels
  <1>5. NoBubble'
    BY <1>1, RoundPassed
  <1>6. /\ idle' <=> o_mvp_done
        /\ wr' <=> wr \/ o_mvp_done
        /\ ap_idle' = ap_idle
    BY DEF Tick, Clock, ControlClock
  <1>7. ~wr /\ ~ap_idle
    BY <1>1 DEF Ends
  <1>8. Ends'
    BY <1>6, <1>7 DEF Ends
  <1>9. ~idle' => Running'
    BY <1>1, <1>3, <1>5, <1>6, RoundRun DEF Running
  <1>10. ASSUME idle' PROVE Quiet'
    <2>1. rd = "idle" /\ (\A s \in 0..4 : ~status[s]) /\ \A s \in 5..9 : n'[s] = 0
      BY <1>1, <1>6, <1>10, RoundRun
    <2>2. rd' = rd /\ done' = done
      BY <1>1, RoundRegisters
    <2>3. \A s \in 5..9 : ~status'[s]
      BY <1>4, <2>1 DEF Levels
    <2>4. /\ status'[0] <=> (IF frozen THEN status[0] ELSE rd # "idle")
          /\ status'[1] <=> (IF frozen THEN status[1] ELSE status[0])
          /\ status'[2] <=> (IF frozen THEN status[2] ELSE status[1])
          /\ status'[3] <=> (IF hold_s3s4 \/ stall_for_s4 \/ stall_for_s2
                             THEN status[3] ELSE status[2] /\ ~write_uram)
          /\ status'[4] <=> (IF hold_s3s4 \/ stall_for_s2
                             THEN stall_nxt /\ status[4] ELSE status[3])
      BY <1>1, RoundMoves
    <2>5. ~status[0] /\ ~status[1] /\ ~status[2] /\ ~status[3] /\ ~status[4]
      BY <2>1
    <2>6. ~status'[0] /\ ~status'[1] /\ ~status'[2] /\ ~status'[3] /\ ~status'[4]
      BY <2>1, <2>4, <2>5
    <2>7. \A s \in Stages : s = 0 \/ s = 1 \/ s = 2 \/ s = 3 \/ s = 4 \/ s \in 5..9
      BY DEF Stages
    <2>8. \A s \in Stages : ~status'[s]
      BY <2>3, <2>6, <2>7
    <2>9. /\ \A s \in 1..10 : done[s]
          /\ done[0]
      BY <1>1, <2>1, RoundDone DEF WrUram
    <2>10. \A s \in Signals : s = 0 \/ s \in 1..10
      BY DEF Signals, Stages, WrUram
    <2>11. \A s \in Signals : done'[s]
      BY <2>2, <2>9, <2>10
    <2> QED BY <2>1, <2>2, <2>8, <2>11 DEF Quiet
  <1> QED BY <1>2, <1>3, <1>4, <1>8, <1>9, <1>10 DEF ControlInv

-----------------------------------------------------------------------------
(* What happens between two clock edges                                    *)

(* A stage becomes done.                                                   *)
LEMMA StageKeeps ==
  ASSUME ControlInv, NEW s \in Signals, s # 0, StageDone(s)
  PROVE  ControlInv'
  <1>1. /\ ~done[s] /\ delay = 3 /\ done' = [done EXCEPT ![s] = TRUE]
        /\ job' = job /\ rd' = rd /\ batches' = batches /\ wr' = wr
        /\ ap_idle' = ap_idle /\ starts' = starts
        /\ idle' = idle /\ delay' = delay /\ start_pulse' = start_pulse
        /\ reduce_trace' = reduce_trace /\ stall' = stall /\ stall_s2' = stall_s2
        /\ stall_s4' = stall_s4 /\ stall_s0s1s2' = stall_s0s1s2
        /\ stall_s3s4' = stall_s3s4 /\ status' = status /\ n' = n
        /\ rb_status' = rb_status /\ s2_cnt' = s2_cnt /\ s4_cnt' = s4_cnt
        /\ write_uram' = write_uram /\ write_uram_cnt' = write_uram_cnt
    BY DEF StageDone, control, stalls, counts
  <1>2. Registers /\ RoundsApart /\ Levels /\ Ends
    BY DEF ControlInv
  <1>3. /\ done' \in [Signals -> BOOLEAN] /\ done'[0] = done[0]
        /\ \A t \in Signals : done[t] => done'[t]
    <2>1. done \in [Signals -> BOOLEAN] /\ 0 \in Signals
      BY <1>2 DEF Registers, Signals, Stages
    <2>2. done' \in [Signals -> BOOLEAN]
      BY <1>1, <2>1
    <2>3. done'[0] = done[0]
      BY <1>1, <2>1
    <2>4. ASSUME NEW t \in Signals, done[t] PROVE done'[t]
      <3>1. t = s \/ t # s
        OBVIOUS
      <3> QED BY <1>1, <2>1, <2>4, <3>1
    <2> QED BY <2>2, <2>3, <2>4
  <1>4. Registers'
    BY <1>1, <1>2, <1>3 DEF Registers
  <1>5. ~start_pulse
    BY <1>1, <1>2 DEF RoundsApart
  <1>6. (\A t \in 1..9 : t \in Signals) /\ WrUram \in Signals
    BY DEF Signals, Stages, WrUram
  <1>7. RoundsApart'
    BY <1>1, <1>2, <1>3, <1>5, <1>6 DEF RoundsApart
  <1>8. Levels'
    BY <1>1, <1>2 DEF Levels
  <1>9. Ends'
    BY <1>1, <1>2 DEF Ends
  <1>10. ~idle /\ Running
    BY <1>1 DEF ControlInv, Quiet
  <1>11. ReaderRight'
    <2>1. data_size_batches' = data_size_batches
      BY <1>1, Zenon DEF data_size_batches
    <2> QED BY <2>1, <1>1, <1>3, <1>10 DEF Running, ReaderRight
  <1>12. NoBubble' /\ RunInOrder'
    <2>1. \A t : o_start(t)' <=> o_start(t)
      BY <1>1, <1>5 DEF o_start
    <2>2. data_size_batches' = data_size_batches
      BY <1>1, Zenon DEF data_size_batches
    <2>3. Entered' = Entered
      BY <2>1, <2>2, <1>1 DEF Entered, Num
    <2>4. s2_due' = s2_due /\ s4_due' = s4_due
      BY <2>1, <1>1 DEF s2_due, s4_due, CountTo
    <2>5. n[8] = job.level => reduce_trace
      BY <1>1, <1>2 DEF Levels
    <2> QED BY <2>3, <2>4, <2>5, <1>1, <1>2, <1>10, SameRun DEF Running
  <1> QED BY <1>1, <1>4, <1>7, <1>8, <1>9, <1>10, <1>11, <1>12 DEF ControlInv, Running

(* The reader has filled its buffer.                                       *)
LEMMA BatchKeeps ==
  ASSUME ControlInv, BatchRead
  PROVE  ControlInv'
  <1>1. /\ rd = "xfer" /\ status[0] /\ delay = 3 /\ rd' = "halt"
        /\ batches' = batches + 1 /\ done' = done
        /\ job' = job /\ wr' = wr
        /\ ap_idle' = ap_idle /\ starts' = starts
        /\ idle' = idle /\ delay' = delay /\ start_pulse' = start_pulse
        /\ reduce_trace' = reduce_trace /\ stall' = stall /\ stall_s2' = stall_s2
        /\ stall_s4' = stall_s4 /\ stall_s0s1s2' = stall_s0s1s2
        /\ stall_s3s4' = stall_s3s4 /\ status' = status /\ n' = n
        /\ rb_status' = rb_status /\ s2_cnt' = s2_cnt /\ s4_cnt' = s4_cnt
        /\ write_uram' = write_uram /\ write_uram_cnt' = write_uram_cnt
    BY DEF BatchRead, control, stalls, counts
  <1>2. Registers /\ RoundsApart /\ Levels /\ Ends
    BY DEF ControlInv
  <1>4. Registers'
    BY <1>1, <1>2 DEF Registers
  <1>5. ~start_pulse
    BY <1>1, <1>2 DEF RoundsApart
  <1>7. RoundsApart'
    BY <1>1, <1>2, <1>5 DEF RoundsApart
  <1>8. Levels'
    BY <1>1, <1>2 DEF Levels
  <1>9. Ends'
    BY <1>1, <1>2 DEF Ends
  <1>10. ~idle /\ Running
    BY <1>1 DEF ControlInv, Quiet
  <1>11. data_size_batches' = data_size_batches /\ data_size_batches \in Nat
         /\ batches \in Nat
    <2>1. data_size_batches' = data_size_batches
      BY <1>1, Zenon DEF data_size_batches
    <2>2. data_size_batches \in Nat
      BY <1>2, JobFacts, Counting DEF Registers
    <2> QED BY <2>1, <2>2, <1>2 DEF Registers
  <1>12. ReaderRight'
    BY <1>1, <1>10, <1>11 DEF Running, ReaderRight
  <1>13. NoBubble' /\ RunInOrder'
    <2>1. /\ ~o_start(0) /\ ~o_start(0)' /\ ~o_start(2) /\ ~o_start(2)'
          /\ ~o_start(4) /\ ~o_start(4)'
      BY <1>1, <1>5 DEF o_start
    <2>3. Entered' = Entered
      BY <2>1, <1>1, <1>11 DEF Entered, Num
    <2>4. s2_due' = s2_due /\ s4_due' = s4_due
      BY <2>1, <1>1 DEF s2_due, s4_due, CountTo
    <2>5. n[8] = job.level => reduce_trace
      BY <1>1, <1>2 DEF Levels
    <2> QED BY <2>3, <2>4, <2>5, <1>1, <1>2, <1>10, SameRun DEF Running
  <1> QED BY <1>1, <1>4, <1>7, <1>8, <1>9, <1>10, <1>12, <1>13 DEF ControlInv, Running

(* The writer has sent the result.                                         *)
LEMMA WriteKeeps ==
  ASSUME ControlInv, WriteDone
  PROVE  ControlInv'
  <1>1. /\ wr /\ wr' = FALSE /\ ap_idle' = TRUE
        /\ rd' = rd /\ batches' = batches /\ done' = done /\ job' = job
        /\ starts' = starts
        /\ idle' = idle /\ delay' = delay /\ start_pulse' = start_pulse
        /\ reduce_trace' = reduce_trace /\ stall' = stall /\ stall_s2' = stall_s2
        /\ stall_s4' = stall_s4 /\ stall_s0s1s2' = stall_s0s1s2
        /\ stall_s3s4' = stall_s3s4 /\ status' = status /\ n' = n
        /\ rb_status' = rb_status /\ s2_cnt' = s2_cnt /\ s4_cnt' = s4_cnt
        /\ write_uram' = write_uram /\ write_uram_cnt' = write_uram_cnt
    BY DEF WriteDone, control, stalls, counts
  <1>2. Registers /\ RoundsApart /\ Levels /\ idle /\ Quiet
    BY <1>1 DEF ControlInv, Ends
  <1>3. Registers'
    BY <1>1, <1>2 DEF Registers
  <1>4. RoundsApart'
    BY <1>1, <1>2 DEF RoundsApart
  <1>5. Levels'
    BY <1>1, <1>2 DEF Levels
  <1>6. Ends' /\ Quiet'
    BY <1>1, <1>2 DEF Ends, Quiet
  <1> QED BY <1>1, <1>2, <1>3, <1>4, <1>5, <1>6 DEF ControlInv

-----------------------------------------------------------------------------
(* The other clock edges                                                   *)

(* The counts with their start pulses have the width of the counters.      *)
LEMMA DueType ==
  ASSUME Registers
  PROVE  s2_due \in 0..(job.split - 1) /\ s4_due \in 0..(job.index - 1)
  <1>0. job \in Jobs /\ s2_cnt \in 0..(job.split - 1) /\ s4_cnt \in 0..(job.index - 1)
    BY DEF Registers
  <1>1. job.split \in 1..4 /\ job.index \in Nat /\ job.index >= 1
    BY <1>0, JobFacts
  <1>2. s2_due = IF o_start(2) THEN IF s2_cnt = job.split - 1 THEN 0 ELSE s2_cnt + 1
                 ELSE s2_cnt
    BY DEF s2_due, CountTo
  <1>3. s4_due = IF o_start(4) THEN IF s4_cnt = job.index - 1 THEN 0 ELSE s4_cnt + 1
                 ELSE s4_cnt
    BY DEF s4_due, CountTo
  <1> QED BY <1>0, <1>1, <1>2, <1>3

(* A clock edge at which the round is not over: the start pulses take      *)
(* effect, the delay counts.                                               *)
LEMMA PlainTick ==
  ASSUME ControlInv, ~all_stage_done, Tick
  PROVE  /\ job' = job /\ ap_idle' = ap_idle /\ starts' = starts
         /\ (idle' <=> idle) /\ (wr' <=> wr) /\ wr' \in BOOLEAN /\ idle' \in BOOLEAN
         /\ delay' \in 0..3 /\ ~start_pulse' /\ start_pulse' \in BOOLEAN
         /\ (reduce_trace' <=> reduce_trace \/ n[8] = job.level)
         /\ reduce_trace' \in BOOLEAN
         /\ stall' = stall /\ stall_s2' = stall_s2 /\ stall_s4' = stall_s4
         /\ stall_s0s1s2' = stall_s0s1s2 /\ stall_s3s4' = stall_s3s4
         /\ status' = status /\ n' = n /\ rb_status' = rb_status
         /\ s2_cnt' = s2_due /\ s4_cnt' = s4_due
         /\ (write_uram' <=> write_uram) /\ write_uram' \in BOOLEAN
         /\ write_uram_cnt' = write_uram_cnt
         /\ ClockReader(FALSE) /\ ClockDone(FALSE)
         /\ Registers
  <1>0. Registers
    BY DEF ControlInv
  <1>1. /\ ControlClock(FALSE, rd = "idle") /\ ClockReader(FALSE) /\ ClockDone(FALSE)
        /\ wr' = (wr \/ o_mvp_done) /\ job' = job /\ ap_idle' = ap_idle
        /\ starts' = starts
    BY Zenon DEF Tick, Clock
  <1>2. ~o_mvp_done
    BY DEF o_mvp_done
  <1>3. /\ (idle' <=> idle) /\ idle' \in BOOLEAN /\ (wr' <=> wr) /\ wr' \in BOOLEAN
        /\ ~start_pulse' /\ start_pulse' \in BOOLEAN
    BY <1>1, <1>2 DEF ControlClock
  <1>4. delay' \in 0..3
    BY <1>0, <1>1 DEF ControlClock, Registers
  <1>5. (reduce_trace' <=> reduce_trace \/ n[8] = job.level) /\ reduce_trace' \in BOOLEAN
    BY <1>1 DEF ControlClock, reduce_trace_nxt
  <1>6. ClockStalls /\ ClockRbStatus(FALSE) /\ ClockCounts(FALSE)
    BY <1>1, Zenon DEF ControlClock
  <1>7. /\ stall' = stall /\ stall_s2' = stall_s2 /\ stall_s4' = stall_s4
        /\ stall_s0s1s2' = stall_s0s1s2 /\ stall_s3s4' = stall_s3s4
    BY <1>6 DEF ClockStalls, stalls
  <1>8. status' = status /\ n' = n
    BY <1>1 DEF ControlClock
  <1>9. rb_status' = rb_status
    BY <1>6 DEF ClockRbStatus
  <1>10. s2_cnt' = s2_due /\ s4_cnt' = s4_due
    BY <1>6, Zenon DEF ClockCounts, s2_due, s4_due
  <1>11. /\ (write_uram' <=> write_uram) /\ write_uram' \in BOOLEAN
         /\ write_uram_cnt' = write_uram_cnt
    BY <1>6 DEF ClockCounts, CountTo
  <1> QED BY <1>0, <1>1, <1>3, <1>4, <1>5, <1>7, <1>8, <1>9, <1>10, <1>11

(* Only a stage that takes part is started.                                *)
LEMMA StartStatus ==
  ASSUME NEW s \in Signals, o_start(s)
  PROVE  start_pulse /\ IF s = WrUram THEN status[2] ELSE status[s]
  BY DEF o_start, Signals, Stages, WrUram

(* How a clock edge moves the done signals.                                *)
LEMMA DoneMoves ==
  ASSUME NEW start \in BOOLEAN, ClockDone(start)
  PROVE  /\ done' \in [Signals -> BOOLEAN]
         /\ \A s \in Signals \ {0} : done'[s] <=> done[s] /\ ~o_start(s)
         /\ done'[0] <=> ~(o_start(0) \/ start) /\ (done[0] \/ rd # "xfer")
  <1>1. ASSUME NEW s \in Signals
        PROVE  (IF s = 0 THEN ~(o_start(0) \/ start) /\ (done[0] \/ rd # "xfer")
                ELSE done[s] /\ ~o_start(s)) \in BOOLEAN
    BY Zenon
  <1>2. done' \in [Signals -> BOOLEAN]
    BY <1>1, Zenon DEF ClockDone
  <1>3. 0 \in Signals
    BY DEF Signals, Stages
  <1>4. \A s \in Signals :
          done'[s] = (IF s = 0 THEN ~(o_start(0) \/ start) /\ (done[0] \/ rd # "xfer")
                      ELSE done[s] /\ ~o_start(s))
    BY Zenon DEF ClockDone
  <1>5. ASSUME NEW s \in Signals \ {0} PROVE done'[s] <=> done[s] /\ ~o_start(s)
    <2>1. done'[s] = (done[s] /\ ~o_start(s))
      BY <1>4
    <2> QED BY <2>1
  <1>6. done'[0] = (~(o_start(0) \/ start) /\ (done[0] \/ rd # "xfer"))
    BY <1>3, <1>4
  <1> QED BY <1>2, <1>5, <1>6

(* Such a clock edge neither adds a batch nor moves a count that was not   *)
(* due.                                                                    *)
LEMMA PlainDue ==
  ASSUME ControlInv, ~idle, ~all_stage_done, Tick
  PROVE  Entered' = Entered /\ s2_due' = s2_due /\ s4_due' = s4_due
  <1>1. /\ job' = job /\ ap_idle' = ap_idle /\ starts' = starts
        /\ (idle' <=> idle) /\ (wr' <=> wr) /\ wr' \in BOOLEAN /\ idle' \in BOOLEAN
        /\ delay' \in 0..3 /\ ~start_pulse' /\ start_pulse' \in BOOLEAN
        /\ (reduce_trace' <=> reduce_trace \/ n[8] = job.level)
        /\ reduce_trace' \in BOOLEAN
        /\ stall' = stall /\ stall_s2' = stall_s2 /\ stall_s4' = stall_s4
        /\ stall_s0s1s2' = stall_s0s1s2 /\ stall_s3s4' = stall_s3s4
        /\ status' = status /\ n' = n /\ rb_status' = rb_status
        /\ s2_cnt' = s2_due /\ s4_cnt' = s4_due
        /\ (write_uram' <=> write_uram) /\ write_uram' \in BOOLEAN
        /\ write_uram_cnt' = write_uram_cnt
    BY PlainTick
  <1>2. ClockReader(FALSE) /\ ClockDone(FALSE)
    BY PlainTick
  <1>3. Registers /\ RoundsApart /\ Levels /\ Ends /\ Running
    BY DEF ControlInv
  <1>6. /\ rd' = CASE rd = "idle" -> "idle"
                   [] rd = "xfer" -> "xfer"
                   [] rd = "halt" -> IF batches = data_size_batches THEN "idle"
                                     ELSE IF o_start(0) THEN "xfer" ELSE "halt"
        /\ batches' = IF rd = "idle" THEN 0 ELSE batches
    BY <1>2 DEF ClockReader
  <1>7. rd \in {"idle", "xfer", "halt"} /\ batches \in Nat
    BY <1>3 DEF Registers
  <1>9. data_size_batches' = data_size_batches /\ data_size_batches \in Nat
    <2>1. data_size_batches' = data_size_batches
      BY <1>1, Zenon DEF data_size_batches
    <2>2. data_size_batches \in Nat
      BY <1>3, JobFacts, Counting DEF Registers
    <2> QED BY <2>1, <2>2
  <1>10. o_start(0) => status[0] /\ start_pulse
    BY StartStatus DEF Signals, Stages, WrUram
  <1>11. rd = "halt" /\ o_start(0) => done[0] /\ batches < data_size_batches
    BY <1>3, <1>10 DEF RoundsApart, Running, ReaderRight
  <1>15. Entered' = Entered
    <2>1. ~o_start(0)'
      BY <1>1 DEF o_start
    <2>2. CASE rd = "idle"
      BY <2>2, <1>6, <1>9 DEF Entered
    <2>3. CASE rd = "xfer"
      <3>1. rd' = "xfer" /\ batches' = batches
        BY <2>3, <1>6
      <3> QED BY <3>1, <2>3, <1>1 DEF Entered, Num
    <2>4. CASE rd = "halt" /\ batches = data_size_batches
      <3>1. ~o_start(0) /\ rd' = "idle"
        BY <2>4, <1>6, <1>9, <1>11
      <3> QED BY <3>1, <2>4, <1>7, <1>9 DEF Entered, Num
    <2>5. CASE rd = "halt" /\ batches # data_size_batches /\ o_start(0)
      <3>1. rd' = "xfer" /\ batches' = batches
        BY <2>5, <1>6
      <3> QED BY <3>1, <2>5, <1>1 DEF Entered, Num
    <2>6. CASE rd = "halt" /\ batches # data_size_batches /\ ~o_start(0)
      <3>1. rd' = "halt" /\ batches' = batches
        BY <2>6, <1>6
      <3> QED BY <3>1, <2>1, <2>6, <1>1 DEF Entered, Num
    <2> QED BY <1>7, <2>2, <2>3, <2>4, <2>5, <2>6
  <1>16. s2_due' = s2_due /\ s4_due' = s4_due
    <2>1. ~o_start(2)' /\ ~o_start(4)'
      BY <1>1 DEF o_start
    <2>2. s2_due' = s2_cnt' /\ s4_due' = s4_cnt'
      BY <2>1 DEF s2_due, s4_due, CountTo
    <2> QED BY <2>2, <1>1
  <1> QED BY <1>15, <1>16

(* Such a clock edge keeps the invariant: the batch that a start pulse     *)
(* announced is now the one that the reader reads, and the counters hold   *)
(* what was due.                                                           *)
LEMMA PlainKeeps ==
  ASSUME ControlInv, ~idle, ~all_stage_done, Tick
  PROVE  ControlInv'
  <1>1. /\ job' = job /\ ap_idle' = ap_idle /\ starts' = starts
        /\ (idle' <=> idle) /\ (wr' <=> wr) /\ wr' \in BOOLEAN /\ idle' \in BOOLEAN
        /\ delay' \in 0..3 /\ ~start_pulse' /\ start_pulse' \in BOOLEAN
        /\ (reduce_trace' <=> reduce_trace \/ n[8] = job.level)
        /\ reduce_trace' \in BOOLEAN
        /\ stall' = stall /\ stall_s2' = stall_s2 /\ stall_s4' = stall_s4
        /\ stall_s0s1s2' = stall_s0s1s2 /\ stall_s3s4' = stall_s3s4
        /\ status' = status /\ n' = n /\ rb_status' = rb_status
        /\ s2_cnt' = s2_due /\ s4_cnt' = s4_due
        /\ (write_uram' <=> write_uram) /\ write_uram' \in BOOLEAN
        /\ write_uram_cnt' = write_uram_cnt
    BY PlainTick
  <1>2. ClockReader(FALSE) /\ ClockDone(FALSE)
    BY PlainTick
  <1>3. Registers /\ RoundsApart /\ Levels /\ Ends /\ Running
    BY DEF ControlInv
  <1>4. done' \in [Signals -> BOOLEAN]
    BY <1>2, DoneMoves
  <1>5. /\ \A s \in Signals \ {0} : done'[s] <=> done[s] /\ ~o_start(s)
        /\ done'[0] <=> ~o_start(0) /\ (done[0] \/ rd # "xfer")
    BY <1>2, DoneMoves
  <1>6. /\ rd' = CASE rd = "idle" -> "idle"
                   [] rd = "xfer" -> "xfer"
                   [] rd = "halt" -> IF batches = data_size_batches THEN "idle"
                                     ELSE IF o_start(0) THEN "xfer" ELSE "halt"
        /\ batches' = IF rd = "idle" THEN 0 ELSE batches
    BY <1>2 DEF ClockReader
  <1>7. rd \in {"idle", "xfer", "halt"} /\ batches \in Nat
    BY <1>3 DEF Registers
  <1>8. Registers'
    <2>1. s2_due \in 0..(job.split - 1) /\ s4_due \in 0..(job.index - 1)
      BY <1>3, DueType
    <2>2. rd' \in {"idle", "xfer", "halt"} /\ batches' \in Nat
      BY <1>6, <1>7
    <2> QED BY <1>1, <1>3, <1>4, <2>1, <2>2 DEF Registers
  <1>9. data_size_batches' = data_size_batches /\ data_size_batches \in Nat
    <2>1. data_size_batches' = data_size_batches
      BY <1>1, Zenon DEF data_size_batches
    <2>2. data_size_batches \in Nat
      BY <1>3, JobFacts, Counting DEF Registers
    <2> QED BY <2>1, <2>2
  <1>10. o_start(0) => status[0] /\ start_pulse
    BY StartStatus DEF Signals, Stages, WrUram
  <1>11. rd = "halt" /\ o_start(0) => done[0] /\ batches < data_size_batches
    BY <1>3, <1>10 DEF RoundsApart, Running, ReaderRight
  <1>12. ReaderRight'
    BY <1>1, <1>3, <1>5, <1>6, <1>7, <1>9, <1>10, <1>11 DEF Running, ReaderRight
  <1>13. RoundsApart'
    <2>1. ASSUME NEW s \in 1..9, ~done'[s] PROVE status'[s]
      <3>1. s \in Signals \ {0} /\ s # WrUram
        BY DEF Signals, Stages, WrUram
      <3>2. ~done[s] \/ o_start(s)
        BY <3>1, <2>1, <1>5
      <3> QED BY <3>1, <3>2, <1>1, <1>3, StartStatus DEF RoundsApart
    <2>2. ~done'[WrUram] => status'[2]
      <3>1. WrUram \in Signals \ {0}
        BY DEF Signals, Stages, WrUram
      <3>2. ~done'[WrUram] => ~done[WrUram] \/ o_start(WrUram)
        BY <3>1, <1>5
      <3> QED BY <3>1, <3>2, <1>1, <1>3, StartStatus DEF RoundsApart
    <2>3. ~done'[0] => status'[0] \/ (rd' = "xfer" /\ batches' = 0)
      BY <1>1, <1>3, <1>5, <1>6, <1>7, <1>10 DEF RoundsApart
    <2> QED BY <1>1, <2>1, <2>2, <2>3 DEF RoundsApart
  <1>14. Levels' /\ Ends'
    BY <1>1, <1>3 DEF Levels, Ends
  <1>15. Entered' = Entered /\ s2_due' = s2_due /\ s4_due' = s4_due
    BY PlainDue
  <1>17. ~status[0] /\ rd = "idle" => rd' = "idle"
    BY <1>6
  <1>18. NoBubble' /\ RunInOrder'
    BY <1>1, <1>3, <1>15, <1>17, SameRun DEF Running
  <1> QED BY <1>1, <1>8, <1>12, <1>13, <1>14, <1>18 DEF ControlInv, Running

(* Between runs nothing is started, held or reported.                      *)
LEMMA IdleStill ==
  ASSUME Registers, Levels, Quiet
  PROVE  /\ \A s \in Signals : ~o_start(s)
         /\ ~o_start(0) /\ ~o_start(2) /\ ~o_start(4)
         /\ ~o_mvp_done /\ ~stall_nxt
         /\ \A s \in 0..9 : ~status[s]
         /\ n[8] = 0
  <1>1. /\ \A s \in 0..9 : ~status[s]
        /\ \A s \in 5..9 : n[s] = 0
    BY DEF Quiet, Stages
  <1>2. ~status[2] /\ ~status[9] /\ n[8] = 0
    BY <1>1
  <1>3. \A s \in Signals : ~o_start(s)
    <2> SUFFICES ASSUME NEW s \in Signals, o_start(s) PROVE FALSE
      OBVIOUS
    <2>1. IF s = WrUram THEN status[2] ELSE status[s]
      BY StartStatus
    <2>2. s # WrUram => s \in 0..9
      BY DEF Signals, Stages
    <2> QED BY <2>1, <2>2, <1>1, <1>2
  <1>4. 0 \in Signals /\ 2 \in Signals /\ 4 \in Signals
    BY DEF Signals, Stages
  <1>5. ~o_mvp_done
    BY <1>2 DEF o_mvp_done
  <1>6. ~stall_nxt
    BY <1>2 DEF stall_nxt, Levels
  <1> QED BY <1>1, <1>2, <1>3, <1>4, <1>5, <1>6

(* A clock edge between runs keeps the invariant.                          *)
LEMMA IdleKeeps ==
  ASSUME ControlInv, idle, Tick
  PROVE  ControlInv'
  <1>1. Registers /\ RoundsApart /\ Levels /\ Ends /\ Quiet
    BY DEF ControlInv
  <1>2. /\ ControlClock(FALSE, rd = "idle") /\ ClockReader(FALSE) /\ ClockDone(FALSE)
        /\ wr' = (wr \/ o_mvp_done) /\ job' = job /\ ap_idle' = ap_idle
        /\ starts' = starts
    BY Zenon DEF Tick, Clock
  <1>3. /\ \A s \in Signals : ~o_start(s)
        /\ ~o_start(0) /\ ~o_start(2) /\ ~o_start(4)
        /\ ~o_mvp_done /\ ~stall_nxt
        /\ \A s \in 0..9 : ~status[s]
        /\ n[8] = 0
    BY <1>1, IdleStill
  <1>4. rd = "idle" /\ (\A s \in Signals : done[s]) /\ \A s \in 5..9 : n[s] = 0
    BY <1>1 DEF Quiet
  <1>5. /\ idle' /\ idle' \in BOOLEAN /\ (wr' <=> wr) /\ wr' \in BOOLEAN
        /\ ~start_pulse' /\ start_pulse' \in BOOLEAN
    BY <1>2, <1>3 DEF ControlClock
  <1>6. delay' \in 0..3
    BY <1>1, <1>2 DEF ControlClock, Registers
  <1>7. reduce_trace' \in BOOLEAN
    BY <1>2 DEF ControlClock, reduce_trace_nxt
  <1>8. ClockStalls /\ ClockRbStatus(FALSE) /\ ClockCounts(FALSE)
    BY <1>2, Zenon DEF ControlClock
  <1>9. /\ stall' \in BOOLEAN /\ stall_s2' \in BOOLEAN /\ stall_s4' \in BOOLEAN
        /\ stall_s0s1s2' \in BOOLEAN /\ stall_s3s4' \in BOOLEAN
    BY <1>1, <1>8, StallTypes
  <1>10. rb_status' = rb_status
    <2>1. ~status[8]
      BY <1>3
    <2> QED BY <2>1, <1>3, <1>8 DEF ClockRbStatus
  <1>11. /\ s2_cnt' = s2_cnt /\ s4_cnt' = s4_cnt
         /\ write_uram_cnt' = write_uram_cnt /\ write_uram' \in BOOLEAN
    <2>1. ~status[2]
      BY <1>3
    <2> QED BY <2>1, <1>3, <1>8 DEF ClockCounts, CountTo
  <1>12. status' \in [Stages -> BOOLEAN] /\ \A s \in 0..9 : ~status'[s]
    <2>1. CASE ~all_stage_done
      <3>1. status' = status
        BY <2>1, <1>2 DEF ControlClock
      <3> QED BY <3>1, <1>1, <1>3 DEF Registers
    <2>2. CASE all_stage_done
      <3>1. status' = status_nxt(rd = "idle")
        BY <2>2, <1>2 DEF ControlClock
      <3>2. /\ ~status[0] /\ ~status[1] /\ ~status[2] /\ ~status[3] /\ ~status[4]
            /\ ~status[5] /\ ~status[6] /\ ~status[7] /\ ~status[8]
        BY <1>3
      <3>3. /\ ~status'[0] /\ ~status'[1] /\ ~status'[2] /\ ~status'[3] /\ ~status'[4]
            /\ ~status'[5] /\ ~status'[6] /\ ~status'[7] /\ ~status'[8] /\ ~status'[9]
        BY <3>1, <3>2, <1>3, <1>4, StatusMoves
      <3>4. \A s \in 0..9 : s = 0 \/ s = 1 \/ s = 2 \/ s = 3 \/ s = 4 \/ s = 5
                            \/ s = 6 \/ s = 7 \/ s = 8 \/ s = 9
        OBVIOUS
      <3> QED BY <3>1, <3>3, <3>4, <1>1, StatusType
    <2> QED BY <2>1, <2>2
  <1>13. n' \in [5..9 -> 0..MaxN] /\ \A s \in 5..9 : n'[s] = 0
    <2>0. MaxN \in Nat
      BY <1>1, JobFacts DEF Registers
    <2>1. CASE ~all_stage_done
      <3>1. n' = n
        BY <2>1, <1>2 DEF ControlClock
      <3> QED BY <3>1, <1>1, <1>4 DEF Registers
    <2>2. CASE all_stage_done
      <3>1. n' = n_nxt(rd = "idle") /\ status' = status_nxt(rd = "idle")
        BY <2>2, <1>2 DEF ControlClock
      <3>2. ~status_nxt(rd = "idle")[5]
        BY <3>1, <1>12
      <3>3. n'[5] = 0 /\ n'[6] = n[5] /\ n'[7] = n[6] /\ n'[8] = n[7] /\ n'[9] = n[8]
        BY <3>1, <3>2, LevelMoves
      <3>4. \A s \in 5..9 : s = 5 \/ s = 6 \/ s = 7 \/ s = 8 \/ s = 9
        OBVIOUS
      <3>5. \A s \in 5..9 : n'[s] = 0
        BY <3>3, <3>4, <1>4
      <3>6. n' = [s \in 5..9 |-> n'[s]]
        BY <3>1 DEF n_nxt
      <3> QED BY <3>5, <3>6, <2>0
    <2> QED BY <2>1, <2>2
  <1>14. rd' = "idle" /\ batches' = 0
    BY <1>2, <1>4 DEF ClockReader
  <1>15. done' \in [Signals -> BOOLEAN] /\ \A s \in Signals : done'[s]
    <2>1. /\ done' \in [Signals -> BOOLEAN]
          /\ \A s \in Signals \ {0} : done'[s] <=> done[s] /\ ~o_start(s)
          /\ done'[0] <=> ~o_start(0) /\ (done[0] \/ rd # "xfer")
      BY <1>2, DoneMoves
    <2>2. done'[0]
      BY <2>1, <1>3, <1>4
    <2> QED BY <2>1, <2>2, <1>3, <1>4
  <1>16. Registers'
    BY <1>1, <1>2, <1>5, <1>6, <1>7, <1>9, <1>10, <1>11, <1>12, <1>13, <1>14, <1>15
       DEF Registers
  <1>17. Quiet'
    BY <1>12, <1>13, <1>14, <1>15 DEF Quiet, Stages
  <1>18. RoundsApart'
    <2>1. (\A t \in 1..9 : t \in Signals) /\ WrUram \in Signals /\ 0 \in Signals
      BY DEF Signals, Stages, WrUram
    <2> QED BY <2>1, <1>5, <1>15 DEF RoundsApart
  <1>19. Levels'
    <2>1. ~rb_status'[0]
      BY <1>1, <1>10 DEF Levels
    <2>2. \A s \in 5..9 : status'[s] <=> n'[s] # 0
      BY <1>12, <1>13
    <2>3. n'[8] = 0 /\ job'.level \in 1..MaxN /\ MaxN \in Nat
      BY <1>1, <1>2, <1>13, JobFacts DEF Registers
    <2>4. n'[8] # job'.level
      BY <2>3
    <2> QED BY <2>1, <2>2, <2>4 DEF Levels
  <1>20. Ends'
    BY <1>1, <1>2, <1>5 DEF Ends
  <1> QED BY <1>5, <1>16, <1>17, <1>18, <1>19, <1>20 DEF ControlInv

(* A start with any job finds the pipeline empty and clears what the run   *)
(* before has left in the registers.                                       *)
LEMMA StartKeeps ==
  ASSUME ControlInv, NEW j \in Jobs, Start(j)
  PROVE  ControlInv'
  <1>1. Registers /\ RoundsApart /\ Levels /\ Ends /\ Quiet /\ idle /\ ~wr
    BY Zenon DEF ControlInv, Start, Ends
  <1>2. /\ ControlClock(TRUE, rd = "idle") /\ ClockReader(TRUE) /\ ClockDone(TRUE)
        /\ wr' = (wr \/ o_mvp_done) /\ job' = j /\ ap_idle' = FALSE
        /\ starts' = starts + 1 /\ starts < MaxStarts
    BY Zenon DEF Start, Clock
  <1>3. /\ \A s \in Signals : ~o_start(s)
        /\ ~o_mvp_done
    BY <1>1, IdleStill
  <1>4. rd = "idle" /\ (\A s \in Signals : done[s])
    BY <1>1 DEF Quiet
  <1>5. /\ ~idle' /\ idle' \in BOOLEAN /\ ~wr' /\ wr' \in BOOLEAN
        /\ ~start_pulse' /\ start_pulse' \in BOOLEAN
        /\ ~reduce_trace' /\ reduce_trace' \in BOOLEAN
    BY <1>1, <1>2, <1>3 DEF ControlClock, reduce_trace_nxt
  <1>6. delay' \in 0..3
    BY <1>1, <1>2 DEF ControlClock, Registers
  <1>8. ClockStalls /\ ClockRbStatus(TRUE) /\ ClockCounts(TRUE)
    BY <1>2, Zenon DEF ControlClock
  <1>9. /\ stall' \in BOOLEAN /\ stall_s2' \in BOOLEAN /\ stall_s4' \in BOOLEAN
        /\ stall_s0s1s2' \in BOOLEAN /\ stall_s3s4' \in BOOLEAN
    BY <1>1, <1>8, StallTypes
  <1>10. rb_status' = [k \in 0..MaxN |-> FALSE]
    BY <1>8 DEF ClockRbStatus
  <1>11. /\ s2_cnt' = 0 /\ s4_cnt' = 0 /\ write_uram_cnt' = 0
         /\ write_uram' /\ write_uram' \in BOOLEAN
    BY <1>8 DEF ClockCounts, CountTo
  <1>12. status' = [s \in Stages |-> FALSE] /\ n' = [s \in 5..9 |-> 0]
    BY <1>2 DEF ControlClock
  <1>13. /\ \A s \in 0..9 : ~status'[s]
         /\ ~status'[0] /\ ~status'[1] /\ ~status'[2] /\ ~status'[3] /\ ~status'[4]
    BY <1>12 DEF Stages
  <1>14. rd' = "xfer" /\ batches' = 0
    BY <1>2, <1>4 DEF ClockReader
  <1>15. done' \in [Signals -> BOOLEAN] /\ (\A s \in Signals \ {0} : done'[s]) /\ ~done'[0]
    BY <1>2, <1>3, <1>4, DoneMoves
  <1>16. /\ MaxN \in Nat /\ j.level \in 1..MaxN /\ j.split \in 1..4
         /\ j.index \in Nat /\ j.index >= 1
    BY JobsAssumption
  <1>17. Registers'
    <2>1. n' \in [5..9 -> 0..MaxN]
      BY <1>12, <1>16
    <2>2. status' \in [Stages -> BOOLEAN] /\ rb_status' \in [0..MaxN -> BOOLEAN]
      BY <1>10, <1>12
    <2>3. /\ s2_cnt' \in 0..(job'.split - 1) /\ s4_cnt' \in 0..(job'.index - 1)
          /\ write_uram_cnt' \in 0..(job'.split - 1)
      BY <1>2, <1>11, <1>16
    <2>4. starts' \in 0..MaxStarts
      BY <1>1, <1>2, MaxStartsAssumption DEF Registers
    <2> QED BY <1>2, <1>5, <1>6, <1>9, <1>11, <1>14, <1>15, <2>1, <2>2, <2>3, <2>4
            DEF Registers
  <1>18. RoundsApart'
    <2>1. (\A t \in 1..9 : t \in Signals \ {0}) /\ WrUram \in Signals \ {0}
      BY DEF Signals, Stages, WrUram
    <2> QED BY <2>1, <1>5, <1>14, <1>15 DEF RoundsApart
  <1>19. Levels'
    <2>1. ~rb_status'[0]
      BY <1>10, <1>16
    <2>2. \A s \in 5..9 : status'[s] <=> n'[s] # 0
      BY <1>12 DEF Stages
    <2>3. n'[8] = 0
      BY <1>12
    <2>4. n'[8] # job'.level
      BY <2>3, <1>2, <1>16
    <2> QED BY <2>1, <2>2, <2>4 DEF Levels
  <1>20. Ends'
    BY <1>2, <1>5 DEF Ends
  <1>21. data_size_batches' \in Nat /\ data_size_batches' >= 1
    <2> DEFINE a == 2^j.level
    <2>1. a \in Nat
      BY <1>16, NatPower
    <2>2. data_size_batches' = (a * j.split) \div (2 * j.index) + j.split
      BY <1>2 DEF data_size_batches
    <2> HIDE DEF a
    <2> DEFINE b == a * j.split
               e == 2 * j.index
    <2>3. b \in Nat /\ e \in Nat /\ e > 0
      BY <2>1, <1>16
    <2>4. data_size_batches' = b \div e + j.split
      BY <2>2
    <2> HIDE DEF b, e
    <2>5. b \div e \in Nat
      BY <2>3
    <2> QED BY <2>4, <2>5, <1>16
  <1>22. ReaderRight'
    BY <1>13, <1>14, <1>15, <1>21 DEF ReaderRight
  <1>23. Entered' = 0 /\ Passed' = 0
    <2>1. Entered' = 0
      BY <1>13, <1>14 DEF Entered, Num
    <2>2. Num(status'[0]) = 0 /\ Num(status'[1]) = 0 /\ Num(status'[2]) = 0
      BY <1>13 DEF Num
    <2>3. Passed' = ((Entered' - Num(status'[0])) - Num(status'[1])) - Num(status'[2])
      BY Zenon DEF Passed
    <2>4. Passed' = ((0 - 0) - 0) - 0
      BY <2>1, <2>2, <2>3, Zenon
    <2>5. ((0 - 0) - 0) - 0 = 0
      OBVIOUS
    <2> QED BY <2>1, <2>4, <2>5, Zenon
  <1>24. NoBubble'
    BY <1>13, <1>21, <1>23 DEF NoBubble, Num
  <1>25. s2_due' = 0 /\ s4_due' = 0
    <2>1. ~o_start(2)' /\ ~o_start(4)'
      BY <1>5 DEF o_start
    <2> QED BY <2>1, <1>11 DEF s2_due, s4_due, CountTo
  <1>26. GroupsInOrder(0, 0)'
    BY <1>2, <1>11, <1>13, <1>16, <1>23, <1>25 DEF GroupsInOrder
  <1>27. Taken(0)' = 0
    <2>1. Taken(0)' = (((0 - Num(status'[3])) * job'.index) + s4_due') - Num(status'[4])
      BY Zenon DEF Taken, Extracted, FirstRow
    <2>2. Num(status'[3]) = 0 /\ Num(status'[4]) = 0
      BY <1>13 DEF Num
    <2>3. Taken(0)' = (((0 - 0) * j.index) + 0) - 0
      BY <2>1, <2>2, <1>2, <1>25, Zenon
    <2>4. (((0 - 0) * j.index) + 0) - 0 = 0
      BY <1>16
    <2> QED BY <2>3, <2>4
  <1>28. PICK L \in Nat : L = j.level /\ L \in 1..MaxN
    BY <1>16
  <1>29. PICK c \in [1..L -> Nat] : \A k \in 1..L : c[k] = 0
    <2> DEFINE e == [k \in 1..L |-> 0]
    <2>1. e \in [1..L -> Nat] /\ \A k \in 1..L : e[k] = 0
      OBVIOUS
    <2> HIDE DEF e
    <2> QED BY <2>1
  <1>30. Tally(c)'
    <2>1. ASSUME NEW k \in 1..(L - 1)
          PROVE  c[k] = (InFlight(k)' + Num(rb_status'[k])) + 2 * c[k + 1]
      <3>1. k # 0 /\ k \in 0..MaxN /\ c[k] = 0 /\ c[k + 1] = 0
        <4>1. k # 0 /\ k \in 0..MaxN /\ k \in 1..L /\ k + 1 \in 1..L
          BY <1>16, <1>28
        <4> QED BY <4>1, <1>29
      <3>2. InFlight(k)' = ((Same(n'[5], k) + Same(n'[6], k)) + Same(n'[7], k)) + Same(n'[8], k)
        BY DEF InFlight, Same
      <3>3. /\ Same(n'[5], k) = 0 /\ Same(n'[6], k) = 0
            /\ Same(n'[7], k) = 0 /\ Same(n'[8], k) = 0
        BY <3>1, <1>12 DEF Same
      <3>4. InFlight(k)' = 0
        <4>1. InFlight(k)' = ((0 + 0) + 0) + 0
          BY <3>2, <3>3, Zenon
        <4>2. ((0 + 0) + 0) + 0 = 0
          OBVIOUS
        <4> QED BY <4>1, <4>2, Zenon
      <3>5. Num(rb_status'[k]) = 0
        BY <3>1, <1>10 DEF Num
      <3>6. 0 = (0 + 0) + 2 * 0
        OBVIOUS
      <3> QED BY <3>1, <3>4, <3>5, <3>6, Zenon
    <2>2. \A s \in 5..9 : n'[s] < L
      BY <1>12, <1>28
    <2>3. \A k \in L..MaxN : ~rb_status'[k]
      BY <1>10, <1>28
    <2>4. c[L] = 0
      BY <1>28, <1>29
    <2> QED BY <2>1, <2>2, <2>3, <2>4, <1>2, <1>5, <1>28 DEF Tally
  <1>31. RunInOrder'
    <2>1. c \in [1..job'.level -> Nat] /\ c[1] = 0
      BY <1>2, <1>28, <1>29
    <2> QED BY <2>1, <1>26, <1>27, <1>30 DEF RunInOrder
  <1> QED BY <1>5, <1>17, <1>18, <1>19, <1>20, <1>22, <1>24, <1>31 DEF ControlInv, Running

-----------------------------------------------------------------------------
(* The theorems                                                            *)

(* The invariant holds after reset.                                        *)
LEMMA InitControl == Init => ControlInv
  <1> SUFFICES ASSUME Init PROVE ControlInv
    OBVIOUS
  <1>1. /\ job \in Jobs /\ done = [s \in Signals |-> TRUE] /\ ControlReset
        /\ rd = "idle" /\ batches = 0 /\ wr = FALSE /\ ap_idle = TRUE /\ starts = 0
    BY DEF Init
  <1>2. /\ MaxN \in Nat /\ job.level \in 1..MaxN /\ job.split \in 1..4
        /\ job.index \in Nat /\ job.index >= 1
    BY <1>1, JobFacts
  <1>3. Registers
    <2>1. done \in [Signals -> BOOLEAN]
      BY <1>1
    <2>2. status \in [Stages -> BOOLEAN] /\ rb_status \in [0..MaxN -> BOOLEAN]
      BY <1>1 DEF ControlReset
    <2>3. n \in [5..9 -> 0..MaxN] /\ delay \in 0..3
      BY <1>1, <1>2 DEF ControlReset
    <2>4. /\ s2_cnt \in 0..(job.split - 1) /\ s4_cnt \in 0..(job.index - 1)
          /\ write_uram_cnt \in 0..(job.split - 1)
      BY <1>1, <1>2 DEF ControlReset
    <2>5. starts \in 0..MaxStarts /\ batches \in Nat
      BY <1>1, MaxStartsAssumption
    <2> QED BY <1>1, <2>1, <2>2, <2>3, <2>4, <2>5 DEF Registers, ControlReset
  <1>4. \A s \in Signals : done[s]
    BY <1>1
  <1>5. Quiet
    BY <1>1, <1>4 DEF Quiet, ControlReset, Stages
  <1>6. RoundsApart
    <2>1. (\A t \in 1..9 : t \in Signals) /\ WrUram \in Signals /\ 0 \in Signals
      BY DEF Signals, Stages, WrUram
    <2> QED BY <2>1, <1>1, <1>4 DEF RoundsApart, ControlReset
  <1>7. Levels
    BY <1>1, <1>2 DEF Levels, ControlReset, Stages
  <1>8. Ends /\ idle
    BY <1>1 DEF Ends, ControlReset
  <1> QED BY <1>3, <1>5, <1>6, <1>7, <1>8 DEF ControlInv

(* Every step keeps it.                                                    *)
LEMMA NextControl == ControlInv /\ [Next]_vars => ControlInv'
  <1> SUFFICES ASSUME ControlInv, [Next]_vars PROVE ControlInv'
    OBVIOUS
  <1>1. CASE Tick
    BY <1>1, RoundKeeps, PlainKeeps, IdleKeeps
  <1>2. CASE \E j \in Jobs : Start(j)
    BY <1>2, StartKeeps
  <1>3. ASSUME NEW s \in {1, 2, 3, 4, 5, 6, 7, 8, 9, WrUram}, StageDone(s) PROVE ControlInv'
    <2>1. s \in Signals /\ s # 0
      BY DEF Signals, Stages, WrUram
    <2> QED BY <2>1, <1>3, StageKeeps
  <1>4. CASE Work
    <2>1. CASE BatchRead
      BY <2>1, BatchKeeps
    <2>2. CASE WriteDone
      BY <2>2, WriteKeeps
    <2>3. CASE ~BatchRead /\ ~WriteDone
      <3>1. \E s \in {1, 2, 3, 4, 5, 6, 7, 8, 9, WrUram} : StageDone(s)
        BY <1>4, <2>3 DEF Work, DpNtt, DpWrUram, DpMulAdd, PreIntt, MExt, MuxMonox,
           NttS6, MulAccS7, InttS8, MsAddx
      <3> QED BY <3>1, <1>3
    <2> QED BY <2>1, <2>2, <2>3
  <1>5. CASE UNCHANGED vars
    <2>1. /\ job' = job /\ done' = done /\ rd' = rd /\ batches' = batches
          /\ wr' = wr /\ ap_idle' = ap_idle /\ starts' = starts
          /\ idle' = idle /\ delay' = delay /\ start_pulse' = start_pulse
          /\ reduce_trace' = reduce_trace /\ stall' = stall /\ stall_s2' = stall_s2
          /\ stall_s4' = stall_s4 /\ stall_s0s1s2' = stall_s0s1s2
          /\ stall_s3s4' = stall_s3s4 /\ status' = status /\ n' = n
          /\ rb_status' = rb_status /\ s2_cnt' = s2_cnt /\ s4_cnt' = s4_cnt
          /\ write_uram' = write_uram /\ write_uram_cnt' = write_uram_cnt
      BY <1>5 DEF vars, control, stalls, counts
    <2>2. Registers' /\ RoundsApart' /\ Levels' /\ Ends' /\ (idle => Quiet')
      BY <2>1 DEF ControlInv, Registers, RoundsApart, Levels, Ends, Quiet
    <2>3. ASSUME ~idle PROVE Running'
      <3>1. Registers /\ Running /\ Levels
        BY <2>3 DEF ControlInv
      <3>2. data_size_batches' = data_size_batches
        BY <2>1, Zenon DEF data_size_batches
      <3>3. \A t : o_start(t)' <=> o_start(t)
        BY <2>1 DEF o_start
      <3>4. ReaderRight'
        BY <2>1, <3>1, <3>2 DEF Running, ReaderRight
      <3>5. Entered' = Entered
        BY <2>1, <3>2, <3>3 DEF Entered, Num
      <3>6. s2_due' = s2_due /\ s4_due' = s4_due
        BY <2>1, <3>3 DEF s2_due, s4_due, CountTo
      <3>7. NoBubble' /\ RunInOrder'
        BY <2>1, <3>1, <3>5, <3>6, SameRun DEF Running
      <3> QED BY <3>4, <3>7 DEF Running
    <2> QED BY <2>1, <2>2, <2>3 DEF ControlInv
  <1> QED BY <1>1, <1>2, <1>4, <1>5 DEF Next

(* The registers of the controller always account for the batches, the     *)
(* leaves and the blocks of the run: control.v never skips or repeats one, *)
(* whatever the finishing times of the stages.                             *)
THEOREM ControlAlwaysRight == Spec => []ControlInv
  BY InitControl, NextControl, PTL DEF Spec

(* A trace, or the last level in stage 9, means that the root has been     *)
(* made: the front is empty and the root is alone.                         *)
LEMMA RootReached ==
  ASSUME ControlInv, ~idle, reduce_trace \/ n[9] = MaxN
  PROVE  /\ rd = "idle" /\ \A s \in 0..4 : ~status[s]
         /\ \E s \in 5..9, m \in job.level..MaxN : Root(s, m)
  <1>1. Registers /\ RoundsApart /\ Levels /\ Running
    BY DEF ControlInv
  <1>2. PICK g \in Nat, q \in Nat :
          /\ GroupsInOrder(g, q) /\ Taken(g) >= 0
          /\ \E c \in [1..job.level -> Nat] : c[1] = Taken(g) /\ Tally(c)
    BY <1>1 DEF Running, RunInOrder
  <1>3. PICK L \in Nat : L = job.level
    <2>1. job \in Jobs
      BY <1>1 DEF Registers
    <2> QED BY <2>1, JobFacts
  <1>4. PICK c \in [1..L -> Nat] : c[1] = Taken(g) /\ Tally(c)
    BY <1>2, <1>3, Zenon
  <1>5. L \in 1..MaxN /\ MaxN \in Nat
    BY <1>1, <1>3, JobFacts DEF Registers
  <1>6. c[L] # 0
    <2> SUFFICES ASSUME c[L] = 0 PROVE FALSE
      OBVIOUS
    <2>1. ~reduce_trace /\ \A s \in 5..9 : n[s] < L
      BY <1>3, <1>4 DEF Tally
    <2>2. n[9] < L
      BY <2>1
    <2> QED BY <2>1, <2>2, <1>5
  <1>7. /\ Taken(g) \in Nat
        /\ Taken(g) + Num(status[4]) <= 2^(job.level - 1)
        /\ Taken(g) = 2^(job.level - 1) =>
             rd = "idle" /\ \A s \in 0..4 : ~status[s]
    BY <1>1, <1>2, FrontBound DEF Running
  <1>8. c[1] <= 2^(L - 1)
    <2>1. c[1] + Num(status[4]) <= 2^(L - 1)
      BY <1>3, <1>4, <1>7, Zenon
    <2>2. c[1] \in Nat /\ Num(status[4]) \in Nat /\ 2^(L - 1) \in Nat
      BY <1>4, <1>5, <1>7, NumType, NatPower
    <2> QED BY <2>1, <2>2
  <1>9. c[1] = 2^(L - 1)
    BY <1>1, <1>3, <1>4, <1>6, <1>8, TreeComplete
  <1>10. Taken(g) = 2^(job.level - 1)
    BY <1>3, <1>4, <1>9, Zenon
  <1>11. \E s \in 5..9, m \in job.level..MaxN : Root(s, m)
    BY <1>3, <1>4, <1>6 DEF Tally
  <1> QED BY <1>7, <1>10, <1>11

(* What the invariant says about the properties.                           *)
LEMMA ControlImplies == ControlInv => NoStartIsLost /\ TraceAfterTree /\ DrainedAtDone
  <1> SUFFICES ASSUME ControlInv PROVE NoStartIsLost /\ TraceAfterTree /\ DrainedAtDone
    OBVIOUS
  <1>1. Registers /\ RoundsApart /\ Levels
    BY DEF ControlInv
  <1>2. NoStartIsLost
    <2> SUFFICES ASSUME NEW s \in Signals, o_start(s)
                 PROVE  done[s] \/ (s = 0 /\ rd = "xfer" /\ batches = 0)
      BY DEF NoStartIsLost
    <2>1. start_pulse
      BY StartStatus
    <2>2. s = 0 \/ s \in 1..WrUram
      BY DEF Signals, Stages, WrUram
    <2> QED BY <2>1, <2>2, <1>1 DEF RoundsApart
  <1>3. idle => rd = "idle" /\ \A s \in Stages : ~status[s]
    BY DEF ControlInv, Quiet
  <1>4. PICK L : L = job.level
    OBVIOUS
  <1>5. TraceAfterTree
    <2> SUFFICES ASSUME reduce_trace
                 PROVE  /\ rd = "idle"
                        /\ \A s \in 0..4 : ~status[s]
                        /\ \A s, t \in 5..9 :
                             status[s] /\ status[t] => s = t \/ {s, t} = {5, 9}
      BY DEF TraceAfterTree
    <2>1. CASE idle
      BY <2>1, <1>3 DEF Stages
    <2>2. CASE ~idle
      <3>1. /\ rd = "idle" /\ \A s \in 0..4 : ~status[s]
            /\ \E s \in 5..9, m \in job.level..MaxN : Root(s, m)
        BY <2>2, RootReached
      <3>2. PICK r \in 5..9, m \in L..MaxN : Root(r, m)
        BY <3>1, <1>4
      <3>3. \A t \in 5..9 : status[t] => t = r \/ (r = 5 /\ t = 9)
        BY <3>2, <1>1, <1>4, RootPlace
      <3>4. ASSUME NEW s \in 5..9, NEW t \in 5..9, status[s], status[t]
            PROVE  s = t \/ {s, t} = {5, 9}
        <4>1. /\ s = r \/ (r = 5 /\ s = 9)
              /\ t = r \/ (r = 5 /\ t = 9)
          BY <3>3, <3>4
        <4>2. s = t \/ (s = 5 /\ t = 9) \/ (s = 9 /\ t = 5)
          BY <4>1
        <4> QED BY <4>2
      <3> QED BY <3>1, <3>4
    <2> QED BY <2>1, <2>2
  <1>6. DrainedAtDone
    <2> SUFFICES ASSUME o_mvp_done
                 PROVE  rd = "idle" /\ \A s \in 0..8 : ~status[s]
      BY DEF DrainedAtDone
    <2>1. n[9] = MaxN /\ status[9]
      BY DEF o_mvp_done
    <2>2. ~idle
      BY <2>1, <1>3 DEF Stages
    <2>3. /\ rd = "idle" /\ \A s \in 0..4 : ~status[s]
          /\ \E s \in 5..9, m \in job.level..MaxN : Root(s, m)
      BY <2>1, <2>2, RootReached
    <2>4. PICK r \in 5..9, m \in L..MaxN : Root(r, m)
      BY <2>3, <1>4
    <2>5. r = 9 /\ \A t \in 5..9 : status[t] => t = r \/ (r = 5 /\ t = 9)
      BY <2>1, <2>4, <1>1, <1>4, RootPlace
    <2>6. \A s \in 0..8 : s \in 0..4 \/ (s \in 5..9 /\ s # 9)
      OBVIOUS
    <2> QED BY <2>3, <2>5, <2>6
  <1> QED BY <1>2, <1>5, <1>6

(* No start pulse of the controller reaches a stage that still works:      *)
(* control.v waits for the dones of all stages that take part, and for     *)
(* their fall after the starts.                                            *)
THEOREM NoStartIsEverLost == Spec => []NoStartIsLost
  BY ControlAlwaysRight, ControlImplies, PTL

(* reduce_trace is set only when every leaf is packed: the test n_s8 =     *)
(* level of control.v is enough, although the controller counts neither    *)
(* leaves nor blocks.                                                      *)
THEOREM TraceAlwaysAfterTree == Spec => []TraceAfterTree
  BY ControlAlwaysRight, ControlImplies, PTL

(* When control.v reports the end of a run, the reader has stopped and     *)
(* only stage 9 had work.                                                  *)
THEOREM AlwaysDrainedAtDone == Spec => []DrainedAtDone
  BY ControlAlwaysRight, ControlImplies, PTL

-----------------------------------------------------------------------------
(* What the buffers hold                                                   *)

(* The products of the first m splits of row group h.                      *)
Products(h, m) ==
  {<<Batch(GroupStart(h) + v, 1), Batch(v, 1)>> : v \in 0..(m - 1)}

(* The sum of the first m products; the whole sum; the group transformed   *)
(* back.                                                                   *)
PartGroup(h, m) == Group(Products(h, m), 0)

RawGroup(h) == Group(Products(h, job.split), 0)

TheGroup(h) == Group(Products(h, job.split), 1)

(* The done signals of the buffer of stages 0 to 2 and of the buffer       *)
(* between stages 4 and 5.                                                 *)
DpDone ==
  done[0] /\ done[1] /\ (IF write_uram THEN done[WrUram] ELSE done[2])

LeafDone == done[4] /\ (done[5] \/ o_mux_s5_mode)

(* The start pulse of a round in which stages 0 to 2 move on.              *)
FrontGoes == start_pulse /\ ~stall_s0s1s2 /\ ~stall_s4

(* The batches before the one in stage 1, and before the one in stage 0.   *)
Behind1 == Passed + Num(status[2])

Behind0 == Behind1 + Num(status[1])

(* The buffers of stages 0 to 2 have changed hands in this round.          *)
DpTurned == edges.dp /\ DpDone /\ ~FrontGoes

(* Each of stages 0 to 2 has the batch that is due there; when the buffers *)
(* have changed hands, the next stage has it already.                      *)
DpRight ==
  IF DpTurned
  THEN /\ status[0] => dp.ntt = Batch(Behind0, 0)
       /\ status[1] => dp.madd = Batch(Behind1, 1)
  ELSE /\ status[0] /\ rd # "xfer" /\ ~o_start(0) => dp.axi = Batch(Behind0, 0)
       /\ status[1] =>
            dp.ntt = Batch(Behind1, IF done[1] /\ ~o_start(1) THEN 1 ELSE 0)
       /\ status[2] => dp.madd = Batch(Passed, 1)

(* The splits of the vector that are stored.                               *)
Stored == IF write_uram
          THEN Passed + Num(status[2] /\ done[WrUram] /\ ~start_pulse)
          ELSE job.split

(* A stored split is the batch of that number, transformed.                *)
UramRight == \A v \in 0..(job.split - 1) : v < Stored => uram[v] = Batch(v, 1)

(* Which use of stage 2, and which stalls, the control is in.              *)
Modes ==
  /\ ~done[WrUram] => write_uram
  /\ ~done[2] => ~write_uram
  /\ s4_due # 0 => status[4] /\ done[3] /\ ~o_start(3)
  /\ start_pulse /\ write_uram => FrontGoes
  /\ start_pulse /\ status[4] /\ ~o_start(4) => stall
  /\ o_start(0) => rd # "idle"

(* While a stage works, the registered done of its buffer has fallen, so   *)
(* that the next rise is seen; when a round begins, none is left to rise.  *)
EdgesRight ==
  /\ ~DpDone /\ delay >= 2 => ~edges.dp \/ \A s \in 0..2 : ~status[s]
  /\ ~LeafDone /\ delay >= 2 => ~edges.leaf
  /\ ~(done[2] /\ done[3] /\ done[4]) => ~edges.pre
  /\ start_pulse => /\ DpDone => edges.dp
                    /\ o_pre_tpp_switch => edges.pre
                    /\ LeafDone /\ edges.leaf

(* The buffer of stages 2 to 4 has changed hands: in this round, or in the *)
(* one in which stage 4 took the first row of the group it still works on. *)
PreTurned == s4_due # 0 \/ (edges.pre /\ o_pre_tpp_switch)

(* Stages 2 and 3 have their row group, as far as it has been computed.    *)
PreRight(g, q) ==
  IF PreTurned
  THEN /\ status[3] => pre.mext = TheGroup(g - 1)
       /\ status[2] /\ ~write_uram => pre.intt = RawGroup(g)
  ELSE /\ status[3] => pre.intt = IF done[3] /\ ~o_start(3) THEN TheGroup(g - 1)
                                  ELSE RawGroup(g - 1)
       /\ status[2] /\ ~write_uram =>
            IF done[2] /\ ~o_start(2) THEN pre.madd = PartGroup(g, q + 1)
            ELSE q > 0 => pre.madd = PartGroup(g, q)

(* The row group in stage 4.                                               *)
Group4(g) == IF s4_due # 0 THEN g - 1 ELSE g - Num(status[3]) - 1

(* The buffer between stages 4 and 5 has changed hands.                    *)
LeafTurned == edges.leaf /\ LeafDone

(* Stage 4 has its row group, and the leaf that it extracts is the next    *)
(* one of the run until stage 5 has taken it.                              *)
LeafRight(g) ==
  /\ ~done[4] \/ o_start(4) => pre.mext = TheGroup(Group4(g))
  /\ status[4] /\ done[4] /\ ~o_start(4) =>
       IF LeafTurned THEN leaf.mux = TheLeaf(Taken(g))
       ELSE leaf.mext = TheLeaf(Taken(g))
  /\ status[5] /\ ~o_mux_s5_mode /\ (start_pulse \/ ~done[5]) =>
       leaf.mux = TheLeaf(Taken(g) - 1)

(* The blocks of level k in the stages from 5 to the one before s.         *)
Behind(s, k) ==
  CASE s = 5 -> 0
    [] s = 6 -> Same(n[5], k)
    [] s = 7 -> Same(n[5], k) + Same(n[6], k)
    [] s = 8 -> (Same(n[5], k) + Same(n[6], k)) + Same(n[7], k)
    [] s = 9 -> InFlight(k)

(* The place of the block in stage s among those of its level: blocks are  *)
(* made in order, so it follows from how many came after it.               *)
Index(c, s) == IF n[s] < job.level THEN (c[n[s]] - 1) - Behind(s, n[s]) ELSE 0

(* The leaves of block i of level k, and the trips it has made.            *)
Size(k) == 2^(Level(k) - 1)

Cluster(k, i) == {TheLeaf(i * Size(k) + j) : j \in 0..(Size(k) - 1)}

Trips(k) == [m \in 1..k |-> TheTrip(m)]

(* The same before stage 7 has applied the key of the last trip.           *)
OpenTrips(k) == [m \in 1..k |-> IF m = k THEN [TheTrip(m) EXCEPT !.key = NoKey]
                                ELSE TheTrip(m)]

(* The step of the key switch that stage s has done in this round.         *)
Step(s) == IF done[s] /\ ~start_pulse THEN 1 ELSE 0

(* Block i of level k after stage 7, and before.                           *)
Made(k, i, t) == Block(Cluster(k, i), Trips(k), t)

Open(k, i, t) == Block(Cluster(k, i), OpenTrips(k), t)

(* Which input stage 5 takes: the packing of two siblings, the next leaf,  *)
(* or a block of the trace.                                                *)
StageModes ==
  /\ stall => /\ ~reduce_trace /\ n[9] # 0 /\ n[5] = n[9] + 1 /\ n[5] <= job.level
  /\ status[5] /\ ~stall /\ ~reduce_trace => n[5] = 1
  /\ status[5] /\ reduce_trace => n[5] = n[9] + 1 /\ n[9] >= job.level
  /\ n[9] >= job.level => reduce_trace
  /\ n[9] \in 1..(job.level - 1) => (stall <=> ~rb_status[n[9]])

(* Stages 5 to 9 each have the block of their level whose turn it is, as   *)
(* far as the stages before have got with it.                              *)
StagesRight(c) ==
  /\ status[5] /\ done[5] /\ ~start_pulse => pp1.a = Open(n[5], Index(c, 5), 0)
  /\ status[6] => Held(6) = Open(n[6], Index(c, 6), Step(6))
  /\ status[7] => Held(7) = Open(n[7], Index(c, 7), 1)
  /\ status[7] /\ done[7] /\ ~start_pulse => pp2.a = Made(n[7], Index(c, 7), 2)
  /\ status[8] => Held(8) = Made(n[8], Index(c, 8), 2 + Step(8))
  /\ status[9] => Held(9) = Made(n[9], Index(c, 9), 3)

(* The place of the block that is packed with the one in stage 9.          *)
Sibling(c) == Index(c, 9) - 1

(* A block that waits in the reduce buffer is the left one of the pair     *)
(* that its level packs next; the one being packed is still there; and the *)
(* last trip ends in entry 0.                                              *)
RedbufRight(c) ==
  /\ \A k \in 1..(job.level - 1) :
       rb_status[k] /\ ~(n[9] = k /\ (start_pulse \/ ~done[9])) =>
         redbuf[k - 1] = Made(k, 2 * c[k + 1], 3)
  /\ stall => redbuf[n[9] - 1] = Made(n[9], Sibling(c), 3)
  /\ n[9] = MaxN /\ done[9] /\ ~start_pulse => redbuf[0] = Made(MaxN, 0, 3)

(* Between runs: the result is in the reduce buffer or in device memory,   *)
(* and nothing is left of the run before.                                  *)
Outcome ==
  /\ idle => wr \/ ap_idle
  /\ idle => ~stall
  /\ wr => redbuf[0] = Made(MaxN, 0, 3)
  /\ idle => \A k \in 1..(job.level - 1) : ~rb_status[k]
  /\ ap_idle /\ starts > 0 => out = Made(MaxN, 0, 3)
  /\ batches \in 0..data_size_batches

(* The fields of the buffers.                                              *)
Shaped ==
  /\ DOMAIN dp = {"axi", "ntt", "madd"}
  /\ DOMAIN uram = 0..3
  /\ DOMAIN pre = {"madd", "intt", "mext"}
  /\ DOMAIN leaf = {"mext", "mux"}
  /\ DOMAIN pp1 = {"a", "b", "c"}
  /\ DOMAIN pp2 = {"a", "b", "c"}
  /\ DOMAIN redbuf = 0..(MaxN - 1)

-----------------------------------------------------------------------------
(* The clock and the other steps, as the buffers see them                  *)

(* What a clock edge does to the buffers.                                  *)
LEMMA ClockData ==
  ASSUME NEW start, Clock(start)
  PROVE  /\ edges'.dp <=> DpDone
         /\ edges'.pre <=> o_pre_tpp_switch
         /\ edges'.leaf <=> LeafDone
         /\ dp' = IF DpDone /\ ~edges.dp
                  THEN [axi |-> dp.madd, ntt |-> dp.axi, madd |-> dp.ntt] ELSE dp
         /\ pre' = IF o_pre_tpp_switch /\ ~edges.pre
                   THEN [madd |-> pre.mext, intt |-> pre.madd, mext |-> pre.intt]
                   ELSE pre
         /\ leaf' = IF LeafDone /\ ~edges.leaf
                    THEN [mext |-> leaf.mux, mux |-> leaf.mext] ELSE leaf
         /\ pp1' = pp_buffer(pp1) /\ pp2' = pp_buffer(pp2)
         /\ uram' = uram /\ redbuf' = redbuf
  <1>1. ClockBuffers
    BY Zenon DEF Clock
  <1>2. /\ edges' = BufferDone
        /\ dp_tripple_pp_buffer /\ triple_pp_buffer /\ double_pp_buffer
        /\ pp1' = pp_buffer(pp1) /\ pp2' = pp_buffer(pp2)
        /\ uram' = uram /\ redbuf' = redbuf
    BY <1>1 DEF ClockBuffers
  <1>3. /\ BufferDone.dp <=> DpDone
        /\ BufferDone.pre <=> o_pre_tpp_switch
        /\ BufferDone.leaf <=> LeafDone
    <2>1. /\ BufferDone.dp = DpDone
          /\ BufferDone.pre = o_pre_tpp_switch
          /\ BufferDone.leaf = LeafDone
      BY DEF BufferDone, DpDone, LeafDone
    <2> QED BY <2>1
  <1>4. /\ edges'.dp <=> DpDone
        /\ edges'.pre <=> o_pre_tpp_switch
        /\ edges'.leaf <=> LeafDone
    BY <1>2, <1>3, Zenon
  <1>5. /\ Rising("dp") <=> DpDone /\ ~edges.dp
        /\ Rising("pre") <=> o_pre_tpp_switch /\ ~edges.pre
        /\ Rising("leaf") <=> LeafDone /\ ~edges.leaf
    BY <1>3, Zenon DEF Rising
  <1>6. dp' = IF DpDone /\ ~edges.dp
              THEN [axi |-> dp.madd, ntt |-> dp.axi, madd |-> dp.ntt] ELSE dp
    BY <1>2, <1>5, Zenon DEF dp_tripple_pp_buffer
  <1>7. pre' = IF o_pre_tpp_switch /\ ~edges.pre
               THEN [madd |-> pre.mext, intt |-> pre.madd, mext |-> pre.intt]
               ELSE pre
    BY <1>2, <1>5, Zenon DEF triple_pp_buffer
  <1>8. leaf' = IF LeafDone /\ ~edges.leaf
                THEN [mext |-> leaf.mux, mux |-> leaf.mext] ELSE leaf
    BY <1>2, <1>5, Zenon DEF double_pp_buffer
  <1> QED BY <1>2, <1>4, <1>6, <1>7, <1>8

(* The signals are those of stages 1 to 9, of the reader and of the vector.*)
LEMMA SignalList ==
  /\ \A s \in 0..10 : s \in Signals
  /\ WrUram = 10
  /\ \A s \in Signals : s \in 0..10
  BY DEF Signals, Stages, WrUram

(* The state after a clock edge at which the round is not over.            *)
LEMMA PlainFacts ==
  ASSUME ControlInv, ~idle, ~all_stage_done, Tick
  PROVE  /\ ~idle' /\ job' = job /\ status' = status /\ n' = n
         /\ rb_status' = rb_status /\ ~start_pulse'
         /\ stall' = stall
         /\ (start_pulse => delay' = 1)
         /\ s2_due' = s2_due /\ s4_due' = s4_due /\ s2_cnt' = s2_due /\ s4_cnt' = s4_due
         /\ Entered' = Entered /\ Passed' = Passed
         /\ (write_uram' <=> write_uram) /\ write_uram_cnt' = write_uram_cnt
         /\ (reduce_trace' <=> reduce_trace \/ n[8] = job.level)
         /\ \A s : ~o_start(s)'
         /\ \A s \in 1..10 : done'[s] <=> done[s] /\ ~o_start(s)
         /\ done'[0] <=> ~o_start(0) /\ (done[0] \/ rd # "xfer")
         /\ Clock(FALSE)
  <1>1. /\ ~idle' /\ job' = job /\ status' = status /\ n' = n
        /\ rb_status' = rb_status /\ ~start_pulse'
        /\ stall' = stall
        /\ s2_cnt' = s2_due /\ s4_cnt' = s4_due
        /\ (write_uram' <=> write_uram) /\ write_uram_cnt' = write_uram_cnt
        /\ (reduce_trace' <=> reduce_trace \/ n[8] = job.level)
    BY PlainTick
  <1>2. Clock(FALSE) /\ ControlClock(FALSE, rd = "idle") /\ ClockDone(FALSE)
    BY Zenon DEF Tick, Clock
  <1>3. start_pulse => delay' = 1
    <2>1. start_pulse => delay = 0
      BY DEF ControlInv, RoundsApart
    <2>2. delay' = IF delay < 3 THEN delay + 1 ELSE 3
      BY <1>2 DEF ControlClock
    <2> QED BY <2>1, <2>2
  <1>4. Entered' = Entered /\ s2_due' = s2_due /\ s4_due' = s4_due
    BY PlainDue
  <1>5. Passed' = Passed
    BY <1>1, <1>4, Zenon DEF Passed
  <1>6. \A s : ~o_start(s)'
    BY <1>1 DEF o_start
  <1>7. /\ \A s \in Signals \ {0} : done'[s] <=> done[s] /\ ~o_start(s)
        /\ done'[0] <=> ~o_start(0) /\ (done[0] \/ rd # "xfer")
    BY <1>2, DoneMoves
  <1>8. \A s \in 1..10 : done'[s] <=> done[s] /\ ~o_start(s)
    <2>1. \A s \in 1..10 : s \in Signals \ {0}
      BY SignalList
    <2> QED BY <2>1, <1>7
  <1> QED BY <1>1, <1>2, <1>3, <1>4, <1>5, <1>6, <1>7, <1>8

(* The reader at such a clock edge.                                        *)
LEMMA PlainReader ==
  ASSUME ControlInv, ~idle, ~all_stage_done, Tick
  PROVE  /\ rd = "idle" => rd' = "idle"
         /\ rd = "xfer" => rd' = "xfer"
         /\ rd = "halt" /\ o_start(0) => rd' = "xfer"
         /\ rd = "halt" /\ ~o_start(0) => rd' \in {"idle", "halt"}
         /\ batches' = IF rd = "idle" THEN 0 ELSE batches
  <1>1. ClockReader(FALSE)
    BY PlainTick
  <1>2. /\ rd' = CASE rd = "idle" -> "idle"
                   [] rd = "xfer" -> "xfer"
                   [] rd = "halt" -> IF batches = data_size_batches THEN "idle"
                                     ELSE IF o_start(0) THEN "xfer" ELSE "halt"
        /\ batches' = IF rd = "idle" THEN 0 ELSE batches
    BY <1>1 DEF ClockReader
  <1>3. rd = "halt" /\ o_start(0) => batches # data_size_batches
    <2>1. o_start(0) => start_pulse
      BY DEF o_start
    <2>2. rd = "halt" /\ o_start(0) => done[0]
      BY <2>1 DEF ControlInv, RoundsApart
    <2>3. data_size_batches \in Nat
      BY JobFacts, Counting DEF ControlInv, Registers
    <2> QED BY <2>2, <2>3 DEF ControlInv, Running, ReaderRight
  <1> QED BY <1>2, <1>3

(* A stage finishes: nothing but its done signal and its data changes.     *)
LEMMA StageFacts ==
  ASSUME ControlInv, NEW s \in 1..10, StageDone(s)
  PROVE  /\ ~idle /\ ~idle' /\ ~start_pulse /\ ~start_pulse' /\ delay = 3
         /\ job' = job /\ status' = status /\ n' = n /\ rb_status' = rb_status
         /\ stall' = stall /\ reduce_trace' = reduce_trace /\ edges' = edges
         /\ s2_due' = s2_due /\ s4_due' = s4_due /\ s2_cnt' = s2_due /\ s4_cnt' = s4_due
         /\ s2_cnt' = s2_cnt /\ s4_cnt' = s4_cnt
         /\ Entered' = Entered /\ Passed' = Passed
         /\ write_uram' = write_uram /\ write_uram_cnt' = write_uram_cnt
         /\ rd' = rd /\ batches' = batches
         /\ \A t : ~o_start(t) /\ ~o_start(t)'
         /\ ~done[s] /\ done'[s]
         /\ \A t \in 0..10 : t # s => done'[t] = done[t]
         /\ \A t \in 0..10 : done[t] => done'[t]
         /\ (IF s = 10 THEN status[2] ELSE status[s])
  <1>1. /\ ~done[s] /\ delay = 3 /\ done' = [done EXCEPT ![s] = TRUE]
        /\ job' = job /\ rd' = rd /\ batches' = batches /\ wr' = wr
        /\ idle' = idle /\ delay' = delay /\ start_pulse' = start_pulse
        /\ reduce_trace' = reduce_trace /\ stall' = stall
        /\ status' = status /\ n' = n /\ edges' = edges
        /\ rb_status' = rb_status /\ s2_cnt' = s2_cnt /\ s4_cnt' = s4_cnt
        /\ write_uram' = write_uram /\ write_uram_cnt' = write_uram_cnt
    BY DEF StageDone, control, stalls, counts
  <1>2. ~start_pulse
    BY <1>1 DEF ControlInv, RoundsApart
  <1>3. s \in Signals /\ \A t \in 0..10 : t \in Signals
    BY SignalList
  <1>4. ~idle
    BY <1>1, <1>3 DEF ControlInv, Quiet
  <1>5. \A t : ~o_start(t) /\ ~o_start(t)'
    BY <1>1, <1>2 DEF o_start
  <1>6. /\ s2_due' = s2_due /\ s4_due' = s4_due
        /\ s2_cnt' = s2_due /\ s4_cnt' = s4_due
    BY <1>1, <1>5 DEF s2_due, s4_due, CountTo
  <1>7. Entered' = Entered
    <2>1. data_size_batches' = data_size_batches
      BY <1>1, Zenon DEF data_size_batches
    <2> QED BY <2>1, <1>1, <1>5 DEF Entered, Num
  <1>8. Passed' = Passed
    BY <1>1, <1>7, Zenon DEF Passed
  <1>9. done \in [Signals -> BOOLEAN]
    BY DEF ControlInv, Registers
  <1>10. done'[s] /\ \A t \in 0..10 : t # s => done'[t] = done[t]
    BY <1>1, <1>3, <1>9
  <1>11. \A t \in 0..10 : done[t] => done'[t]
    BY <1>10
  <1>12. IF s = 10 THEN status[2] ELSE status[s]
    <2>1. CASE s = 10
      BY <2>1, <1>1, SignalList DEF ControlInv, RoundsApart
    <2>2. CASE s # 10
      <3>1. s \in 1..9
        BY <2>2
      <3> QED BY <2>2, <3>1, <1>1 DEF ControlInv, RoundsApart
    <2> QED BY <2>1, <2>2
  <1> QED BY <1>1, <1>2, <1>4, <1>5, <1>6, <1>7, <1>8, <1>10, <1>11, <1>12

(* The reader has filled its buffer.                                       *)
LEMMA BatchFacts ==
  ASSUME ControlInv, BatchRead
  PROVE  /\ ~idle /\ ~idle' /\ ~start_pulse /\ ~start_pulse' /\ delay = 3
         /\ job' = job /\ status' = status /\ n' = n /\ rb_status' = rb_status
         /\ stall' = stall /\ reduce_trace' = reduce_trace /\ edges' = edges
         /\ s2_due' = s2_due /\ s4_due' = s4_due /\ s2_cnt' = s2_cnt /\ s4_cnt' = s4_cnt
         /\ Entered' = Entered /\ Passed' = Passed
         /\ write_uram' = write_uram /\ write_uram_cnt' = write_uram_cnt
         /\ done' = done /\ ~done[0] /\ status[0]
         /\ rd = "xfer" /\ rd' = "halt" /\ batches' = batches + 1
         /\ \A t : ~o_start(t) /\ ~o_start(t)'
         /\ batches + 1 <= data_size_batches /\ data_size_batches' = data_size_batches
         /\ batches \in Nat /\ Entered = batches + 1
  <1>1. /\ rd = "xfer" /\ status[0] /\ delay = 3 /\ rd' = "halt"
        /\ batches' = batches + 1 /\ done' = done
        /\ job' = job /\ edges' = edges
        /\ idle' = idle /\ delay' = delay /\ start_pulse' = start_pulse
        /\ reduce_trace' = reduce_trace /\ stall' = stall
        /\ status' = status /\ n' = n
        /\ rb_status' = rb_status /\ s2_cnt' = s2_cnt /\ s4_cnt' = s4_cnt
        /\ write_uram' = write_uram /\ write_uram_cnt' = write_uram_cnt
    BY DEF BatchRead, control, stalls, counts
  <1>2. ~start_pulse
    BY <1>1 DEF ControlInv, RoundsApart
  <1>3. ~idle
    BY <1>1 DEF ControlInv, Quiet
  <1>4. \A t : ~o_start(t) /\ ~o_start(t)'
    BY <1>1, <1>2 DEF o_start
  <1>5. s2_due' = s2_due /\ s4_due' = s4_due
    BY <1>1, <1>4 DEF s2_due, s4_due, CountTo
  <1>6. data_size_batches' = data_size_batches /\ data_size_batches \in Nat
    <2>1. data_size_batches' = data_size_batches
      BY <1>1, Zenon DEF data_size_batches
    <2>2. data_size_batches \in Nat
      BY JobFacts, Counting DEF ControlInv, Registers
    <2> QED BY <2>1, <2>2
  <1>7. batches \in Nat /\ batches < data_size_batches /\ ~done[0]
    BY <1>1, <1>3 DEF ControlInv, Registers, Running, ReaderRight
  <1>8. Entered = batches + 1 /\ Entered' = batches + 1
    BY <1>1, <1>4, <1>7 DEF Entered, Num
  <1>9. Passed' = Passed
    <2>1. Entered' = Entered
      BY <1>8, Zenon
    <2> QED BY <2>1, <1>1, Zenon DEF Passed
  <1>10. batches + 1 <= data_size_batches
    BY <1>6, <1>7
  <1> QED BY <1>1, <1>2, <1>3, <1>4, <1>5, <1>6, <1>7, <1>8, <1>9, <1>10

(* A start finds an empty pipeline.                                        *)
LEMMA StartFacts ==
  ASSUME ControlInv, NEW j \in Jobs, Start(j)
  PROVE  /\ idle /\ ~idle' /\ ~start_pulse' /\ job' = j
         /\ \A s \in 0..9 : ~status'[s]
         /\ \A s \in 5..9 : n'[s] = 0
         /\ \A k \in 0..MaxN : ~rb_status'[k]
         /\ ~reduce_trace' /\ write_uram' /\ write_uram_cnt' = 0
         /\ s2_cnt' = 0 /\ s4_cnt' = 0 /\ s2_due' = 0 /\ s4_due' = 0
         /\ rd' = "xfer" /\ batches' = 0 /\ Entered' = 0 /\ Passed' = 0
         /\ \A s \in 1..10 : done'[s]
         /\ ~done'[0]
         /\ \A s : ~o_start(s)'
         /\ (stall' => stall)
         /\ starts' = starts + 1 /\ ~ap_idle' /\ ap_idle /\ ~wr' /\ out' = out
         /\ Clock(TRUE)
  <1>1. Registers /\ RoundsApart /\ Levels /\ Ends /\ Quiet /\ idle /\ ~wr /\ ap_idle
    BY Zenon DEF ControlInv, Start, Ends
  <1>2. /\ ControlClock(TRUE, rd = "idle") /\ ClockReader(TRUE) /\ ClockDone(TRUE)
        /\ wr' = (wr \/ o_mvp_done) /\ job' = j /\ ap_idle' = FALSE
        /\ starts' = starts + 1 /\ Clock(TRUE) /\ out' = out
    BY Zenon DEF Start, Clock
  <1>3. /\ \A s \in Signals : ~o_start(s)
        /\ ~o_mvp_done /\ ~stall_nxt
    BY <1>1, IdleStill
  <1>4. rd = "idle" /\ (\A s \in Signals : done[s])
    BY <1>1 DEF Quiet
  <1>5. ~idle' /\ ~wr' /\ ~start_pulse' /\ ~reduce_trace'
    BY <1>1, <1>2, <1>3 DEF ControlClock, reduce_trace_nxt
  <1>6. ClockStalls /\ ClockRbStatus(TRUE) /\ ClockCounts(TRUE)
    BY <1>2, Zenon DEF ControlClock
  <1>7. stall' => stall
    BY <1>3, <1>6 DEF ClockStalls, stalls
  <1>8. \A k \in 0..MaxN : ~rb_status'[k]
    BY <1>6 DEF ClockRbStatus
  <1>9. s2_cnt' = 0 /\ s4_cnt' = 0 /\ write_uram_cnt' = 0 /\ write_uram'
    BY <1>6 DEF ClockCounts, CountTo
  <1>10. status' = [s \in Stages |-> FALSE] /\ n' = [s \in 5..9 |-> 0]
    BY <1>2 DEF ControlClock
  <1>11. (\A s \in 0..9 : ~status'[s]) /\ (\A s \in 5..9 : n'[s] = 0)
    BY <1>10 DEF Stages
  <1>12. rd' = "xfer" /\ batches' = 0
    BY <1>2, <1>4 DEF ClockReader
  <1>13. (\A s \in Signals \ {0} : done'[s]) /\ ~done'[0]
    BY <1>2, <1>3, <1>4, DoneMoves
  <1>14. \A s \in 1..10 : done'[s]
    <2>1. \A s \in 1..10 : s \in Signals \ {0}
      BY SignalList
    <2> QED BY <2>1, <1>13
  <1>15. \A s : ~o_start(s)'
    BY <1>5 DEF o_start
  <1>16. s2_due' = 0 /\ s4_due' = 0
    BY <1>9, <1>15 DEF s2_due, s4_due, CountTo
  <1>17. Entered' = 0
    BY <1>11, <1>12 DEF Entered, Num
  <1>18. Passed' = 0
    <2>1. Num(status'[0]) = 0 /\ Num(status'[1]) = 0 /\ Num(status'[2]) = 0
      BY <1>11 DEF Num
    <2>2. Passed' = ((Entered' - Num(status'[0])) - Num(status'[1])) - Num(status'[2])
      BY Zenon DEF Passed
    <2>3. Passed' = ((0 - 0) - 0) - 0
      BY <2>1, <2>2, <1>17, Zenon
    <2> QED BY <2>3
  <1> QED BY <1>1, <1>2, <1>5, <1>7, <1>8, <1>9, <1>11, <1>12, <1>13, <1>14, <1>15,
             <1>16, <1>17, <1>18

(* Between runs a clock edge keeps what the last run left.                 *)
LEMMA IdleFacts ==
  ASSUME ControlInv, idle, Tick
  PROVE  /\ idle' /\ job' = job /\ (wr' <=> wr) /\ ap_idle' = ap_idle
         /\ starts' = starts /\ out' = out /\ rb_status' = rb_status
         /\ (stall' => stall) /\ rd' = "idle" /\ batches' = 0
         /\ Clock(FALSE)
  <1>1. Registers /\ RoundsApart /\ Levels /\ Ends /\ Quiet
    BY DEF ControlInv
  <1>2. /\ ControlClock(FALSE, rd = "idle") /\ ClockReader(FALSE)
        /\ wr' = (wr \/ o_mvp_done) /\ job' = job /\ ap_idle' = ap_idle
        /\ starts' = starts /\ out' = out /\ Clock(FALSE)
    BY Zenon DEF Tick, Clock
  <1>3. ~o_mvp_done /\ ~stall_nxt /\ ~status[8]
    BY <1>1, IdleStill
  <1>4. idle' /\ (wr' <=> wr)
    BY <1>2, <1>3 DEF ControlClock
  <1>5. ClockStalls /\ ClockRbStatus(FALSE)
    BY <1>2, Zenon DEF ControlClock
  <1>6. (stall' => stall) /\ rb_status' = rb_status
    BY <1>3, <1>5 DEF ClockStalls, stalls, ClockRbStatus
  <1>7. rd' = "idle" /\ batches' = 0
    BY <1>1, <1>2 DEF ClockReader, Quiet
  <1> QED BY <1>2, <1>4, <1>6, <1>7

(* The state after the clock edge that ends a round.                       *)
LEMMA RoundFacts ==
  ASSUME Round
  PROVE  /\ Clock(FALSE) /\ (idle' <=> o_mvp_done) /\ (wr' <=> wr \/ o_mvp_done)
         /\ ap_idle' = ap_idle /\ starts' = starts /\ out' = out
         /\ \A s \in 1..10 : done[s] /\ done'[s]
         /\ \A s : ~o_start(s)
         /\ pp1' = pp1 /\ pp2' = pp2 /\ uram' = uram /\ redbuf' = redbuf
  <1>1. /\ Clock(FALSE) /\ ControlClock(FALSE, rd = "idle") /\ wr' = (wr \/ o_mvp_done)
        /\ ap_idle' = ap_idle /\ starts' = starts /\ out' = out
    BY Zenon DEF Round, Tick, Clock
  <1>2. ~start_pulse /\ done' = done /\ job' = job /\ s2_cnt' = s2_cnt
    BY RoundRegisters
  <1>3. idle' <=> o_mvp_done
    BY <1>1 DEF ControlClock, Round
  <1>4. \A s \in 1..10 : done[s]
    BY RoundDone, SignalList
  <1>5. \A s : ~o_start(s)
    BY <1>2 DEF o_start
  <1>6. pp1' = pp1 /\ pp2' = pp2 /\ uram' = uram /\ redbuf' = redbuf
    <2>1. ~o_switch_mode
      BY <1>2 DEF o_switch_mode
    <2>2. pp1' = pp_buffer(pp1) /\ pp2' = pp_buffer(pp2) /\ uram' = uram /\ redbuf' = redbuf
      BY <1>1, ClockData
    <2> QED BY <2>1, <2>2 DEF pp_buffer
  <1> QED BY <1>1, <1>2, <1>3, <1>4, <1>5, <1>6

(* A group that is not complete keeps its batches coming, and a group that *)
(* is not used up keeps stage 4 busy.                                      *)
LEMMA RoundCounts ==
  ASSUME Round, NoBubble, NEW g \in Nat, NEW q \in Nat, GroupsInOrder(g, q)
  PROVE  /\ stall_for_s2 => /\ s2_cnt # 0 /\ status[2] /\ status[1] /\ ~frozen
                            /\ ~write_uram /\ ~stall_for_s4 /\ s4_cnt = 0
                            /\ job.index = 1 /\ q < job.split - 1 /\ s2_cnt = q + 1
         /\ s4_cnt # 0 => status[3] /\ ~stall_for_s2 /\ s2_cnt = 0 /\ job.split = 1
  <1>1. /\ s2_due = s2_cnt /\ s4_due = s4_cnt
    BY RoundRegisters
  <1>2. /\ Registers /\ job \in Jobs /\ s2_cnt \in 0..(job.split - 1)
        /\ s4_cnt \in 0..(job.index - 1)
    BY DEF Round, Registers
  <1>3. /\ job.split \in 1..4 /\ job.index \in Nat /\ job.index >= 1
        /\ job.split = 1 \/ job.index = 1
    BY <1>2, JobFacts
  <1>4. /\ q < job.split
        /\ s2_cnt = IF write_uram \/ ~status[2] \/ q = job.split - 1 THEN 0 ELSE q + 1
        /\ ~status[3] => s4_cnt = 0
    BY <1>1 DEF GroupsInOrder
  <1>5. ASSUME stall_for_s2
        PROVE  /\ s2_cnt # 0 /\ status[2] /\ status[1] /\ ~frozen
               /\ ~write_uram /\ ~stall_for_s4 /\ s4_cnt = 0
               /\ job.index = 1 /\ q < job.split - 1 /\ s2_cnt = q + 1
    <2>1. s2_cnt # 0 /\ status[2]
      BY <1>5 DEF stall_for_s2
    <2>2. ~write_uram /\ q # job.split - 1 /\ s2_cnt = q + 1
      BY <2>1, <1>4
    <2>3. job.index = 1
      BY <2>1, <1>2, <1>3
    <2>4. s4_cnt = 0 /\ ~stall_for_s4
      BY <2>3, <1>2 DEF stall_for_s4
    <2>5. ~hold_s0s1s2
      BY <1>5 DEF hold_s0s1s2
    <2>6. status[1]
      BY <2>1, <2>2, <1>2, LastGroup
    <2> QED BY <2>1, <2>2, <2>3, <2>4, <2>5, <2>6, <1>3, <1>4 DEF frozen
  <1>6. ASSUME s4_cnt # 0
        PROVE  status[3] /\ ~stall_for_s2 /\ s2_cnt = 0 /\ job.split = 1
    <2>1. job.split = 1
      BY <1>2, <1>3, <1>6
    <2>2. s2_cnt = 0
      BY <2>1, <1>2
    <2> QED BY <2>1, <2>2, <1>4, <1>6 DEF stall_for_s2
  <1> QED BY <1>5, <1>6

(* The modes of stages 2 and 4 through a round, ...                        *)
LEMMA RoundModes ==
  ASSUME Round, NoBubble, NEW g \in Nat, NEW q \in Nat, GroupsInOrder(g, q),
         Taken(g) >= 0, Modes
  PROVE  Modes'
  <1>1. /\ start_pulse' /\ (stall' <=> stall_nxt) /\ (stall_s4' <=> stall_for_s4)
        /\ (stall_s0s1s2' <=> hold_s0s1s2) /\ rd' = rd
        /\ s4_due = s4_cnt
    BY RoundRegisters
  <1>2. /\ status'[4] <=> (IF hold_s3s4 \/ stall_for_s2
                           THEN stall_nxt /\ status[4] ELSE status[3])
        /\ status'[0] <=> (IF frozen THEN status[0] ELSE rd # "idle")
        /\ o_start(0)' <=> (status'[0] /\ ~frozen)
        /\ o_start(4)' <=> (status'[4] /\ ~hold_s3s4 /\ ~stall_for_s2)
    BY RoundMoves
  <1>3. done'[WrUram] /\ done'[2] /\ done'[3]
    BY RoundFacts, SignalList
  <1>8. s4_due' # 0 => ~o_start(3)'
    <2>1. o_start(3)' => ~hold_s3s4 /\ ~stall_for_s4 /\ ~stall_for_s2
      BY <1>1, RoundRegisters DEF o_start, WrUram
    <2>2. s4_due' = IF status'[4] /\ ~hold_s3s4 /\ ~stall_for_s2
                    THEN IF s4_cnt = job.index - 1 THEN 0 ELSE s4_cnt + 1
                    ELSE s4_cnt
      BY RoundDue
    <2>3. s4_cnt # 0 => status[3]
      BY RoundCounts
    <2> QED BY <2>1, <2>2, <2>3, <1>2 DEF stall_for_s4
  <1>4. s4_due' # 0 => status'[4]
    <2>1. s4_due' = IF status'[4] /\ ~hold_s3s4 /\ ~stall_for_s2
                    THEN IF s4_cnt = job.index - 1 THEN 0 ELSE s4_cnt + 1
                    ELSE s4_cnt
      BY RoundDue
    <2>2. s4_cnt # 0 => status[3] /\ status[4] /\ ~stall_for_s2
      BY <1>1, RoundCounts DEF Modes
    <2> QED BY <2>1, <2>2, <1>2 DEF hold_s3s4
  <1>5. write_uram' => FrontGoes'
    <2>1. write_uram' => write_uram
      BY RoundVector
    <2>2. write_uram' => ~frozen
      BY <2>1, VectorFirst
    <2> QED BY <2>2, <1>1 DEF FrontGoes, frozen
  <1>6. status'[4] /\ ~o_start(4)' => stall'
    BY <1>1, <1>2 DEF hold_s3s4
  <1>7. o_start(0)' => rd' # "idle"
    BY <1>1, <1>2
  <1> QED BY <1>1, <1>3, <1>4, <1>5, <1>6, <1>7, <1>8 DEF Modes

(* ... at the other clock edges, ...                                       *)
LEMMA PlainModes ==
  ASSUME ControlInv, ~idle, ~all_stage_done, Tick, Modes
  PROVE  Modes'
  <1>1. /\ ~start_pulse' /\ (write_uram' <=> write_uram) /\ s4_due' = s4_due
        /\ status' = status /\ \A s : ~o_start(s)'
    BY PlainFacts
  <1>2. /\ done'[WrUram] <=> done[WrUram] /\ ~o_start(WrUram)
        /\ done'[2] <=> done[2] /\ ~o_start(2)
        /\ done'[3] <=> done[3] /\ ~o_start(3)
    BY PlainFacts, SignalList
  <1>3. (o_start(WrUram) => write_uram) /\ (o_start(2) => ~write_uram)
    BY DEF o_start, WrUram
  <1> QED BY <1>1, <1>2, <1>3 DEF Modes

(* ... when a stage or the reader finishes ...                             *)
LEMMA StageModesKept ==
  ASSUME ControlInv, NEW s \in 1..10, StageDone(s), Modes
  PROVE  Modes'
  <1>1. /\ ~start_pulse' /\ (write_uram' <=> write_uram) /\ s4_due' = s4_due
        /\ status' = status /\ (\A t : ~o_start(t)')
        /\ done[WrUram] => done'[WrUram]
        /\ done[2] => done'[2]
        /\ done[3] => done'[3]
    BY StageFacts, SignalList
  <1> QED BY <1>1 DEF Modes

(* A batch is read.                                                        *)
LEMMA BatchModes ==
  ASSUME ControlInv, BatchRead, Modes
  PROVE  Modes'
  <1>1. /\ ~start_pulse' /\ (write_uram' <=> write_uram) /\ s4_due' = s4_due
        /\ status' = status /\ (\A t : ~o_start(t)')
        /\ done' = done
    BY BatchFacts
  <1> QED BY <1>1 DEF Modes

(* ... and at a start.                                                     *)
LEMMA StartModes ==
  ASSUME ControlInv, NEW j \in Jobs, Start(j)
  PROVE  Modes' /\ EdgesRight'
  <1>0. \A s \in 1..10 : done'[s]
    BY StartFacts
  <1>1. /\ ~start_pulse' /\ s4_due' = 0 /\ ~o_start(0)'
        /\ \A s \in 0..9 : ~status'[s]
    BY StartFacts
  <1>6. done'[10] /\ done'[2] /\ done'[3] /\ done'[4] /\ done'[5]
    BY <1>0
  <1>2. Modes'
    BY <1>1, <1>6, SignalList DEF Modes
  <1>3. LeafDone'
    BY <1>6 DEF LeafDone
  <1>4. \A s \in 0..2 : ~status'[s]
    BY <1>1
  <1>5. EdgesRight'
    BY <1>1, <1>3, <1>4, <1>6, Zenon DEF EdgesRight
  <1> QED BY <1>2, <1>5

(* At the end of a round every buffer has seen its done signal; one that   *)
(* stays up in the next round belongs to stages that do not move on.       *)
LEMMA RoundEdges ==
  ASSUME Round, NoBubble, NEW g \in Nat, NEW q \in Nat, GroupsInOrder(g, q), Modes
  PROVE  EdgesRight'
  <1>1. /\ start_pulse' /\ delay' = 0 /\ done' = done /\ s4_cnt' = s4_cnt
        /\ s2_cnt' = s2_cnt /\ s4_due = s4_cnt
    BY RoundRegisters
  <1>2. /\ done[1] /\ done[2] /\ done[3] /\ done[4] /\ done[5] /\ done[WrUram]
        /\ \A s : ~o_start(s)
    BY RoundFacts, SignalList
  <1>3. /\ edges'.dp <=> DpDone
        /\ edges'.pre <=> o_pre_tpp_switch
        /\ edges'.leaf <=> LeafDone
    BY RoundFacts, ClockData
  <1>4. DpDone' => DpDone
    BY <1>1, <1>2 DEF DpDone
  <1>5. LeafDone /\ LeafDone'
    BY <1>1, <1>2 DEF LeafDone
  <1>6. o_pre_tpp_switch' => o_pre_tpp_switch
    <2>1. CASE s2_cnt # 0 /\ status[2]
      <3>1. stall_for_s2
        BY <2>1 DEF stall_for_s2
      <3>2. status[1] /\ ~frozen /\ ~write_uram
        BY <3>1, RoundCounts
      <3>3. status'[2] /\ ~write_uram'
        BY <3>2, RoundMoves, RoundVector
      <3>4. o_start(2)'
        BY <3>2, <3>3, RoundMoves
      <3> QED BY <3>4 DEF o_pre_tpp_switch
    <2>2. CASE s4_cnt # 0 /\ status[4]
      <3>1. status[3] /\ ~stall_for_s2
        BY <2>2, RoundCounts
      <3>2. status'[4]
        BY <2>2, <3>1, RoundMoves DEF hold_s3s4
      <3> QED BY <2>2, <3>2, <1>1 DEF o_pre_tpp_switch
    <2>3. CASE ~(s2_cnt # 0 /\ status[2]) /\ ~(s4_cnt # 0 /\ status[4])
      BY <2>3, <1>2 DEF o_pre_tpp_switch
    <2> QED BY <2>1, <2>2, <2>3
  <1>7. ~(delay' >= 2)
    BY <1>1
  <1>8. done'[2] /\ done'[3] /\ done'[4]
    BY <1>1, <1>2
  <1> QED BY <1>3, <1>4, <1>5, <1>6, <1>7, <1>8 DEF EdgesRight

(* A done signal falls only at a start pulse.                              *)
LEMMA PlainEdges ==
  ASSUME ControlInv, ~idle, ~all_stage_done, Tick, EdgesRight
  PROVE  EdgesRight'
  <1>1. /\ ~start_pulse' /\ (write_uram' <=> write_uram) /\ status' = status
        /\ (start_pulse => delay' = 1) /\ stall' = stall
        /\ (reduce_trace => reduce_trace')
        /\ (done'[0] <=> ~o_start(0) /\ (done[0] \/ rd # "xfer"))
    BY PlainFacts
  <1>2. /\ done'[1] <=> done[1] /\ ~o_start(1)
        /\ done'[2] <=> done[2] /\ ~o_start(2)
        /\ done'[3] <=> done[3] /\ ~o_start(3)
        /\ done'[4] <=> done[4] /\ ~o_start(4)
        /\ done'[5] <=> done[5] /\ ~o_start(5)
        /\ done'[WrUram] <=> done[WrUram] /\ ~o_start(WrUram)
    BY PlainFacts, SignalList
  <1>3. /\ edges'.dp <=> DpDone
        /\ edges'.pre <=> o_pre_tpp_switch
        /\ edges'.leaf <=> LeafDone
    BY PlainFacts, ClockData
  <1>4. edges'.pre => done'[2] /\ done'[3] /\ done'[4]
    BY <1>2, <1>3 DEF o_pre_tpp_switch
  <1>5. ASSUME delay' >= 2 PROVE (DpDone => DpDone') /\ (LeafDone => LeafDone')
    <2>1. ~start_pulse
      BY <1>1, <1>5
    <2>2. \A s : ~o_start(s)
      BY <2>1 DEF o_start
    <2>3. DpDone => DpDone'
      BY <2>2, <1>1, <1>2 DEF DpDone
    <2>4. LeafDone => LeafDone'
      BY <2>2, <1>1, <1>2 DEF LeafDone, o_mux_s5_mode
    <2> QED BY <2>3, <2>4
  <1> QED BY <1>1, <1>3, <1>4, <1>5 DEF EdgesRight

(* A stage finishes.                                                       *)
LEMMA StageEdges ==
  ASSUME ControlInv, NEW s \in 1..10, StageDone(s), EdgesRight
  PROVE  EdgesRight'
  <1>1. /\ ~start_pulse' /\ (write_uram' <=> write_uram) /\ status' = status
        /\ stall' = stall /\ reduce_trace' = reduce_trace /\ edges' = edges
        /\ delay = 3
        /\ done[0] => done'[0]
        /\ done[1] => done'[1]
        /\ done[2] => done'[2]
        /\ done[3] => done'[3]
        /\ done[4] => done'[4]
        /\ done[5] => done'[5]
        /\ done[WrUram] => done'[WrUram]
    BY StageFacts, SignalList
  <1>2. (DpDone => DpDone') /\ (LeafDone => LeafDone')
    BY <1>1 DEF DpDone, LeafDone, o_mux_s5_mode
  <1> QED BY <1>1, <1>2 DEF EdgesRight

(* A batch is read.                                                        *)
LEMMA BatchEdges ==
  ASSUME ControlInv, BatchRead, EdgesRight
  PROVE  EdgesRight'
  <1>1. /\ ~start_pulse' /\ (write_uram' <=> write_uram) /\ status' = status
        /\ stall' = stall /\ reduce_trace' = reduce_trace /\ edges' = edges
        /\ delay = 3 /\ done' = done
    BY BatchFacts
  <1>2. (DpDone => DpDone') /\ (LeafDone => LeafDone')
    BY <1>1 DEF DpDone, LeafDone, o_mux_s5_mode
  <1> QED BY <1>1, <1>2 DEF EdgesRight

-----------------------------------------------------------------------------
(* Stages 0 to 2: batches                                                  *)

(* The numbers of the batches in stages 0 to 2 are numbers.                *)
LEMMA PassedType ==
  ASSUME Registers, NoBubble
  PROVE  /\ Passed \in Nat /\ Behind1 \in Nat /\ Behind0 \in Nat
         /\ Entered = Behind0 + Num(status[0])
  <1>1. data_size_batches \in Nat /\ batches \in Nat
    BY JobFacts, Counting DEF Registers
  <1>2. Passed \in Nat
    BY <1>1 DEF NoBubble
  <1>3. /\ Num(status[0]) \in Nat /\ Num(status[1]) \in Nat /\ Num(status[2]) \in Nat
    BY NumType
  <1>4. Entered \in Nat
    BY <1>1 DEF Entered, Num
  <1>5. Passed = ((Entered - Num(status[0])) - Num(status[1])) - Num(status[2])
    BY Zenon DEF Passed
  <1> QED BY <1>2, <1>3, <1>4, <1>5 DEF Behind0, Behind1

(* The buffers of stages 0 to 2 when all three are done: they change hands *)
(* now or have done so.                                                    *)
LEMMA DpTurns ==
  ASSUME NEW start, Clock(start), ReaderRight, DpRight, DpDone, ~FrontGoes,
         \A s : ~o_start(s)
  PROVE  /\ status[0] => dp'.ntt = Batch(Behind0, 0)
         /\ status[1] => dp'.madd = Batch(Behind1, 1)
  <1>1. dp' = IF DpDone /\ ~edges.dp
              THEN [axi |-> dp.madd, ntt |-> dp.axi, madd |-> dp.ntt] ELSE dp
    BY ClockData
  <1>2. done[0] /\ done[1] /\ rd # "xfer"
    BY DEF DpDone, ReaderRight
  <1>3. CASE edges.dp
    BY <1>1, <1>3 DEF DpRight, DpTurned
  <1>4. CASE ~edges.dp
    <2>1. dp'.ntt = dp.axi /\ dp'.madd = dp.ntt
      BY <1>1, <1>4
    <2> QED BY <1>2, <1>4, <2>1 DEF DpRight, DpTurned
  <1> QED BY <1>3, <1>4

(* A round hands the batches on, or freezes them where they are.           *)
LEMMA RoundDp ==
  ASSUME Round, NoBubble, DpRight, ~o_mvp_done
  PROVE  DpRight'
  <1>1. /\ ~start_pulse /\ start_pulse' /\ done' = done /\ rd' = rd
        /\ (stall_s4' <=> stall_for_s4) /\ (stall_s0s1s2' <=> hold_s0s1s2)
    BY RoundRegisters
  <1>0. (\A s \in 1..10 : done[s]) /\ (\A s : ~o_start(s)) /\ Clock(FALSE) /\ ~idle'
    BY RoundFacts
  <1>2. done[1] /\ done[2] /\ done[WrUram]
    BY <1>0, SignalList
  <1>3. ~FrontGoes /\ (FrontGoes' <=> ~frozen)
    BY <1>1 DEF FrontGoes, frozen
  <1>4. /\ status'[0] <=> (IF frozen THEN status[0] ELSE rd # "idle")
        /\ status'[1] <=> (IF frozen THEN status[1] ELSE status[0])
        /\ status'[2] <=> (IF frozen THEN status[2] ELSE status[1])
        /\ o_start(0)' <=> (status'[0] /\ ~frozen)
    BY RoundMoves
  <1>5. Passed' = IF frozen THEN Passed ELSE Passed + Num(status[2])
    BY RoundPassed
  <1>6. Registers /\ ReaderRight
    BY DEF Round
  <1>7. CASE ~done[0]
    <2>1. ~status[0] /\ rd = "xfer"
      BY <1>7, RoundDone
    <2>2. Entered = 0
      BY <2>1, RoundEntered
    <2>3. ~status[1] /\ ~status[2]
      <3>1. Passed \in Nat /\ Passed = Entered - Num(status[0]) - Num(status[1]) - Num(status[2])
        BY <1>6, PassedType DEF Passed
      <3> QED BY <3>1, <2>1, <2>2 DEF Num
    <2>4. ~status'[1] /\ ~status'[2] /\ (status'[0] => o_start(0)')
      BY <2>1, <2>3, <1>4
    <2>5. ~DpTurned'
      BY <1>1, <1>7 DEF DpTurned, DpDone
    <2> QED BY <2>4, <2>5 DEF DpRight
  <1>8. CASE done[0]
    <2>1. DpDone /\ DpDone'
      BY <1>1, <1>2, <1>8 DEF DpDone
    <2>2. /\ status[0] => dp'.ntt = Batch(Behind0, 0)
          /\ status[1] => dp'.madd = Batch(Behind1, 1)
      BY <2>1, <1>0, <1>3, <1>6, DpTurns
    <2>3. edges'.dp
      BY <2>1, <1>0, ClockData
    <2>4. CASE frozen
      <3>1. DpTurned'
        BY <2>1, <2>3, <2>4, <1>3 DEF DpTurned
      <3>2. (status'[0] <=> status[0]) /\ (status'[1] <=> status[1]) /\ (status'[2] <=> status[2])
        BY <2>4, <1>4
      <3>3. Behind1' = Behind1 /\ Behind0' = Behind0
        <4>1. Num(status'[1]) = Num(status[1]) /\ Num(status'[2]) = Num(status[2])
          BY <3>2 DEF Num
        <4>2. Passed' = Passed
          BY <2>4, <1>5
        <4> QED BY <4>1, <4>2, Zenon DEF Behind0, Behind1
      <3> QED BY <3>1, <3>2, <3>3, <2>2 DEF DpRight
    <2>5. CASE ~frozen
      <3>1. ~DpTurned'
        BY <2>5, <1>3 DEF DpTurned
      <3>2. (status'[1] <=> status[0]) /\ (status'[2] <=> status[1]) /\ (status'[0] => o_start(0)')
        BY <2>5, <1>4
      <3>3. Passed' = Behind1
        BY <2>5, <1>5, Zenon DEF Behind1
      <3>4. Behind1' = Behind0
        <4>1. Num(status'[2]) = Num(status[1])
          BY <3>2 DEF Num
        <4> QED BY <4>1, <3>3, Zenon DEF Behind0, Behind1
      <3>5. status'[1] => o_start(1)'
        BY <2>5, <1>0, <1>1 DEF o_start, frozen, WrUram
      <3>6. status'[1] => dp'.ntt = Batch(Behind1', 0)
        BY <3>2, <3>4, <2>2, Zenon
      <3>7. status'[2] => dp'.madd = Batch(Passed', 1)
        BY <3>2, <3>3, <2>2, Zenon
      <3> QED BY <3>1, <3>2, <3>5, <3>6, <3>7 DEF DpRight
    <2> QED BY <2>4, <2>5
  <1> QED BY <1>7, <1>8

(* At a start pulse no buffer changes hands, and at the other clock edges  *)
(* they do when all three stages are done.                                 *)
LEMMA PlainDp ==
  ASSUME ControlInv, ~idle, ~all_stage_done, Tick, Modes, EdgesRight, DpRight
  PROVE  DpRight'
  <1>1. /\ ~start_pulse' /\ (write_uram' <=> write_uram) /\ status' = status
        /\ (done'[0] <=> ~o_start(0) /\ (done[0] \/ rd # "xfer"))
        /\ Passed' = Passed /\ ~idle /\ Clock(FALSE)
    BY PlainFacts
  <1>2. /\ done'[1] <=> done[1] /\ ~o_start(1)
        /\ done'[2] <=> done[2] /\ ~o_start(2)
        /\ done'[WrUram] <=> done[WrUram] /\ ~o_start(WrUram)
    BY PlainFacts, SignalList
  <1>3. /\ rd = "idle" => rd' = "idle"
        /\ rd = "xfer" => rd' = "xfer"
        /\ rd = "halt" /\ o_start(0) => rd' = "xfer"
        /\ rd = "halt" /\ ~o_start(0) => rd' \in {"idle", "halt"}
    BY PlainReader
  <1>4. /\ edges'.dp <=> DpDone
        /\ dp' = IF DpDone /\ ~edges.dp
                 THEN [axi |-> dp.madd, ntt |-> dp.axi, madd |-> dp.ntt] ELSE dp
    BY <1>1, ClockData
  <1>5. Behind1' = Behind1 /\ Behind0' = Behind0
    BY <1>1, Zenon DEF Behind0, Behind1
  <1>6. ~FrontGoes' /\ ~o_start(0)' /\ ~o_start(1)'
    BY <1>1 DEF FrontGoes, o_start
  <1>7. rd \in {"idle", "xfer", "halt"} /\ ReaderRight
    BY DEF ControlInv, Registers, Running
  <1>8. CASE FrontGoes
    <2>1. start_pulse /\ ~DpTurned
      BY <1>8 DEF FrontGoes, DpTurned
    <2>2. dp' = dp
      BY <2>1, <1>4 DEF EdgesRight
    <2>3. /\ o_start(0) <=> status[0]
          /\ o_start(1) <=> status[1]
          /\ status[2] => IF write_uram THEN o_start(WrUram) ELSE o_start(2)
      BY <1>8 DEF FrontGoes, o_start, WrUram
    <2>4. ~DpTurned' \/ (~status[0] /\ ~status[1])
      BY <2>3, <1>1, <1>2 DEF DpTurned, DpDone
    <2>5. /\ status[1] => dp.ntt = Batch(Behind1, 0)
          /\ status[2] => dp.madd = Batch(Passed, 1)
      BY <2>1, <2>3 DEF DpRight
    <2>6. status[0] => rd' = "xfer"
      BY <2>3, <1>3, <1>7 DEF Modes
    <2>7. ~done'[1] \/ ~status[1]
      BY <2>3, <1>2
    <2>8. DpTurned' => ~status[2] /\ ~status[0] /\ ~status[1]
      BY <2>3, <1>1, <1>2 DEF DpTurned, DpDone
    <2> QED BY <2>2, <2>5, <2>6, <2>7, <2>8, <1>1, <1>5, <1>6 DEF DpRight
  <1>9. CASE ~FrontGoes /\ start_pulse
    <2>1. ~write_uram /\ ~o_start(0) /\ ~o_start(1) /\ ~o_start(2)
      BY <1>9 DEF Modes, FrontGoes, o_start, WrUram
    <2>2. done[0] \/ rd = "xfer"
      BY <1>9 DEF ControlInv, RoundsApart
    <2>3. DpDone' <=> DpDone
      BY <2>1, <2>2, <1>1, <1>2, <1>7 DEF DpDone, ReaderRight
    <2>4. dp' = dp /\ (DpDone => edges.dp)
      BY <1>4, <1>9 DEF EdgesRight
    <2>5. DpTurned' <=> DpTurned
      BY <2>3, <2>4, <1>4, <1>6, <1>9 DEF DpTurned
    <2>6. (rd' # "xfer" => rd # "xfer") /\ (done'[1] <=> done[1])
      BY <2>1, <1>2, <1>3, <1>7
    <2> QED BY <2>1, <2>4, <2>5, <2>6, <1>1, <1>5, <1>6 DEF DpRight
  <1>10. CASE ~start_pulse
    <2>1. ~FrontGoes /\ \A s : ~o_start(s)
      BY <1>10 DEF FrontGoes, o_start
    <2>2. CASE DpDone
      <3>1. /\ status[0] => dp'.ntt = Batch(Behind0, 0)
            /\ status[1] => dp'.madd = Batch(Behind1, 1)
        BY <2>1, <2>2, <1>1, <1>7, DpTurns
      <3>2. DpDone'
        BY <2>1, <2>2, <1>1, <1>2 DEF DpDone
      <3>3. DpTurned'
        BY <3>2, <2>2, <1>4, <1>6 DEF DpTurned
      <3> QED BY <3>1, <3>3, <1>1, <1>5 DEF DpRight
    <2>3. CASE ~DpDone
      <3>1. ~DpTurned /\ ~DpTurned' /\ dp' = dp
        BY <2>3, <1>4 DEF DpTurned
      <3>2. (rd' # "xfer" => rd # "xfer") /\ (done'[1] <=> done[1])
        BY <2>1, <1>2, <1>3, <1>7
      <3> QED BY <3>1, <3>2, <2>1, <1>1, <1>5, <1>6 DEF DpRight
    <2> QED BY <2>2, <2>3
  <1> QED BY <1>8, <1>9, <1>10

(* While a stage of the front works, its buffer has not changed hands.     *)
LEMMA FrontWorks ==
  ASSUME ControlInv, Modes, EdgesRight, delay = 3, NEW s \in {1, 2, WrUram}, ~done[s]
  PROVE  ~DpDone /\ ~edges.dp
  <1>1. CASE s = 1
    <2>1. status[1] /\ ~done[1]
      BY <1>1 DEF ControlInv, RoundsApart
    <2>2. ~DpDone
      BY <2>1 DEF DpDone
    <2> QED BY <2>1, <2>2 DEF EdgesRight
  <1>2. CASE s # 1
    <2>1. status[2]
      BY <1>2, SignalList DEF ControlInv, RoundsApart
    <2>2. ~DpDone
      BY <1>2 DEF DpDone, Modes
    <2> QED BY <2>1, <2>2 DEF EdgesRight
  <1> QED BY <1>1, <1>2

(* The transform of stage 1 is done once; the other stages leave the       *)
(* buffers alone.                                                          *)
LEMMA StageDp ==
  ASSUME ControlInv, Modes, EdgesRight, DpRight, NEW s \in 1..10, StageDone(s),
         DOMAIN dp = {"axi", "ntt", "madd"},
         dp' = IF s = 1 THEN [dp EXCEPT !.ntt.ntt = @ + 1] ELSE dp
  PROVE  DpRight'
  <1>1. /\ ~start_pulse /\ ~start_pulse' /\ delay = 3 /\ status' = status /\ rd' = rd
        /\ edges' = edges /\ Passed' = Passed /\ write_uram' = write_uram
        /\ ~done[s] /\ done'[s]
    BY StageFacts
  <1>2. /\ \A t : ~o_start(t) /\ ~o_start(t)'
        /\ \A t \in 0..10 : t # s => done'[t] = done[t]
    BY StageFacts
  <1>3. Behind1' = Behind1 /\ Behind0' = Behind0
    BY <1>1, Zenon DEF Behind0, Behind1
  <1>4. ~o_start(0) /\ ~o_start(0)' /\ ~o_start(1) /\ ~o_start(1)' /\ ~FrontGoes /\ ~FrontGoes'
    BY <1>1, <1>2 DEF FrontGoes
  <1>5. CASE s \in {1, 2, WrUram}
    <2>1. ~edges.dp
      BY <1>1, <1>5, FrontWorks
    <2>2. ~DpTurned /\ ~DpTurned'
      BY <2>1, <1>1 DEF DpTurned
    <2>3. CASE s = 1
      <3>1. status[1] /\ ~done[1] /\ done'[1]
        BY <2>3, StageFacts
      <3>2. dp.ntt = Batch(Behind1, 0)
        BY <3>1, <2>2 DEF DpRight
      <3>3. dp' = [dp EXCEPT !.ntt = [dp.ntt EXCEPT !.ntt = dp.ntt.ntt + 1]]
        BY <2>3
      <3>4. [dp.ntt EXCEPT !.ntt = dp.ntt.ntt + 1] = Batch(Behind1, 1)
        BY <3>2 DEF Batch
      <3>5. dp'.ntt = Batch(Behind1, 1) /\ dp'.axi = dp.axi /\ dp'.madd = dp.madd
        BY <3>3, <3>4
      <3> QED BY <3>1, <3>5, <2>2, <1>1, <1>3, <1>4 DEF DpRight
    <2>4. CASE s # 1
      <3>1. dp' = dp /\ done'[1] = done[1]
        BY <2>4, <1>2
      <3> QED BY <3>1, <2>2, <1>1, <1>3, <1>4 DEF DpRight
    <2> QED BY <2>3, <2>4
  <1>6. CASE s \notin {1, 2, WrUram}
    <2>1. /\ dp' = dp /\ done'[0] = done[0] /\ done'[1] = done[1] /\ done'[2] = done[2]
          /\ done'[WrUram] = done[WrUram]
      BY <1>2, <1>6, SignalList
    <2>2. DpTurned' <=> DpTurned
      BY <2>1, <1>1, <1>4 DEF DpTurned, DpDone
    <2> QED BY <2>1, <2>2, <1>1, <1>3, <1>4 DEF DpRight
  <1> QED BY <1>5, <1>6

(* The reader puts the batch that was announced in its buffer.             *)
LEMMA BatchDp ==
  ASSUME ControlInv, DpRight, BatchRead, DOMAIN dp = {"axi", "ntt", "madd"}
  PROVE  DpRight'
  <1>1. /\ ~start_pulse /\ ~start_pulse' /\ status' = status /\ status[0]
        /\ edges' = edges /\ Passed' = Passed /\ ~done[0] /\ done' = done
        /\ Entered = batches + 1 /\ batches \in Nat
        /\ (\A t : ~o_start(t) /\ ~o_start(t)') /\ ~idle
    BY BatchFacts
  <1>2. dp' = [dp EXCEPT !.axi = Batch(batches, 0)]
    BY DEF BatchRead
  <1>3. dp'.axi = Batch(batches, 0) /\ dp'.ntt = dp.ntt /\ dp'.madd = dp.madd
    BY <1>2
  <1>4. Behind1' = Behind1 /\ Behind0' = Behind0
    BY <1>1, Zenon DEF Behind0, Behind1
  <1>5. ~DpTurned /\ ~DpTurned'
    BY <1>1 DEF DpTurned, DpDone
  <1>6. Behind0 = batches
    <2>1. Entered = Behind0 + Num(status[0]) /\ Behind0 \in Nat
      BY <1>1, PassedType DEF ControlInv, Running
    <2>2. Num(status[0]) = 1
      BY <1>1 DEF Num
    <2> QED BY <2>1, <2>2, <1>1
  <1> QED BY <1>1, <1>3, <1>4, <1>5, <1>6 DEF DpRight

(* A run begins with empty stages.                                         *)
LEMMA StartDp ==
  ASSUME ControlInv, NEW j \in Jobs, Start(j)
  PROVE  DpRight' /\ UramRight'
  <1>1. /\ \A s \in 0..9 : ~status'[s]
        /\ write_uram' /\ Passed' = 0 /\ job' = j
    BY StartFacts
  <1>2. ~status'[0] /\ ~status'[1] /\ ~status'[2]
    BY <1>1
  <1>3. DpRight'
    BY <1>2 DEF DpRight
  <1>4. Stored' = 0
    BY <1>1, <1>2 DEF Stored, Num
  <1>5. j.split \in 1..4
    BY JobsAssumption
  <1>6. UramRight'
    BY <1>1, <1>4, <1>5 DEF UramRight
  <1> QED BY <1>3, <1>6

(* A split is stored when the round that stores it ends.                   *)
LEMMA RoundUram ==
  ASSUME Round, NoBubble, NEW g \in Nat, NEW q \in Nat, GroupsInOrder(g, q),
         Taken(g) >= 0, UramRight
  PROVE  UramRight'
  <1>1. start_pulse' /\ ~start_pulse /\ job' = job
    BY RoundRegisters
  <1>2. uram' = uram /\ done[WrUram]
    BY RoundFacts, SignalList
  <1>3. /\ write_uram' <=> write_uram /\ ~(status[2] /\ write_uram_cnt = job.split - 1)
    BY RoundVector
  <1>4. Passed' = IF frozen THEN Passed ELSE Passed + Num(status[2])
    BY RoundPassed
  <1>5. Passed \in Nat /\ job.split \in 1..4
    BY PassedType, JobFacts DEF Round, Registers
  <1>6. CASE write_uram
    <2>1. ~frozen /\ write_uram_cnt = Passed
      BY <1>6, VectorFirst DEF GroupsInOrder
    <2>2. Stored = Passed + Num(status[2])
      BY <1>1, <1>2, <1>6 DEF Stored, Num
    <2>3. Stored' = Stored
      <3>1. CASE write_uram'
        BY <3>1, <2>1, <2>2, <1>1, <1>4, <1>5 DEF Stored, Num
      <3>2. CASE ~write_uram'
        <4>1. Stored' = job.split
          BY <3>2, <1>1 DEF Stored
        <4>2. status[2] /\ Passed = job.split - 1
          BY <3>2, <2>1, <1>3, <1>6
        <4>3. Num(status[2]) = 1
          BY <4>2 DEF Num
        <4> QED BY <4>1, <4>2, <4>3, <2>2, <1>5
      <3> QED BY <3>1, <3>2
    <2> QED BY <2>3, <1>1, <1>2 DEF UramRight
  <1>7. CASE ~write_uram
    <2>1. Stored = job.split /\ Stored' = job.split
      BY <1>1, <1>3, <1>7 DEF Stored
    <2> QED BY <2>1, <1>1, <1>2 DEF UramRight
  <1> QED BY <1>6, <1>7

(* A clock edge within a round leaves the stored splits alone.             *)
LEMMA PlainUram ==
  ASSUME ControlInv, ~idle, ~all_stage_done, Tick, UramRight
  PROVE  UramRight'
  <1>1. /\ ~start_pulse' /\ (write_uram' <=> write_uram) /\ status' = status
        /\ Passed' = Passed /\ Clock(FALSE) /\ job' = job
    BY PlainFacts
  <1>2. done'[WrUram] <=> done[WrUram] /\ ~o_start(WrUram)
    BY PlainFacts, SignalList
  <1>3. uram' = uram
    BY <1>1, ClockData
  <1>4. o_start(WrUram) <=> start_pulse /\ status[2] /\ write_uram
    BY DEF o_start, WrUram
  <1>5. write_uram => (status'[2] /\ done'[WrUram] /\ ~start_pulse' <=>
                       status[2] /\ done[WrUram] /\ ~start_pulse)
    BY <1>1, <1>2, <1>4
  <1>6. Stored' = Stored
    BY <1>1, <1>5 DEF Stored, Num
  <1> QED BY <1>1, <1>3, <1>6 DEF UramRight

(* Stage 2 stores the split that is in front of it.                        *)
LEMMA StageUram ==
  ASSUME ControlInv, Modes, EdgesRight, DpRight, UramRight, DOMAIN uram = 0..3,
         NEW s \in 1..10, StageDone(s),
         uram' = IF s = WrUram THEN [uram EXCEPT ![o_idx_split] = dp.madd] ELSE uram
  PROVE  UramRight'
  <1>1. /\ ~start_pulse /\ ~start_pulse' /\ delay = 3 /\ status' = status
        /\ Passed' = Passed /\ write_uram' = write_uram /\ job' = job /\ ~idle
        /\ ~done[s] /\ done'[s]
    BY StageFacts
  <1>2. CASE s # WrUram
    <2>1. done'[WrUram] = done[WrUram] /\ uram' = uram
      BY <1>2, StageFacts, SignalList
    <2>2. Stored' = Stored
      BY <2>1, <1>1 DEF Stored
    <2> QED BY <2>1, <2>2, <1>1 DEF UramRight
  <1>3. CASE s = WrUram
    <2>1. write_uram /\ ~done[WrUram] /\ done'[WrUram] /\ status[2]
      BY <1>1, <1>3, SignalList, StageFacts DEF Modes
    <2>2. Stored = Passed + 0 /\ Stored' = Passed + 1
      BY <2>1, <1>1 DEF Stored, Num
    <2>3. ~DpTurned
      BY <1>1, <1>3, FrontWorks DEF DpTurned
    <2>4. dp.madd = Batch(Passed, 1)
      BY <2>1, <2>3 DEF DpRight
    <2>5. write_uram_cnt = Passed /\ Passed < job.split
      BY <2>1, <1>1 DEF ControlInv, Running, RunInOrder, GroupsInOrder
    <2>6. Passed \in Nat /\ job.split \in 1..4
      BY <1>1, PassedType, JobFacts DEF ControlInv, Registers, Running
    <2>7. uram' = [uram EXCEPT ![Passed] = Batch(Passed, 1)]
      BY <1>3, <2>1, <2>4, <2>5 DEF o_idx_split
    <2>8. ASSUME NEW v \in 0..(job.split - 1), v < Passed + 1
          PROVE  uram'[v] = Batch(v, 1)
      <3>1. CASE v = Passed
        BY <3>1, <2>5, <2>6, <2>7
      <3>2. CASE v # Passed
        <4>1. v < Stored /\ v \in 0..3
          BY <3>2, <2>2, <2>6, <2>8
        <4>2. uram[v] = Batch(v, 1)
          BY <4>1 DEF UramRight
        <4> QED BY <4>1, <4>2, <3>2, <2>7
      <3> QED BY <3>1, <3>2
    <2> QED BY <2>2, <2>8, <1>1 DEF UramRight
  <1> QED BY <1>2, <1>3

(* The reader leaves the stored splits alone.                              *)
LEMMA BatchUram ==
  ASSUME ControlInv, BatchRead, UramRight
  PROVE  UramRight'
  <1>1. /\ ~start_pulse /\ ~start_pulse' /\ status' = status /\ job' = job
        /\ Passed' = Passed /\ write_uram' = write_uram /\ done' = done
    BY BatchFacts
  <1>2. uram' = uram
    BY DEF BatchRead
  <1>3. Stored' = Stored
    BY <1>1 DEF Stored
  <1> QED BY <1>1, <1>2, <1>3 DEF UramRight

(* The split index is that of the batch in stage 2.                        *)
LEMMA SplitIndex ==
  ASSUME ControlInv, ~idle, ~start_pulse, ~write_uram, status[2],
         NEW g \in Nat, NEW q \in Nat, GroupsInOrder(g, q)
  PROVE  o_idx_split = q /\ q \in 0..(job.split - 1)
  <1>1. s2_cnt = s2_due
    BY DEF s2_due, CountTo, o_start
  <1>2. s2_cnt = IF q = job.split - 1 THEN 0 ELSE q + 1
    BY <1>1 DEF GroupsInOrder
  <1>3. job.split \in 1..4 /\ q < job.split
    BY JobFacts DEF GroupsInOrder, ControlInv, Registers
  <1> QED BY <1>2, <1>3 DEF o_idx_split

(* OperandsMatch follows from the parts about stages 0 to 2.               *)
LEMMA OperandsRight ==
  ASSUME ControlInv, ~idle => Modes /\ EdgesRight /\ DpRight /\ UramRight
  PROVE  OperandsMatch
  <1> SUFFICES ASSUME ~idle, ~start_pulse, ~done[WrUram] \/ ~done[2]
               PROVE  OperandsMatch
    <2>1. idle \/ start_pulse => done[WrUram] /\ done[2]
      BY SignalList DEF ControlInv, Quiet, RoundsApart
    <2> QED BY <2>1 DEF OperandsMatch
  <1>1. Modes /\ EdgesRight /\ DpRight /\ UramRight
    OBVIOUS
  <1>2. status[2]
    BY SignalList DEF ControlInv, RoundsApart
  <1>3. ~DpTurned
    BY <1>1 DEF DpTurned, DpDone, Modes
  <1>4. dp.madd = Batch(Passed, 1)
    BY <1>1, <1>2, <1>3 DEF DpRight
  <1>5. Passed \in Nat /\ job.split \in 1..4
    BY PassedType, JobFacts DEF ControlInv, Registers, Running
  <1>6. PICK g \in Nat, q \in Nat : GroupsInOrder(g, q)
    BY DEF ControlInv, Running, RunInOrder
  <1>7. CASE ~done[WrUram]
    <2>1. write_uram /\ done[2]
      BY <1>1, <1>7 DEF Modes
    <2>2. o_idx_split = Passed
      BY <2>1, <1>6 DEF o_idx_split, GroupsInOrder
    <2> QED BY <2>1, <2>2, <1>4 DEF OperandsMatch
  <1>8. CASE ~done[2]
    <2>1. ~write_uram /\ done[WrUram]
      BY <1>1, <1>8 DEF Modes
    <2>2. o_idx_split = q /\ q \in 0..(job.split - 1)
      BY <2>1, <1>2, <1>6, SplitIndex
    <2>3. Passed = job.split * (g + 1) + q
      BY <2>1, <1>6 DEF GroupsInOrder, GroupStart
    <2>4. uram[q] = Batch(q, 1)
      BY <2>1, <2>2, <1>1, <1>5 DEF UramRight, Stored
    <2>5. Passed >= job.split /\ Passed % job.split = q
      <3>1. CASE job.split = 1
        BY <3>1, <2>2, <2>3, <1>5
      <3>2. CASE job.split = 2
        BY <3>2, <2>2, <2>3, <1>5
      <3>3. CASE job.split = 3
        BY <3>3, <2>2, <2>3, <1>5
      <3>4. CASE job.split = 4
        BY <3>4, <2>2, <2>3, <1>5
      <3> QED BY <1>5, <3>1, <3>2, <3>3, <3>4
    <2>6. dp.madd.ntt = 1 /\ dp.madd.batch = Passed
      BY <1>4 DEF Batch
    <2> QED BY <2>1, <2>2, <2>4, <2>5, <2>6 DEF OperandsMatch
  <1> QED BY <1>7, <1>8

-----------------------------------------------------------------------------
(* Stages 2 to 4: row groups and leaves                                    *)

(* The products of one split more.                                         *)
LEMMA ProductsGrow ==
  ASSUME NEW h, NEW m \in Nat
  PROVE  /\ Products(h, m + 1) =
              Products(h, m) \cup {<<Batch(GroupStart(h) + m, 1), Batch(m, 1)>>}
         /\ Products(h, 0) = {}
  <1>1. 0..((m + 1) - 1) = (0..(m - 1)) \cup {m}
    OBVIOUS
  <1>2. 0..(0 - 1) = {}
    OBVIOUS
  <1>3. Products(h, m + 1) =
          {<<Batch(GroupStart(h) + v, 1), Batch(v, 1)>> : v \in (0..(m - 1)) \cup {m}}
    BY <1>1, Zenon DEF Products
  <1>4. Products(h, m) = {<<Batch(GroupStart(h) + v, 1), Batch(v, 1)>> : v \in 0..(m - 1)}
    BY Zenon DEF Products
  <1>5. Products(h, m + 1) =
          Products(h, m) \cup {<<Batch(GroupStart(h) + m, 1), Batch(m, 1)>>}
    BY <1>3, <1>4, Zenon
  <1>6. Products(h, 0) = {}
    BY <1>2, Zenon DEF Products
  <1> QED BY <1>5, <1>6

(* Row x of group h is the leaf of that number.                            *)
LEMMA LeafIs ==
  ASSUME job \in Jobs, NEW h \in Nat, NEW x \in 0..(job.index - 1)
  PROVE  Leaf(TheGroup(h), x) = TheLeaf(FirstRow(h) + x)
  <1>1. job.index \in Nat /\ job.index >= 1 /\ job.split \in 1..4
    BY JobFacts
  <1> DEFINE l == FirstRow(h) + x
  <1>2. l \in Nat /\ l = h * job.index + x
    <2>1. FirstRow(h) = h * job.index
      BY DEF FirstRow
    <2>2. FirstRow(h) \in Nat
      BY Counting
    <2> QED BY <2>1, <2>2, <1>1
  <1> HIDE DEF l
  <1>3. l \div job.index = h /\ l % job.index = x
    BY <1>1, <1>2, DivModIs
  <1>4. GroupStart(h) = job.split + h * job.split
    BY <1>1 DEF GroupStart
  <1>5. TheLeaf(l) = Leaf(Group({<<Batch(job.split + h * job.split + v, 1), Batch(v, 1)>> :
                                   v \in 0..(job.split - 1)}, 1), x)
    BY <1>3, Zenon DEF TheLeaf
  <1>6. Products(h, job.split) = {<<Batch(job.split + h * job.split + v, 1), Batch(v, 1)>> :
                                   v \in 0..(job.split - 1)}
    BY <1>4, Zenon DEF Products
  <1>7. TheLeaf(l) = Leaf(TheGroup(h), x)
    BY <1>5, <1>6, Zenon DEF TheGroup
  <1> QED BY <1>7 DEF l

(* How a round moves the count of groups.                                  *)
LEMMA RoundGroup ==
  ASSUME Round, NoBubble, NEW g \in Nat, NEW q \in Nat, GroupsInOrder(g, q),
         Taken(g) >= 0, NEW h \in Nat, NEW p \in Nat, GroupsInOrder(h, p)'
  PROVE  /\ frozen \/ ~status[2] \/ write_uram => h = g /\ p = q
         /\ ~frozen /\ status[2] /\ ~write_uram /\ q = job.split - 1 => h = g + 1 /\ p = 0
         /\ ~frozen /\ status[2] /\ ~write_uram /\ q # job.split - 1 => h = g /\ p = q + 1
         /\ write_uram => g = 0 /\ q = 0 /\ h = 0 /\ p = 0
         /\ ~status[2] /\ ~write_uram => q = 0
  <1>1. /\ job' = job /\ Registers /\ job \in Jobs
    BY RoundRegisters DEF Round, Registers
  <1>2. /\ job.split \in 1..4
    BY <1>1, JobFacts
  <1>3. Passed' = IF frozen THEN Passed ELSE Passed + Num(status[2])
    BY RoundPassed
  <1>4. /\ q < job.split
        /\ write_uram <=> Passed < job.split
        /\ IF write_uram THEN g = 0 /\ q = 0 ELSE Passed = GroupStart(g) + q
    BY DEF GroupsInOrder
  <1>5. /\ p < job.split
        /\ write_uram' <=> Passed' < job.split
        /\ IF write_uram' THEN h = 0 /\ p = 0 ELSE Passed' = GroupStart(h) + p
    <2>1. GroupStart(h)' = GroupStart(h)
      BY <1>1, Zenon DEF GroupStart
    <2> QED BY <2>1, <1>1 DEF GroupsInOrder
  <1>6. Passed \in Nat
    BY <1>1, PassedType
  <1>7. /\ GroupStart(g) = job.split * (g + 1) /\ GroupStart(h) = job.split * (h + 1)
        /\ GroupStart(g) \in Nat /\ GroupStart(h) \in Nat
    BY <1>1, Counting DEF GroupStart
  <1>8. ASSUME NEW a \in Nat, NEW b \in Nat, NEW u \in Nat, NEW v \in Nat,
               u < job.split, v < job.split,
               job.split * (a + 1) + u = job.split * (b + 1) + v
        PROVE  a = b /\ u = v
    <2>1. job.split = 1 \/ job.split = 2 \/ job.split = 3 \/ job.split = 4
      BY <1>2
    <2>2. CASE job.split = 1
      BY <2>2, <1>8
    <2>3. CASE job.split = 2
      BY <2>3, <1>8
    <2>4. CASE job.split = 3
      BY <2>4, <1>8
    <2>5. CASE job.split = 4
      BY <2>5, <1>8
    <2> QED BY <2>1, <2>2, <2>3, <2>4, <2>5
  <1>9. CASE write_uram
    <2>1. ~frozen
      BY <1>9, VectorFirst
    <2>2. g = 0 /\ q = 0
      BY <1>4, <1>9
    <2>3. Num(status[2]) \in {0, 1}
      BY NumType
    <2>4. Passed' <= job.split
      BY <2>1, <2>3, <1>3, <1>4, <1>6, <1>9, <1>2
    <2>5. h = 0 /\ p = 0
      <3>1. CASE write_uram'
        BY <3>1, <1>5
      <3>2. CASE ~write_uram'
        <4>1. GroupStart(h) + p <= job.split
          BY <3>2, <2>4, <1>5
        <4>2. job.split * (h + 1) + p <= job.split
          BY <4>1, <1>7
        <4> QED BY <4>2, <1>2
      <3> QED BY <3>1, <3>2
    <2> QED BY <2>2, <2>5, <1>9
  <1>10. CASE ~write_uram
    <2>1. Passed = job.split * (g + 1) + q /\ ~(Passed < job.split)
      BY <1>4, <1>7, <1>10
    <2>2. Num(status[2]) \in {0, 1}
      BY NumType
    <2>3. ~(Passed' < job.split)
      BY <2>1, <2>2, <1>2, <1>3, <1>6
    <2>4. Passed' = job.split * (h + 1) + p
      BY <2>3, <1>5, <1>7
    <2>5. CASE frozen \/ ~status[2]
      <3>1. Passed' = Passed
        BY <2>5, <1>3, <1>6 DEF Num
      <3>2. h = g /\ p = q
        BY ONLY <3>1, <2>1, <2>4, <1>4, <1>5, <1>8, g \in Nat, h \in Nat, p \in Nat, q \in Nat
      <3>3. ~status[2] => q = 0
        BY <1>1, <1>10, LastGroup
      <3> QED BY <3>2, <3>3, <2>5, <1>10
    <2>6. CASE ~frozen /\ status[2]
      <3>1. Passed' = Passed + 1
        BY <2>6, <1>3 DEF Num
      <3>2. CASE q = job.split - 1
        <4>1. job.split * (h + 1) + p = job.split * ((g + 1) + 1) + 0
          BY <3>1, <3>2, <2>1, <2>4, <1>2
        <4>2. h = g + 1 /\ p = 0
          BY <4>1, <1>2, <1>5, <1>8
        <4> QED BY <4>2, <3>2, <2>6, <1>10
      <3>3. CASE q # job.split - 1
        <4>1. job.split * (h + 1) + p = job.split * (g + 1) + (q + 1)
          BY <3>1, <2>1, <2>4, <1>2
        <4>2. q + 1 < job.split
          BY <3>3, <1>2, <1>4
        <4>3. h = g /\ p = q + 1
          BY <4>1, <4>2, <1>2, <1>5, <1>8
        <4> QED BY <4>3, <3>3, <2>6, <1>10
      <3> QED BY <3>2, <3>3
    <2> QED BY <2>5, <2>6
  <1> QED BY <1>9, <1>10

(* The groups depend on the job alone.                                     *)
LEMMA GroupStill ==
  ASSUME job' = job
  PROVE  /\ \A a, b : PartGroup(a, b)' = PartGroup(a, b)
         /\ \A a : RawGroup(a)' = RawGroup(a)
         /\ \A a : TheGroup(a)' = TheGroup(a)
         /\ \A a : TheLeaf(a)' = TheLeaf(a)
  BY Zenon DEF PartGroup, RawGroup, TheGroup, Products, GroupStart, TheLeaf

(* When stages 2 to 4 are done with their groups, the buffers change hands *)
(* now or have done so.                                                    *)
LEMMA PreTurns ==
  ASSUME NEW start, Clock(start), ControlInv, ~idle, Modes, (\A s : ~o_start(s)),
         NEW g \in Nat, NEW q \in Nat, GroupsInOrder(g, q), PreRight(g, q),
         s4_due # 0 \/ o_pre_tpp_switch
  PROVE  /\ status[3] => pre'.mext = TheGroup(g - 1)
         /\ status[2] /\ ~write_uram => pre'.intt = RawGroup(g)
  <1>1. pre' = IF o_pre_tpp_switch /\ ~edges.pre
               THEN [madd |-> pre.mext, intt |-> pre.madd, mext |-> pre.intt]
               ELSE pre
    BY ClockData
  <1>2. s2_due = s2_cnt /\ s4_due = s4_cnt
    BY DEF s2_due, s4_due, CountTo
  <1>3. s4_due # 0 => ~o_pre_tpp_switch
    BY <1>2 DEF Modes, o_pre_tpp_switch
  <1>4. CASE PreTurned
    <2>1. pre' = pre
      BY <1>1, <1>3, <1>4 DEF PreTurned
    <2> QED BY <2>1, <1>4 DEF PreRight
  <1>5. CASE ~PreTurned
    <2>1. o_pre_tpp_switch /\ ~edges.pre
      BY <1>5 DEF PreTurned
    <2>2. pre'.mext = pre.intt /\ pre'.intt = pre.madd
      BY <1>1, <2>1
    <2>3. done[2] /\ done[3] /\ (s2_cnt = 0 \/ ~status[2])
      BY <2>1 DEF o_pre_tpp_switch
    <2>4. status[2] /\ ~write_uram => q + 1 = job.split
      <3>1. job.split \in 1..4 /\ q < job.split
        BY JobFacts DEF ControlInv, Registers, GroupsInOrder
      <3>2. s2_cnt = IF write_uram \/ ~status[2] \/ q = job.split - 1 THEN 0 ELSE q + 1
        BY <1>2 DEF GroupsInOrder
      <3> QED BY <3>1, <3>2, <2>3
    <2>5. status[3] => pre.intt = TheGroup(g - 1)
      BY <2>3, <1>5 DEF PreRight
    <2>6. status[2] /\ ~write_uram => pre.madd = PartGroup(g, q + 1)
      BY <2>3, <1>5 DEF PreRight
    <2>7. status[2] /\ ~write_uram => pre.madd = RawGroup(g)
      BY <2>4, <2>6, Zenon DEF PartGroup, RawGroup
    <2> QED BY <2>2, <2>5, <2>7
  <1> QED BY <1>4, <1>5

(* A round hands the groups on, adds to the one in stage 2, extracts from  *)
(* the one in stage 4 again, or holds them all.                            *)
LEMMA RoundPre ==
  ASSUME Round, ControlInv, Modes, EdgesRight,
         NEW g \in Nat, NEW q \in Nat, GroupsInOrder(g, q), Taken(g) >= 0, PreRight(g, q),
         NEW h \in Nat, NEW p \in Nat, GroupsInOrder(h, p)'
  PROVE  /\ PreRight(h, p)'
         /\ o_start(4)' => pre'.mext = TheGroup(Group4(h)')
  <1>1. /\ ~start_pulse /\ start_pulse' /\ done' = done /\ job' = job
        /\ (stall_s4' <=> stall_for_s4) /\ (stall_s0s1s2' <=> hold_s0s1s2)
        /\ (stall_s3s4' <=> hold_s3s4) /\ (stall_s2' <=> stall_for_s2)
        /\ s2_cnt' = s2_cnt /\ s4_cnt' = s4_cnt /\ s4_due = s4_cnt /\ s2_due = s2_cnt
    BY RoundRegisters
  <1>2. /\ (\A s \in 1..10 : done[s]) /\ (\A s : ~o_start(s)) /\ Clock(FALSE)
    BY RoundFacts
  <1>3. done[2] /\ done[3] /\ done[4]
    BY <1>2
  <1>4. /\ status'[2] <=> (IF frozen THEN status[2] ELSE status[1])
        /\ status'[3] <=> (IF hold_s3s4 \/ stall_for_s4 \/ stall_for_s2
                         THEN status[3] ELSE status[2] /\ ~write_uram)
        /\ status'[4] <=> (IF hold_s3s4 \/ stall_for_s2
                         THEN stall_nxt /\ status[4] ELSE status[3])
        /\ o_start(2)' <=> (status'[2] /\ ~frozen /\ ~write_uram')
        /\ o_start(4)' <=> (status'[4] /\ ~hold_s3s4 /\ ~stall_for_s2)
    BY RoundMoves
  <1>5. o_start(3)' <=> status'[3] /\ ~hold_s3s4 /\ ~stall_for_s4 /\ ~stall_for_s2
    BY <1>1 DEF o_start, WrUram
  <1>6. s4_due' = IF status'[4] /\ ~hold_s3s4 /\ ~stall_for_s2
                      THEN IF s4_cnt = job.index - 1 THEN 0 ELSE s4_cnt + 1
                      ELSE s4_cnt
    BY RoundDue
  <1>7. /\ frozen \/ ~status[2] \/ write_uram => h = g /\ p = q
        /\ ~frozen /\ status[2] /\ ~write_uram /\ q = job.split - 1 => h = g + 1 /\ p = 0
        /\ ~frozen /\ status[2] /\ ~write_uram /\ q # job.split - 1 => h = g /\ p = q + 1
        /\ write_uram => g = 0 /\ q = 0 /\ h = 0 /\ p = 0
        /\ ~status[2] /\ ~write_uram => q = 0
    BY RoundGroup DEF ControlInv, Round, Running
  <1>8. /\ edges'.pre <=> o_pre_tpp_switch
        /\ pre' = IF o_pre_tpp_switch /\ ~edges.pre
                  THEN [madd |-> pre.mext, intt |-> pre.madd, mext |-> pre.intt]
                  ELSE pre
    BY <1>2, ClockData
  <1>9. o_pre_tpp_switch <=> (s2_cnt = 0 \/ ~status[2]) /\ (s4_cnt = 0 \/ ~status[4])
    BY <1>2, <1>3 DEF o_pre_tpp_switch
  <1>10. o_pre_tpp_switch' <=> /\ (s2_cnt = 0 \/ ~status'[2]) /\ (s4_cnt = 0 \/ ~status'[4])
                               /\ ~o_start(2)' /\ ~o_start(3)' /\ ~o_start(4)'
    BY <1>1, <1>3 DEF o_pre_tpp_switch
  <1>11. /\ stall_for_s2 => /\ s2_cnt # 0 /\ status[2] /\ status[1] /\ ~frozen
                            /\ ~write_uram /\ ~stall_for_s4 /\ s4_cnt = 0
                            /\ job.index = 1 /\ q < job.split - 1 /\ s2_cnt = q + 1
         /\ s4_cnt # 0 => status[3] /\ ~stall_for_s2 /\ s2_cnt = 0 /\ job.split = 1
    BY RoundCounts DEF ControlInv, Round, Running
  <1>12. /\ \A a, b : PartGroup(a, b)' = PartGroup(a, b)
         /\ \A a : RawGroup(a)' = RawGroup(a)
         /\ \A a : TheGroup(a)' = TheGroup(a)
    BY <1>1, GroupStill
  <1>13. ~idle
    BY DEF Round
  <1>14. write_uram' => write_uram
    BY RoundVector
  <1>15. CASE stall_for_s2
    <2>1. ~o_pre_tpp_switch /\ s4_cnt = 0 /\ s4_due = 0
      BY <1>1, <1>9, <1>11, <1>15
    <2>2. pre' = pre /\ ~edges'.pre
      BY <2>1, <1>8
    <2>3. ~PreTurned
      BY <2>1 DEF PreTurned
    <2>4. ~o_start(4)' /\ s4_due' = 0 /\ ~o_start(3)' /\ (status'[3] <=> status[3])
      BY <2>1, <1>4, <1>5, <1>6, <1>15
    <2>5. ~PreTurned'
      BY <2>2, <2>4 DEF PreTurned
    <2>6. status'[2] /\ ~write_uram' /\ o_start(2)' /\ h = g /\ p = q + 1
      <3>1. job.split \in 1..4
        BY JobFacts DEF Round, Registers
      <3> QED BY <3>1, <1>4, <1>7, <1>11, <1>14, <1>15
    <2>7. status[3] => pre.intt = TheGroup(g - 1)
      BY <2>3, <1>2, <1>3 DEF PreRight
    <2>8. pre.madd = PartGroup(g, q + 1)
      BY <2>3, <1>2, <1>3, <1>11, <1>15 DEF PreRight
    <2>9. PreRight(h, p)'
      <3>1. status'[3] => pre'.intt = TheGroup(h - 1)' /\ done'[3] /\ ~o_start(3)'
        BY <2>2, <2>4, <2>6, <2>7, <1>1, <1>3, <1>12
      <3>2. pre'.madd = PartGroup(h, p)'
        BY <2>2, <2>6, <2>8, <1>12, Zenon
      <3> QED BY <3>1, <3>2, <2>5, <2>6 DEF PreRight
    <2> QED BY <2>4, <2>9
  <1>16. CASE ~stall_for_s2
    <2>1. s4_cnt # 0 \/ o_pre_tpp_switch
      BY <1>9, <1>16 DEF stall_for_s2
    <2>2. /\ status[3] => pre'.mext = TheGroup(g - 1)
          /\ status[2] /\ ~write_uram => pre'.intt = RawGroup(g)
      BY <2>1, <1>1, <1>2, <1>13, PreTurns
    <2>3. CASE hold_s3s4
      <3>1. frozen /\ status[4] /\ stall_nxt
        BY <2>3, <1>16 DEF hold_s3s4, hold_s0s1s2, frozen
      <3>2. /\ (status'[2] <=> status[2]) /\ (status'[3] <=> status[3]) /\ status'[4]
            /\ ~o_start(2)' /\ ~o_start(3)' /\ ~o_start(4)'
        BY <2>3, <3>1, <1>4, <1>5
      <3>3. s4_due' = s4_cnt /\ h = g /\ p = q
        BY <2>3, <3>1, <1>6, <1>7
      <3>4. PreTurned'
        BY <3>1, <3>2, <3>3, <2>1, <1>8, <1>9, <1>10 DEF PreTurned
      <3>5. ~write_uram
        BY <3>1, VectorFirst
      <3>6. PreRight(h, p)'
        BY <3>2, <3>3, <3>4, <3>5, <2>2, <1>1, <1>12 DEF PreRight
      <3> QED BY <3>2, <3>6
    <2>4. CASE ~hold_s3s4 /\ stall_for_s4
      <3>1. frozen /\ status[3] /\ s4_cnt # job.index - 1
        BY <2>4 DEF stall_for_s4, frozen
      <3>2. (status'[2] <=> status[2]) /\ status'[3] /\ status'[4] /\ o_start(4)'
        BY <2>4, <3>1, <1>4, <1>16
      <3>3. s4_due' # 0 /\ h = g /\ p = q
        <4>1. s4_cnt \in Nat
          BY JobFacts DEF Round, Registers
        <4>2. s4_due' = s4_cnt + 1
          BY <3>1, <3>2, <2>4, <1>6, <1>16
        <4> QED BY <4>1, <4>2, <3>1, <1>7
      <3>4. PreTurned'
        BY <3>3 DEF PreTurned
      <3>5. ~write_uram
        BY <3>1, VectorFirst
      <3>6. PreRight(h, p)'
        BY <3>1, <3>2, <3>3, <3>4, <3>5, <2>2, <1>1, <1>12 DEF PreRight
      <3>7. Group4(h)' = g - 1
        BY <3>3 DEF Group4
      <3> QED BY <3>1, <3>6, <3>7, <2>2
    <2>5. CASE ~hold_s3s4 /\ ~stall_for_s4
      <3>1. ~frozen
        BY <2>5, <1>16 DEF frozen, hold_s3s4, hold_s0s1s2
      <3>2. /\ (status'[3] <=> status[2] /\ ~write_uram) /\ (status'[4] <=> status[3])
            /\ (o_start(3)' <=> status'[3]) /\ (o_start(4)' <=> status'[4])
            /\ (o_start(2)' <=> status'[2] /\ ~write_uram')
        BY <2>5, <3>1, <1>4, <1>5, <1>16
      <3>3. s4_due' = 0
        BY <3>2, <2>5, <1>6, <1>11, <1>16 DEF stall_for_s4
      <3>4. PreTurned' => ~status'[3] /\ ~(status'[2] /\ ~write_uram')
        BY <3>2, <3>3, <1>10 DEF PreTurned
      <3>5. status[2] /\ ~write_uram => q = job.split - 1 /\ h = g + 1 /\ p = 0
        <4>1. status[2] => s2_cnt = 0
          BY <1>16 DEF stall_for_s2
        <4>2. s2_cnt = IF write_uram \/ ~status[2] \/ q = job.split - 1 THEN 0 ELSE q + 1
          BY <1>1 DEF GroupsInOrder
        <4>3. status[2] /\ ~write_uram => q = job.split - 1
          BY <4>1, <4>2
        <4> QED BY <4>3, <3>1, <1>7
      <3>6. p = 0
        BY <3>5, <1>7
      <3>7. status'[3] => pre'.intt = RawGroup(h - 1)
        <4>1. status'[3] => h - 1 = g
          BY <3>2, <3>5
        <4> QED BY <4>1, <3>2, <2>2, Zenon
      <3>8. PreRight(h, p)'
        <4>1. status'[3] => pre'.intt = RawGroup(h - 1)' /\ o_start(3)'
          BY <3>2, <3>7, <1>12
        <4>2. status'[2] /\ ~write_uram' => ~(done'[2] /\ ~o_start(2)')
          BY <3>2
        <4> QED BY <4>1, <4>2, <3>4, <3>6 DEF PreRight
      <3>9. ASSUME o_start(4)' PROVE pre'.mext = TheGroup(Group4(h)')
        <4>1. status[3] /\ g >= 1 /\ ~write_uram
          BY <3>2, <3>9, <1>7 DEF GroupsInOrder
        <4>2. pre'.mext = TheGroup(g - 1)
          BY <4>1, <2>2
        <4>3. Group4(h)' = g - 1
          <5>1. Group4(h)' = (h - Num(status'[3])) - 1
            BY <3>3, Zenon DEF Group4
          <5>2. CASE status[2]
            <6>1. Num(status'[3]) = 1 /\ h = g + 1
              BY <5>2, <4>1, <3>2, <3>5 DEF Num
            <6> QED BY <5>1, <6>1
          <5>3. CASE ~status[2]
            <6>1. Num(status'[3]) = 0 /\ h = g
              BY <5>3, <4>1, <3>2, <1>7 DEF Num
            <6> QED BY <5>1, <6>1
          <5> QED BY <5>2, <5>3
        <4> QED BY <4>2, <4>3
      <3> QED BY <3>8, <3>9
    <2> QED BY <2>3, <2>4, <2>5
  <1> QED BY <1>15, <1>16

(* A round moves the leaf into stage 5, or keeps it where stage 5 will     *)
(* find it.                                                                *)
LEMMA RoundLeaf ==
  ASSUME Round, ControlInv, Modes, EdgesRight, NEW g \in Nat, LeafRight(g),
         NEW h \in Nat, Taken(h)' = Taken(g) + Num(LeafMoves), Taken(g) \in Nat,
         o_start(4)' => pre'.mext = TheGroup(Group4(h)')
  PROVE  LeafRight(h)'
  <1>1. /\ ~start_pulse /\ start_pulse' /\ done' = done /\ job' = job
        /\ (stall' <=> stall_nxt)
    BY RoundRegisters
  <1>2. (\A s \in 1..10 : done[s]) /\ (\A s : ~o_start(s)) /\ Clock(FALSE)
    BY RoundFacts
  <1>3. done[4] /\ done[5] /\ done'[4] /\ done'[5]
    BY <1>1, <1>2
  <1>4. LeafDone /\ LeafDone'
    BY <1>3 DEF LeafDone
  <1>5. edges'.leaf /\ leaf' = IF LeafDone /\ ~edges.leaf
                    THEN [mext |-> leaf.mux, mux |-> leaf.mext] ELSE leaf
    BY <1>2, <1>4, ClockData
  <1>6. LeafTurned'
    BY <1>4, <1>5 DEF LeafTurned
  <1>7. status[4] => leaf'.mux = TheLeaf(Taken(g))
    <2>1. CASE edges.leaf
      <3>1. leaf' = leaf /\ LeafTurned
        BY <2>1, <1>4, <1>5 DEF LeafTurned
      <3> QED BY <3>1, <1>2, <1>3 DEF LeafRight
    <2>2. CASE ~edges.leaf
      <3>1. leaf'.mux = leaf.mext /\ ~LeafTurned
        BY <2>2, <1>4, <1>5 DEF LeafTurned
      <3> QED BY <3>1, <1>2, <1>3 DEF LeafRight
    <2> QED BY <2>1, <2>2
  <1>8. \A a : TheLeaf(a)' = TheLeaf(a)
    BY <1>1, GroupStill
  <1>9. ASSUME status'[4], ~o_start(4)' PROVE leaf'.mux = TheLeaf(Taken(h))'
    <2>1. hold_s3s4 \/ stall_for_s2
      BY <1>9, RoundMoves
    <2>2. stall_nxt /\ status[4]
      BY <1>9, <2>1, RoundMoves
    <2>3. Num(LeafMoves) = 0
      BY <2>2 DEF LeafMoves, Num
    <2>4. Taken(h)' = Taken(g)
      BY <2>3
    <2> QED BY <2>2, <2>4, <1>7, <1>1, Zenon DEF TheLeaf
  <1>10. ASSUME status'[5], ~o_mux_s5_mode' PROVE leaf'.mux = TheLeaf(Taken(h) - 1)'
    <2>1. ~stall_nxt /\ ~reduce_trace'
      BY <1>1, <1>10 DEF o_mux_s5_mode
    <2>2. ~reduce_trace
      BY <2>1, RoundLevels DEF ControlInv
    <2>3. status[4]
      BY <2>1, <2>2, <1>10, RoundLevels DEF ControlInv
    <2>4. Num(LeafMoves) = 1
      BY <2>1, <2>3 DEF LeafMoves, Num
    <2>5. Taken(h)' - 1 = Taken(g)
      BY <2>4
    <2> QED BY <2>3, <2>5, <1>7, <1>1, Zenon DEF TheLeaf
  <1>11. done'[4] /\ (o_start(4)' => pre'.mext = TheGroup(Group4(h))')
    <2>1. TheGroup(Group4(h))' = TheGroup(Group4(h)')
      BY <1>1, Zenon DEF TheGroup, Products, GroupStart
    <2> QED BY <2>1, <1>3
  <1> QED BY <1>3, <1>6, <1>9, <1>10, <1>11 DEF LeafRight

(* At a start pulse nothing changes hands; later the groups do when stages *)
(* 2 to 4 are done with them.                                              *)
LEMMA PlainPre ==
  ASSUME ControlInv, ~idle, ~all_stage_done, Tick, Modes, EdgesRight,
         NEW g \in Nat, NEW q \in Nat, GroupsInOrder(g, q), PreRight(g, q)
  PROVE  /\ PreRight(g, q)'
         /\ ~done[4] \/ o_start(4) => pre' = pre
  <1>1. /\ ~start_pulse' /\ (write_uram' <=> write_uram) /\ status' = status
        /\ job' = job /\ Clock(FALSE) /\ s4_due' = s4_due
        /\ s2_cnt' = s2_due /\ s4_cnt' = s4_due
        /\ \A s : ~o_start(s)'
    BY PlainFacts
  <1>2. /\ done'[2] <=> done[2] /\ ~o_start(2)
        /\ done'[3] <=> done[3] /\ ~o_start(3)
        /\ done'[4] <=> done[4] /\ ~o_start(4)
    BY PlainFacts
  <1>3. /\ edges'.pre <=> o_pre_tpp_switch
        /\ pre' = IF o_pre_tpp_switch /\ ~edges.pre
                  THEN [madd |-> pre.mext, intt |-> pre.madd, mext |-> pre.intt]
                  ELSE pre
    BY <1>1, ClockData
  <1>4. /\ \A a, b : PartGroup(a, b)' = PartGroup(a, b)
        /\ \A a : RawGroup(a)' = RawGroup(a)
        /\ \A a : TheGroup(a)' = TheGroup(a)
    BY <1>1, GroupStill
  <1>5. ~done[4] \/ o_start(4) => pre' = pre
    BY <1>3 DEF o_pre_tpp_switch
  <1>6. o_pre_tpp_switch => o_pre_tpp_switch'
    <2>1. ASSUME o_pre_tpp_switch PROVE o_pre_tpp_switch'
      <3>1. ~o_start(2) /\ ~o_start(3) /\ ~o_start(4) /\ done[2] /\ done[3] /\ done[4]
            /\ (s2_cnt = 0 \/ ~status[2]) /\ (s4_cnt = 0 \/ ~status[4])
        BY <2>1 DEF o_pre_tpp_switch
      <3>2. s2_cnt' = s2_cnt /\ s4_cnt' = s4_cnt
        BY <3>1, <1>1 DEF s2_due, s4_due, CountTo
      <3> QED BY <3>1, <3>2, <1>1, <1>2 DEF o_pre_tpp_switch
    <2> QED BY <2>1
  <1>7. PreTurned' <=> s4_due # 0 \/ o_pre_tpp_switch
    BY <1>1, <1>3, <1>6 DEF PreTurned
  <1>8. CASE o_pre_tpp_switch /\ ~edges.pre
    <2>1. ~start_pulse
      BY <1>8 DEF EdgesRight
    <2>2. \A s : ~o_start(s)
      BY <2>1 DEF o_start
    <2>3. /\ status[3] => pre'.mext = TheGroup(g - 1)
          /\ status[2] /\ ~write_uram => pre'.intt = RawGroup(g)
      BY <2>2, <1>1, <1>8, PreTurns
    <2>4. PreTurned'
      BY <1>7, <1>8
    <2>5. PreRight(g, q)'
      BY <2>3, <2>4, <1>1, <1>4 DEF PreRight
    <2> QED BY <2>5, <1>5
  <1>9. CASE ~(o_pre_tpp_switch /\ ~edges.pre)
    <2>1. pre' = pre
      BY <1>3, <1>9
    <2>2. PreTurned' <=> PreTurned
      BY <1>7, <1>9 DEF PreTurned
    <2>3. PreRight(g, q)'
      BY <2>1, <2>2, <1>1, <1>2, <1>4 DEF PreRight
    <2> QED BY <2>1, <2>3
  <1> QED BY <1>8, <1>9

(* The leaf of stage 4 reaches stage 5 when both are done; while stage 5   *)
(* packs, it does so ahead of time and stays.                              *)
LEMMA PlainLeaf ==
  ASSUME ControlInv, ~idle, ~all_stage_done, Tick, Modes, EdgesRight,
         NEW g \in Nat, LeafRight(g), Taken(g)' = Taken(g),
         ~done[4] \/ o_start(4) => pre' = pre
  PROVE  LeafRight(g)'
  <1>1. /\ ~start_pulse' /\ status' = status /\ job' = job /\ Clock(FALSE)
        /\ s4_due' = s4_due /\ stall' = stall /\ (reduce_trace => reduce_trace')
        /\ \A s : ~o_start(s)'
    BY PlainFacts
  <1>2. /\ done'[4] <=> done[4] /\ ~o_start(4)
        /\ done'[5] <=> done[5] /\ ~o_start(5)
    BY PlainFacts
  <1>3. /\ edges'.leaf <=> LeafDone
        /\ leaf' = IF LeafDone /\ ~edges.leaf
                   THEN [mext |-> leaf.mux, mux |-> leaf.mext] ELSE leaf
    BY <1>1, ClockData
  <1>4. /\ \A a : TheGroup(a)' = TheGroup(a)
        /\ \A a : TheLeaf(a)' = TheLeaf(a)
    BY <1>1, GroupStill
  <1>5. Group4(g)' = Group4(g)
    BY <1>1 DEF Group4
  <1>6. ~done'[4] => pre'.mext = TheGroup(Group4(g))'
    <2>1. TheGroup(Group4(g))' = TheGroup(Group4(g)')
      BY <1>1, Zenon DEF TheGroup, Products, GroupStart
    <2>2. ~done'[4] => pre.mext = TheGroup(Group4(g)) /\ pre' = pre
      BY <1>2 DEF LeafRight
    <2> QED BY <2>1, <2>2, <1>5, Zenon
  <1>7. /\ TheLeaf(Taken(g))' = TheLeaf(Taken(g))
        /\ TheLeaf(Taken(g) - 1)' = TheLeaf(Taken(g) - 1)
    BY <1>1, Zenon DEF TheLeaf
  <1>8. o_mux_s5_mode => o_mux_s5_mode'
    BY <1>1 DEF o_mux_s5_mode
  <1>9. CASE start_pulse
    <2>1. LeafDone /\ edges.leaf
      BY <1>9 DEF EdgesRight
    <2>2. leaf' = leaf /\ edges'.leaf /\ LeafTurned
      BY <2>1, <1>3 DEF LeafTurned
    <2>3. ASSUME status'[4], done'[4] PROVE LeafTurned' /\ leaf'.mux = TheLeaf(Taken(g))'
      <3>1. ~o_start(4) /\ stall
        BY <2>3, <1>1, <1>2, <1>9 DEF Modes
      <3>2. LeafTurned'
        BY <3>1, <2>2, <2>3, <1>1 DEF LeafTurned, LeafDone, o_mux_s5_mode
      <3>3. leaf.mux = TheLeaf(Taken(g))
        BY <3>1, <2>2, <2>3, <1>1, <1>2 DEF LeafRight
      <3> QED BY <3>2, <3>3, <2>2, <1>7
    <2>4. status'[5] /\ ~o_mux_s5_mode' => leaf'.mux = TheLeaf(Taken(g) - 1)'
      BY <2>2, <1>1, <1>7, <1>8, <1>9 DEF LeafRight
    <2> QED BY <2>3, <2>4, <1>1, <1>6 DEF LeafRight
  <1>10. CASE ~start_pulse
    <2>1. ~o_start(4) /\ ~o_start(5)
      BY <1>10 DEF o_start
    <2>2. LeafDone => LeafDone'
      BY <2>1, <1>2, <1>8 DEF LeafDone
    <2>3. LeafTurned' <=> LeafDone
      BY <2>2, <1>3 DEF LeafTurned
    <2>4. ASSUME status'[4], done'[4]
          PROVE  IF LeafTurned' THEN leaf'.mux = TheLeaf(Taken(g))'
                 ELSE leaf'.mext = TheLeaf(Taken(g))'
      <3>1. IF LeafTurned THEN leaf.mux = TheLeaf(Taken(g)) ELSE leaf.mext = TheLeaf(Taken(g))
        BY <2>1, <2>4, <1>1, <1>2 DEF LeafRight
      <3>2. CASE LeafDone /\ ~edges.leaf
        <4>1. leaf'.mux = leaf.mext /\ ~LeafTurned
          BY <3>2, <1>3 DEF LeafTurned
        <4> QED BY <3>1, <3>2, <4>1, <2>3, <1>7
      <3>3. CASE ~(LeafDone /\ ~edges.leaf)
        <4>1. leaf' = leaf /\ (LeafTurned <=> LeafDone)
          BY <3>3, <1>3 DEF LeafTurned
        <4> QED BY <3>1, <4>1, <2>3, <1>7
      <3> QED BY <3>2, <3>3
    <2>5. ASSUME status'[5], ~o_mux_s5_mode', ~done'[5]
          PROVE  leaf'.mux = TheLeaf(Taken(g) - 1)'
      <3>1. status[5] /\ ~o_mux_s5_mode /\ ~done[5]
        BY <2>1, <2>5, <1>1, <1>2, <1>8
      <3>2. leaf' = leaf
        BY <3>1, <1>3 DEF LeafDone
      <3>3. leaf.mux = TheLeaf(Taken(g) - 1)
        BY <3>1 DEF LeafRight
      <3> QED BY <3>2, <3>3, <1>7
    <2> QED BY <2>4, <2>5, <1>1, <1>6 DEF LeafRight
  <1> QED BY <1>9, <1>10

(* Stage 2 adds the product of its split, stage 3 transforms once.         *)
LEMMA StagePre ==
  ASSUME ControlInv, Modes, EdgesRight, DpRight, UramRight,
         DOMAIN pre = {"madd", "intt", "mext"},
         NEW s \in 1..10, StageDone(s),
         s = 2 => pre' = [pre EXCEPT !.madd =
               Group((IF o_idx_split = 0 THEN {} ELSE @.prods)
                       \cup {<<dp.madd, uram[o_idx_split]>>}, 0)],
         s = 3 => pre' = [pre EXCEPT !.intt.intt = @ + 1],
         s \notin {2, 3} => pre' = pre,
         NEW g \in Nat, NEW q \in Nat, GroupsInOrder(g, q), PreRight(g, q)
  PROVE  PreRight(g, q)' /\ pre'.mext = pre.mext
  <1>1. /\ ~start_pulse /\ ~start_pulse' /\ delay = 3 /\ status' = status /\ ~idle
        /\ edges' = edges /\ write_uram' = write_uram /\ job' = job
        /\ s4_due' = s4_due /\ s4_cnt' = s4_cnt /\ s2_cnt' = s2_cnt
        /\ ~done[s] /\ done'[s]
    BY StageFacts
  <1>2. /\ \A t : ~o_start(t) /\ ~o_start(t)'
        /\ \A t \in 0..10 : t # s => done'[t] = done[t]
    BY StageFacts
  <1>3. /\ \A a, b : PartGroup(a, b)' = PartGroup(a, b)
        /\ \A a : RawGroup(a)' = RawGroup(a)
        /\ \A a : TheGroup(a)' = TheGroup(a)
    BY <1>1, GroupStill
  <1>4. PreTurned' <=> PreTurned
    <2>1. CASE s \in {2, 3, 4}
      <3>1. ~edges.pre
        BY <2>1, <1>1 DEF EdgesRight
      <3> QED BY <3>1, <1>1 DEF PreTurned
    <2>2. CASE s \notin {2, 3, 4}
      <3>1. done'[2] = done[2] /\ done'[3] = done[3] /\ done'[4] = done[4]
        BY <2>2, <1>2
      <3>2. o_pre_tpp_switch' <=> o_pre_tpp_switch
        BY <3>1, <1>1, <1>2 DEF o_pre_tpp_switch
      <3> QED BY <3>2, <1>1 DEF PreTurned
    <2> QED BY <2>1, <2>2
  <1>5. CASE s = 2
    <2>1. status[2] /\ ~done[2] /\ done'[2] /\ done'[3] = done[3] /\ ~write_uram
      BY <1>1, <1>2, <1>5, StageFacts DEF Modes
    <2> DEFINE new == Group((IF o_idx_split = 0 THEN {} ELSE pre.madd.prods)
                              \cup {<<dp.madd, uram[o_idx_split]>>}, 0)
    <2>2. pre' = [pre EXCEPT !.madd = new]
      BY <1>5
    <2> HIDE DEF new
    <2>3. pre'.madd = new /\ pre'.intt = pre.intt /\ pre'.mext = pre.mext
      BY <2>2
    <2>4. CASE PreTurned
      BY <2>1, <2>3, <2>4, <1>1, <1>3, <1>4 DEF PreRight
    <2>5. CASE ~PreTurned
      <3>1. o_idx_split = q /\ q \in 0..(job.split - 1)
        BY <2>1, <1>1, SplitIndex
      <3>2. ~DpTurned
        BY <1>1, <1>5, FrontWorks DEF DpTurned
      <3>3. dp.madd = Batch(Passed, 1)
        BY <3>2, <2>1 DEF DpRight
      <3>4. Passed = GroupStart(g) + q
        BY <2>1 DEF GroupsInOrder
      <3>5. uram[q] = Batch(q, 1)
        <4>1. Stored = job.split
          BY <2>1 DEF Stored
        <4>2a. job \in Jobs
          BY DEF ControlInv, Registers
        <4>2. job.split \in Nat
          BY <4>2a, JobFacts
        <4>3. q < job.split
          BY <3>1, <4>2
        <4>4. q < Stored
          BY <4>1, <4>3
        <4> QED BY <3>1, <4>4 DEF UramRight
      <3>6. q > 0 => pre.madd = PartGroup(g, q)
        BY <2>1, <2>5 DEF PreRight
      <3>7. (IF q = 0 THEN {} ELSE pre.madd.prods) = Products(g, q)
        <4>1. CASE q = 0
          <5>1. Products(g, 0) = {}
            BY ProductsGrow
          <5> QED BY <4>1, <5>1, Zenon
        <4>2. CASE q # 0
          <5>1. q > 0
            BY <4>2
          <5>2. pre.madd = Group(Products(g, q), 0)
            BY <5>1, <3>6, Zenon DEF PartGroup
          <5>3. pre.madd.prods = Products(g, q)
            BY <5>2 DEF Group
          <5> QED BY <4>2, <5>3, Zenon
        <4> QED BY <4>1, <4>2
      <3>8. new = Group(Products(g, q) \cup {<<Batch(GroupStart(g) + q, 1), Batch(q, 1)>>}, 0)
        BY <3>1, <3>3, <3>4, <3>5, <3>7, Zenon DEF new
      <3>9. new = PartGroup(g, q + 1)
        <4>1. Products(g, q + 1) =
                Products(g, q) \cup {<<Batch(GroupStart(g) + q, 1), Batch(q, 1)>>}
          BY ProductsGrow
        <4> QED BY <4>1, <3>8, Zenon DEF PartGroup
      <3>10. pre'.madd = PartGroup(g, q + 1)'
        BY <3>9, <2>3, <1>3, Zenon
      <3>11. status[3] => pre.intt = IF done[3] /\ ~o_start(3) THEN TheGroup(g - 1)
                                     ELSE RawGroup(g - 1)
        BY <2>5 DEF PreRight
      <3>12. status'[3] => pre'.intt = IF done'[3] /\ ~o_start(3)' THEN TheGroup(g - 1)'
                                       ELSE RawGroup(g - 1)'
        BY <3>11, <2>1, <2>3, <1>1, <1>2, <1>3
      <3>13. ~PreTurned' /\ done'[2] /\ ~o_start(2)'
        BY <2>1, <2>5, <1>2, <1>4
      <3> QED BY <3>10, <3>12, <3>13, <2>3 DEF PreRight
    <2> QED BY <2>4, <2>5
  <1>6. CASE s = 3
    <2>1. status[3] /\ ~done[3] /\ done'[3] /\ done'[2] = done[2]
      BY <1>1, <1>2, <1>6, StageFacts
    <2>2. ~PreTurned
      BY <2>1, <1>1 DEF PreTurned, Modes, o_pre_tpp_switch
    <2>3. pre.intt = RawGroup(g - 1)
      BY <2>1, <2>2 DEF PreRight
    <2>4. pre' = [pre EXCEPT !.intt = [pre.intt EXCEPT !.intt = pre.intt.intt + 1]]
      BY <1>6
    <2>5. [pre.intt EXCEPT !.intt = pre.intt.intt + 1] = TheGroup(g - 1)
      BY <2>3 DEF RawGroup, TheGroup, Group
    <2>6. pre'.intt = TheGroup(g - 1) /\ pre'.madd = pre.madd /\ pre'.mext = pre.mext
      BY <2>4, <2>5
    <2>7. ~PreTurned' /\ pre'.intt = TheGroup(g - 1)' /\ ~o_start(3)'
      BY <2>2, <2>6, <1>2, <1>3, <1>4
    <2>8. status[2] /\ ~write_uram =>
            IF done[2] /\ ~o_start(2) THEN pre.madd = PartGroup(g, q + 1)
            ELSE q > 0 => pre.madd = PartGroup(g, q)
      BY <2>2 DEF PreRight
    <2>9. status'[2] /\ ~write_uram' =>
            IF done'[2] /\ ~o_start(2)' THEN pre'.madd = PartGroup(g, q + 1)'
            ELSE q > 0 => pre'.madd = PartGroup(g, q)'
      BY <2>1, <2>6, <2>8, <1>1, <1>2, <1>3
    <2> QED BY <2>1, <2>6, <2>7, <2>9 DEF PreRight
  <1>7. CASE s \notin {2, 3}
    <2>1. pre' = pre /\ done'[2] = done[2] /\ done'[3] = done[3]
      BY <1>2, <1>7
    <2> QED BY <2>1, <1>1, <1>2, <1>3, <1>4 DEF PreRight
  <1> QED BY <1>5, <1>6, <1>7

(* Stage 4 extracts the leaf that the tree takes next.                     *)
LEMMA NextLeaf ==
  ASSUME ControlInv, ~idle, Modes, ~start_pulse, status[4], NEW g \in Nat, NEW q \in Nat,
         GroupsInOrder(g, q), Taken(g) >= 0
  PROVE  Leaf(TheGroup(Group4(g)), o_coeff_index) = TheLeaf(Taken(g))
  <1>1. job \in Jobs /\ Registers
    BY DEF ControlInv, Registers
  <1>2. s4_due = s4_cnt
    BY DEF s4_due, CountTo, o_start
  <1>3. s4_cnt \in 0..(job.index - 1) /\ job.index \in Nat /\ job.index >= 1
    BY <1>1, JobFacts DEF Registers
  <1>4. Num(status[4]) = 1
    BY DEF Num
  <1> DEFINE G == g - Num(status[3])
  <1>5. Taken(g) = (FirstRow(G) + s4_cnt) - 1
    BY <1>2, <1>4, Zenon DEF Taken, Extracted
  <1>6. /\ status[3] => G = g - 1 /\ g >= 1
        /\ ~status[3] => G = g - 0 /\ s4_cnt = 0
    BY <1>2 DEF Num, GroupsInOrder
  <1>7. G \in Nat
    BY <1>6
  <1>8. CASE s4_cnt # 0
    <2>1. G = g - 1 /\ Group4(g) = g - 1
      BY <1>2, <1>6, <1>8 DEF Group4
    <2>2. o_coeff_index = s4_cnt - 1 /\ s4_cnt - 1 \in 0..(job.index - 1)
      BY <1>3, <1>8 DEF o_coeff_index
    <2>3. FirstRow(G) \in Nat
      BY <1>1, <1>7, Counting
    <2> DEFINE f == FirstRow(G)
               t == Taken(g)
    <2>4. f \in Nat /\ t = (f + s4_cnt) - 1
      BY <2>3, <1>5
    <2> HIDE DEF f, t
    <2>5. t = f + (s4_cnt - 1)
      BY <2>4, <1>3
    <2>6. Leaf(TheGroup(G), s4_cnt - 1) = TheLeaf(FirstRow(G) + (s4_cnt - 1))
      BY <2>2, <1>1, <1>7, LeafIs
    <2>7. Leaf(TheGroup(G), s4_cnt - 1) = TheLeaf(Taken(g))
      BY <2>5, <2>6, Zenon DEF f, t
    <2> QED BY <2>1, <2>2, <2>7, Zenon
  <1>9. CASE s4_cnt = 0
    <2>1. Group4(g) = G - 1
      <3>1. Group4(g) = (g - Num(status[3])) - 1
        BY <1>2, <1>9, Zenon DEF Group4
      <3> QED BY <3>1
    <2>2. o_coeff_index = job.index - 1 /\ job.index - 1 \in 0..(job.index - 1)
      BY <1>3, <1>9 DEF o_coeff_index
    <2>3. G # 0
      <3>1. CASE G = 0
        <4>1. FirstRow(0) = 0
          BY <1>1, Counting
        <4>2. Taken(g) = (0 + 0) - 1
          BY <3>1, <4>1, <1>5, <1>9, Zenon
        <4> QED BY <4>2
      <3> QED BY <3>1
    <2>4. G - 1 \in Nat /\ (G - 1) + 1 = G
      BY <2>3, <1>7
    <2>5. FirstRow((G - 1) + 1) = FirstRow(G - 1) + job.index /\ FirstRow(G - 1) \in Nat
      BY <2>4, <1>1, Counting
    <2> DEFINE f == FirstRow(G - 1)
               t == Taken(g)
    <2>6. FirstRow(G) = f + job.index /\ f \in Nat
      BY <2>4, <2>5, Zenon
    <2>7. t = ((f + job.index) + 0) - 1
      BY <2>6, <1>5, <1>9, Zenon
    <2> HIDE DEF f, t
    <2>8. t = f + (job.index - 1)
      BY <2>6, <2>7, <1>3
    <2>9. Leaf(TheGroup(G - 1), job.index - 1) = TheLeaf(FirstRow(G - 1) + (job.index - 1))
      BY <2>2, <2>4, <1>1, LeafIs
    <2>10. Leaf(TheGroup(G - 1), job.index - 1) = TheLeaf(Taken(g))
      BY <2>8, <2>9, Zenon DEF f, t
    <2> QED BY <2>1, <2>2, <2>10, Zenon
  <1> QED BY <1>8, <1>9

(* A stage finishes: stage 4 extracts the next leaf.                       *)
LEMMA StageLeaf ==
  ASSUME ControlInv, Modes, EdgesRight, DOMAIN leaf = {"mext", "mux"},
         NEW s \in 1..10, StageDone(s),
         leaf' = IF s = 4 THEN [leaf EXCEPT !.mext = Leaf(pre.mext, o_coeff_index)]
                 ELSE leaf,
         pre'.mext = pre.mext,
         NEW g \in Nat, NEW q \in Nat, GroupsInOrder(g, q), Taken(g) >= 0,
         LeafRight(g), Taken(g)' = Taken(g)
  PROVE  LeafRight(g)'
  <1>1. /\ ~start_pulse /\ ~start_pulse' /\ delay = 3 /\ status' = status /\ ~idle
        /\ edges' = edges /\ job' = job /\ s4_due' = s4_due
        /\ stall' = stall /\ reduce_trace' = reduce_trace
        /\ ~done[s] /\ done'[s]
    BY StageFacts
  <1>2. /\ \A t : ~o_start(t) /\ ~o_start(t)'
        /\ \A t \in 0..10 : t # s => done'[t] = done[t]
    BY StageFacts
  <1>3. Group4(g)' = Group4(g) /\ (o_mux_s5_mode' <=> o_mux_s5_mode)
    BY <1>1 DEF Group4, o_mux_s5_mode
  <1>4. /\ TheLeaf(Taken(g))' = TheLeaf(Taken(g))
        /\ TheLeaf(Taken(g) - 1)' = TheLeaf(Taken(g) - 1)
        /\ TheGroup(Group4(g))' = TheGroup(Group4(g))
    BY <1>1, <1>3, Zenon DEF TheLeaf, TheGroup, Products, GroupStart
  <1>5. CASE s = 4
    <2>1. ~done[4] /\ done'[4] /\ done'[5] = done[5] /\ status[4]
      BY <1>1, <1>2, <1>5, StageFacts
    <2>2. ~edges.leaf
      BY <2>1, <1>1 DEF EdgesRight, LeafDone
    <2>3. ~LeafTurned'
      BY <2>2, <1>1 DEF LeafTurned
    <2>4. pre.mext = TheGroup(Group4(g))
      BY <2>1 DEF LeafRight
    <2>5. leaf'.mext = Leaf(pre.mext, o_coeff_index) /\ leaf'.mux = leaf.mux
      BY <1>5
    <2>6. leaf'.mext = TheLeaf(Taken(g))
      BY <2>1, <2>4, <2>5, <1>1, NextLeaf
    <2>7. status[5] /\ ~o_mux_s5_mode /\ ~done[5] => leaf.mux = TheLeaf(Taken(g) - 1)
      BY DEF LeafRight
    <2> QED BY <2>1, <2>3, <2>5, <2>6, <2>7, <1>1, <1>2, <1>3, <1>4 DEF LeafRight
  <1>6. CASE s # 4
    <2>1. leaf' = leaf /\ done'[4] = done[4]
      BY <1>2, <1>6
    <2>2. done'[4] => (LeafTurned' <=> LeafTurned)
      <3>1. CASE s = 5 /\ ~o_mux_s5_mode
        <4>1. ~LeafDone
          BY <3>1, <1>1 DEF LeafDone
        <4>2. ~edges.leaf
          BY <4>1, <1>1 DEF EdgesRight
        <4> QED BY <4>2, <1>1 DEF LeafTurned
      <3>2. CASE s # 5 \/ o_mux_s5_mode
        <4>1. LeafDone' <=> LeafDone
          BY <3>2, <2>1, <1>2, <1>3 DEF LeafDone
        <4> QED BY <4>1, <1>1 DEF LeafTurned
      <3> QED BY <3>1, <3>2
    <2>3. ~done'[5] => ~done[5]
      <3>1. s = 5 \/ done'[5] = done[5]
        BY <1>2
      <3> QED BY <3>1, <1>1
    <2>4. /\ ~done[4] => pre.mext = TheGroup(Group4(g))
          /\ status[4] /\ done[4] =>
               IF LeafTurned THEN leaf.mux = TheLeaf(Taken(g)) ELSE leaf.mext = TheLeaf(Taken(g))
          /\ status[5] /\ ~o_mux_s5_mode /\ ~done[5] => leaf.mux = TheLeaf(Taken(g) - 1)
      BY <1>2 DEF LeafRight
    <2>5. /\ ~done'[4] \/ o_start(4)' => pre'.mext = TheGroup(Group4(g))'
      BY <2>1, <2>4, <1>2, <1>4
    <2>6. status'[4] /\ done'[4] =>
               IF LeafTurned' THEN leaf'.mux = TheLeaf(Taken(g))'
               ELSE leaf'.mext = TheLeaf(Taken(g))'
      BY <2>1, <2>2, <2>4, <1>1, <1>4
    <2>7. status'[5] /\ ~o_mux_s5_mode' /\ ~done'[5] => leaf'.mux = TheLeaf(Taken(g) - 1)'
      BY <2>1, <2>3, <2>4, <1>1, <1>3, <1>4
    <2> QED BY <2>5, <2>6, <2>7, <1>1, <1>2 DEF LeafRight
  <1> QED BY <1>5, <1>6

(* The reader leaves the groups and the leaves alone.                      *)
LEMMA BatchFront ==
  ASSUME ControlInv, BatchRead, NEW g \in Nat, NEW q \in Nat,
         PreRight(g, q), LeafRight(g), Taken(g)' = Taken(g)
  PROVE  PreRight(g, q)' /\ LeafRight(g)'
  <1>1. /\ ~start_pulse /\ ~start_pulse' /\ status' = status
        /\ edges' = edges /\ write_uram' = write_uram /\ job' = job
        /\ s4_due' = s4_due /\ s4_cnt' = s4_cnt /\ s2_cnt' = s2_cnt /\ done' = done
        /\ stall' = stall /\ reduce_trace' = reduce_trace
    BY BatchFacts
  <1>2. \A t : ~o_start(t) /\ ~o_start(t)'
    BY BatchFacts
  <1>3. pre' = pre /\ leaf' = leaf
    BY DEF BatchRead
  <1>4. /\ \A a, b : PartGroup(a, b)' = PartGroup(a, b)
        /\ \A a : RawGroup(a)' = RawGroup(a)
        /\ \A a : TheGroup(a)' = TheGroup(a)
    BY <1>1, GroupStill
  <1>5. o_pre_tpp_switch' <=> o_pre_tpp_switch
    BY <1>1, <1>2 DEF o_pre_tpp_switch
  <1>6. PreTurned' <=> PreTurned
    BY <1>1, <1>5 DEF PreTurned
  <1>7. PreRight(g, q)'
    BY <1>1, <1>2, <1>3, <1>4, <1>6 DEF PreRight
  <1>8. /\ Group4(g)' = Group4(g) /\ (o_mux_s5_mode' <=> o_mux_s5_mode)
    BY <1>1 DEF Group4, o_mux_s5_mode
  <1>9. LeafTurned' <=> LeafTurned
    BY <1>1, <1>8 DEF LeafTurned, LeafDone
  <1>10. /\ TheLeaf(Taken(g))' = TheLeaf(Taken(g))
         /\ TheLeaf(Taken(g) - 1)' = TheLeaf(Taken(g) - 1)
         /\ TheGroup(Group4(g))' = TheGroup(Group4(g))
    BY <1>1, <1>8, Zenon DEF TheLeaf, TheGroup, Products, GroupStart
  <1>11. LeafRight(g)'
    BY <1>1, <1>2, <1>3, <1>8, <1>9, <1>10 DEF LeafRight
  <1> QED BY <1>7, <1>11

(* A run begins with no group and no leaf on its way.                      *)
LEMMA StartFront ==
  ASSUME ControlInv, NEW j \in Jobs, Start(j), NEW g \in Nat, NEW q \in Nat
  PROVE  PreRight(g, q)' /\ LeafRight(g)'
  <1>1. (\A s \in 0..9 : ~status'[s]) /\ (\A s : ~o_start(s)') /\ \A s \in 1..10 : done'[s]
    BY StartFacts
  <1>2. ~status'[2] /\ ~status'[3] /\ ~status'[4] /\ ~status'[5] /\ done'[4] /\ ~o_start(4)'
    BY <1>1
  <1> QED BY <1>2 DEF PreRight, LeafRight

-----------------------------------------------------------------------------
(* Stages 5 to 9: blocks                                                   *)

(* The tree of the run, as far as the registers tell.                      *)
LEMMA TreeFacts ==
  ASSUME Registers, RoundsApart, ReaderRight, NoBubble, NEW g \in Nat, NEW q \in Nat,
         GroupsInOrder(g, q), Taken(g) >= 0, NEW L \in Nat, L = job.level, NEW c \in [1..L -> Nat],
         c[1] = Taken(g), Tally(c)
  PROVE  /\ L \in 1..MaxN /\ MaxN \in Nat
         /\ c[1] <= 2^(L - 1)
         /\ c[L] # 0 => /\ ~status[4] /\ rd = "idle"
                        /\ \A k \in 1..(L - 1) : ~rb_status[k]
                        /\ \E s \in 5..9, m \in L..MaxN : Root(s, m)
         /\ c[L] \in {0, 1}
  <1>1. L \in 1..MaxN /\ MaxN \in Nat
    BY JobFacts DEF Registers
  <1>2. /\ Taken(g) \in Nat
        /\ Taken(g) + Num(status[4]) <= 2^(job.level - 1)
        /\ Taken(g) = 2^(job.level - 1) =>
             rd = "idle" /\ \A s \in 0..4 : ~status[s]
    BY FrontBound
  <1>3. c[1] <= 2^(L - 1)
    <2>1. c[1] + Num(status[4]) <= 2^(L - 1)
      BY <1>2, Zenon
    <2>2. c[1] \in Nat /\ Num(status[4]) \in Nat /\ 2^(L - 1) \in Nat
      BY <1>1, <1>2, NumType, NatPower
    <2> QED BY <2>1, <2>2
  <1>4. ASSUME c[L] # 0
        PROVE  /\ ~status[4] /\ rd = "idle"
               /\ \A k \in 1..(L - 1) : ~rb_status[k]
    <2>1. /\ c[1] = 2^(L - 1)
          /\ \A k \in 1..(L - 1) : InFlight(k) = 0 /\ Num(rb_status[k]) = 0
      BY <1>3, <1>4, TreeComplete
    <2>2. Taken(g) = 2^(job.level - 1)
      BY <2>1, Zenon
    <2>3. \A k \in 1..(L - 1) : ~rb_status[k]
      BY <2>1 DEF Num
    <2> QED BY <2>2, <2>3, <1>2
  <1>5. c[L] # 0 => \E s \in 5..9, m \in L..MaxN : Root(s, m)
    BY DEF Tally
  <1>6. c[L] \in {0, 1}
    <2> DEFINE x == [k \in 1..(L - 1) |-> InFlight(k) + Num(rb_status[k])]
    <2>1. ASSUME NEW k \in 1..(L - 1)
          PROVE  InFlight(k) \in Nat /\ Num(rb_status[k]) \in Nat
      BY InFlightType, NumType
    <2>2. x \in [1..(L - 1) -> Nat]
      BY <2>1
    <2>3. \A k \in 1..(L - 1) : c[k] = x[k] + 2 * c[k + 1]
      BY DEF Tally
    <2> HIDE DEF x
    <2>4a. L >= 1
      BY <1>1
    <2>4. c[L] <= 1
      BY <2>2, <2>3, <2>4a, <1>3, RootAlone
    <2>5. c[L] \in Nat
      BY <1>1
    <2> QED BY <2>4, <2>5
  <1> QED BY <1>1, <1>3, <1>4, <1>5, <1>6

(* At the end of a round, the root is in stage 8, or no block of the tree  *)
(* leaves stage 8 but one below the root.                                  *)
LEMMA RoundEight ==
  ASSUME Round, Levels, NEW L \in Nat, L = job.level, L \in 1..MaxN, MaxN \in Nat,
         NEW c \in [1..L -> Nat], Tally(c), c[L] # 0 => ~status[4]
  PROVE  /\ stall_nxt => /\ n[8] \in 1..(L - 1) /\ ~reduce_trace /\ ~reduce_trace'
                         /\ rb_status[n[8]] /\ c[L] = 0 /\ status'[5]
         /\ n[8] \in 0..MaxN
         /\ n[8] >= L => reduce_trace /\ reduce_trace'
         /\ ~status'[5] => n'[5] = 0
         /\ status'[5] => n'[5] = IF stall_nxt \/ n[8] >= L THEN n[8] + 1 ELSE 1
         /\ status'[5] /\ reduce_trace' => n[8] >= L
  <1>1. /\ status'[5] <=> (n[8] < MaxN /\ IF reduce_trace THEN status[8]
                                          ELSE status[4] \/ stall_nxt)
        /\ n'[5] = IF ~status'[5] THEN 0
                   ELSE IF stall_nxt \/ reduce_trace THEN n[8] + 1 ELSE 1
        /\ reduce_trace' <=> reduce_trace \/ n[8] = L
        /\ n[8] \in 0..MaxN
    BY RoundLevels
  <1>2. status[8] <=> n[8] # 0
    BY DEF Levels
  <1>3. stall_nxt => n[8] # 0 /\ n[8] < MaxN /\ rb_status[n[8]]
    BY DEF stall_nxt, Levels
  <1>4. n[8] = L => reduce_trace
    BY RoundRegisters DEF Levels, Round, all_stage_done
  <1>5. CASE c[L] = 0
    <2>1. ~reduce_trace /\ n[8] < L
      BY <1>5 DEF Tally
    <2> QED BY <2>1, <1>1, <1>2, <1>3, <1>5
  <1>6. CASE c[L] # 0
    <2>1. PICK s \in 5..9, m \in L..MaxN : Root(s, m)
      BY <1>6 DEF Tally
    <2>2. /\ n[s] = m
          /\ \A t \in (5..9) \ {s} : n[t] = IF s = 5 /\ t = 9 THEN m - 1 ELSE 0
          /\ \A k \in job.level..MaxN : rb_status[k] => k < m \/ s = 9
          /\ m > job.level => reduce_trace
      BY <2>1 DEF Root
    <2>3. CASE s = 8
      <3>1. n[8] = m /\ reduce_trace
        BY <2>2, <2>3, <1>4
      <3>2. ~rb_status[m]
        BY <2>2, <2>3
      <3>3. ~stall_nxt
        BY <3>1, <3>2, <1>3
      <3> QED BY <3>1, <3>3, <1>1, <1>2
    <2>4. CASE s # 8
      <3>1. n[8] = 0
        BY <2>2, <2>4
      <3>2. ~stall_nxt /\ ~status[8] /\ ~status[4]
        BY <3>1, <1>2, <1>3, <1>6
      <3>3. ~status'[5]
        BY <3>2, <1>1
      <3> QED BY <3>1, <3>2, <3>3, <1>1
    <2> QED BY <2>3, <2>4
  <1> QED BY <1>5, <1>6

(* The modes of stage 5 after a round.                                     *)
LEMMA RoundStageModes ==
  ASSUME Round, Levels, NEW L \in Nat, L = job.level, L \in 1..MaxN, MaxN \in Nat,
         NEW c \in [1..L -> Nat], Tally(c), c[L] # 0 => ~status[4]
  PROVE  StageModes'
  <1>1. /\ stall_nxt => /\ n[8] \in 1..(L - 1) /\ ~reduce_trace /\ ~reduce_trace'
                        /\ rb_status[n[8]] /\ c[L] = 0 /\ status'[5]
        /\ n[8] \in 0..MaxN
        /\ n[8] >= L => reduce_trace /\ reduce_trace'
        /\ ~status'[5] => n'[5] = 0
        /\ status'[5] => n'[5] = IF stall_nxt \/ n[8] >= L THEN n[8] + 1 ELSE 1
        /\ status'[5] /\ reduce_trace' => n[8] >= L
    BY RoundEight
  <1>2. /\ n'[9] = n[8]
        /\ \A k \in 0..MaxN :
             rb_status'[k] <=> IF k = n[8] /\ n[8] # 0 THEN ~stall_nxt
                               ELSE rb_status[k]
    BY RoundLevels
  <1>3. stall' = stall_nxt /\ job' = job
    BY RoundRegisters DEF Round, Tick, Clock, ControlClock, ClockStalls
  <1>4. n[8] \in 1..(L - 1) => (rb_status'[n[8]] <=> ~stall_nxt)
    BY <1>1, <1>2
  <1> QED BY <1>1, <1>2, <1>3, <1>4 DEF StageModes

(* The other steps of a run leave the modes alone; the trace begins when   *)
(* only stage 8 has a block.                                               *)
LEMMA PlainStageModes ==
  ASSUME Registers, Levels, job' = job, n' = n, status' = status, rb_status' = rb_status,
         stall' = stall, reduce_trace' <=> reduce_trace \/ n[8] = job.level,
         NEW L \in Nat, L = job.level, L \in 1..MaxN, MaxN \in Nat,
         NEW c \in [1..L -> Nat], Tally(c), StageModes
  PROVE  StageModes'
  <1>1. CASE reduce_trace \/ n[8] # L
    <2>1. reduce_trace' <=> reduce_trace
      BY <1>1
    <2> QED BY <2>1 DEF StageModes
  <1>2. CASE ~reduce_trace /\ n[8] = L
    <2>1. c[L] # 0
      BY <1>2 DEF Tally
    <2>2. PICK s \in 5..9, m \in L..MaxN : Root(s, m)
      BY <2>1 DEF Tally
    <2>3. \A t \in (5..9) \ {s} : n[t] = IF s = 5 /\ t = 9 THEN m - 1 ELSE 0
      BY <2>2 DEF Root
    <2>4. s = 8
      BY <2>3, <1>2
    <2>5. n[5] = 0 /\ n[9] = 0
      BY <2>3, <2>4
    <2>6. ~status[5]
      BY <2>5 DEF Levels
    <2> QED BY <2>5, <2>6 DEF StageModes
  <1> QED BY <1>1, <1>2

(* A block keeps its place among the blocks of its level when it moves on. *)
LEMMA RoundIndex ==
  ASSUME Round, Levels, NEW L \in Nat, L = job.level, L \in 1..MaxN, MaxN \in Nat,
         NEW c \in [1..L -> Nat], NEW d \in [1..L -> Nat], Grown(c, d)
  PROVE  /\ n[5] # 0 => Index(d, 6)' = Index(c, 5)
         /\ n[6] # 0 => Index(d, 7)' = Index(c, 6)
         /\ n[7] # 0 => Index(d, 8)' = Index(c, 7)
         /\ n[8] # 0 => Index(d, 9)' = Index(c, 8)
  <1>1. n'[6] = n[5] /\ n'[7] = n[6] /\ n'[8] = n[7] /\ n'[9] = n[8] /\ job' = job
    BY RoundLevels, RoundRegisters
  <1>2. n[5] \in 0..MaxN /\ n[6] \in 0..MaxN /\ n[7] \in 0..MaxN /\ n[8] \in 0..MaxN
    BY RoundLevels
  <1>3. ASSUME NEW k \in 1..(L - 1)
        PROVE  d[k] = c[k] + Same(n'[5], k) /\ c[k] \in Nat /\ Same(n'[5], k) \in Nat
    BY SameType DEF Grown
  <1>4. ASSUME NEW k
        PROVE  /\ Same(n[5], k) \in Nat /\ Same(n[6], k) \in Nat
               /\ Same(n[7], k) \in Nat /\ Same(n[8], k) \in Nat
    BY SameType
  <1>5. ASSUME NEW k, n'[6] = k PROVE Behind(6, n[6])' = Same(n'[5], k)
    BY <1>5 DEF Behind, Same
  <1>6. ASSUME NEW k, n'[7] = k PROVE Behind(7, n[7])' = Same(n'[5], k) + Same(n[5], k)
    BY <1>1, <1>6 DEF Behind, Same
  <1>7. ASSUME NEW k, n'[8] = k
        PROVE  Behind(8, n[8])' = (Same(n'[5], k) + Same(n[5], k)) + Same(n[6], k)
    BY <1>1, <1>7 DEF Behind, Same
  <1>8. ASSUME NEW k, n'[9] = k
        PROVE  Behind(9, n[9])' = ((Same(n'[5], k) + Same(n[5], k)) + Same(n[6], k)) + Same(n[7], k)
    BY <1>1, <1>8 DEF Behind, InFlight, Same
  <1>9. n[5] # 0 => Index(d, 6)' = Index(c, 5)
    <2>1. Index(d, 6)' = IF n'[6] < L THEN (d[n'[6]] - 1) - Behind(6, n[6])' ELSE 0
      BY <1>1 DEF Index
    <2>2. Index(c, 5) = IF n[5] < L THEN (c[n[5]] - 1) - 0 ELSE 0
      BY DEF Index, Behind
    <2>3. CASE n[5] \in 1..(L - 1)
      <3>1. PICK k \in 1..(L - 1) : n[5] = k
        BY <2>3
      <3>2. n'[6] = k /\ k < L
        BY <3>1, <1>1
      <3>3. d[k] = c[k] + Same(n'[5], k) /\ c[k] \in Nat /\ Same(n'[5], k) \in Nat
        BY <1>3
      <3>4. Behind(6, n[6])' = Same(n'[5], k)
        BY <3>2, <1>5, Zenon
      <3>5. Index(d, 6)' = (d[k] - 1) - (Same(n'[5], k))
        BY <3>2, <3>4, <2>1, Zenon
      <3>6. Index(c, 5) = (c[k] - 1) - (0)
        BY <3>1, <3>2, <2>2, Zenon
      <3> QED BY ONLY <3>3, <3>5, <3>6, SMT
    <2> QED BY <2>1, <2>2, <2>3, <1>1, <1>2
  <1>10. n[6] # 0 => Index(d, 7)' = Index(c, 6)
    <2>1. Index(d, 7)' = IF n'[7] < L THEN (d[n'[7]] - 1) - Behind(7, n[7])' ELSE 0
      BY <1>1 DEF Index
    <2>2. Index(c, 6) = IF n[6] < L THEN (c[n[6]] - 1) - Same(n[5], n[6]) ELSE 0
      BY DEF Index, Behind
    <2>3. CASE n[6] \in 1..(L - 1)
      <3>1. PICK k \in 1..(L - 1) : n[6] = k
        BY <2>3
      <3>2. n'[7] = k /\ k < L
        BY <3>1, <1>1
      <3>3. d[k] = c[k] + Same(n'[5], k) /\ c[k] \in Nat /\ Same(n'[5], k) \in Nat
        BY <1>3
      <3>4. Behind(7, n[7])' = Same(n'[5], k) + Same(n[5], k)
        BY <3>2, <1>6, Zenon
      <3>5. Index(d, 7)' = (d[k] - 1) - (Same(n'[5], k) + Same(n[5], k))
        BY <3>2, <3>4, <2>1, Zenon
      <3>6. Index(c, 6) = (c[k] - 1) - (Same(n[5], k))
        BY <3>1, <3>2, <2>2, Zenon
      <3>7. Same(n[5], k) \in Nat
        BY <1>4
      <3> QED BY ONLY <3>3, <3>5, <3>6, <3>7, SMTT(30)
    <2> QED BY <2>1, <2>2, <2>3, <1>1, <1>2
  <1>11. n[7] # 0 => Index(d, 8)' = Index(c, 7)
    <2>1. Index(d, 8)' = IF n'[8] < L THEN (d[n'[8]] - 1) - Behind(8, n[8])' ELSE 0
      BY <1>1 DEF Index
    <2>2. Index(c, 7) = IF n[7] < L
                        THEN (c[n[7]] - 1) - (Same(n[5], n[7]) + Same(n[6], n[7]))
                        ELSE 0
      BY DEF Index, Behind
    <2>3. CASE n[7] \in 1..(L - 1)
      <3>1. PICK k \in 1..(L - 1) : n[7] = k
        BY <2>3
      <3>2. n'[8] = k /\ k < L
        BY <3>1, <1>1
      <3>3. d[k] = c[k] + Same(n'[5], k) /\ c[k] \in Nat /\ Same(n'[5], k) \in Nat
        BY <1>3
      <3>4. Behind(8, n[8])' = (Same(n'[5], k) + Same(n[5], k)) + Same(n[6], k)
        BY <3>2, <1>7, Zenon
      <3>5. Index(d, 8)' = (d[k] - 1) - ((Same(n'[5], k) + Same(n[5], k)) + Same(n[6], k))
        BY <3>2, <3>4, <2>1, Zenon
      <3>6. Index(c, 7) = (c[k] - 1) - (Same(n[5], k) + Same(n[6], k))
        BY <3>1, <3>2, <2>2, Zenon
      <3>7. Same(n[5], k) \in Nat /\ Same(n[6], k) \in Nat
        BY <1>4
      <3> DEFINE w == Same(n'[5], k)
                 x == Same(n[5], k)
                 y == Same(n[6], k)
                 v == Index(d, 8)'
                 u == Index(c, 7)
      <3>8. /\ d[k] = c[k] + w /\ c[k] \in Nat /\ w \in Nat
            /\ v = (d[k] - 1) - ((w + x) + y)
            /\ u = (c[k] - 1) - (x + y)
            /\ x \in Nat /\ y \in Nat
        BY <3>3, <3>5, <3>6, <3>7
      <3> HIDE DEF w, x, y, v, u
      <3>9. v = u
        BY ONLY <3>8, SMT
      <3> QED BY <3>9 DEF v, u
    <2> QED BY <2>1, <2>2, <2>3, <1>1, <1>2
  <1>12. n[8] # 0 => Index(d, 9)' = Index(c, 8)
    <2>1. Index(d, 9)' = IF n'[9] < L THEN (d[n'[9]] - 1) - Behind(9, n[9])' ELSE 0
      BY <1>1 DEF Index
    <2>2. Index(c, 8) = IF n[8] < L
            THEN (c[n[8]] - 1) - ((Same(n[5], n[8]) + Same(n[6], n[8])) + Same(n[7], n[8])) ELSE 0
      BY DEF Index, Behind
    <2>3. CASE n[8] \in 1..(L - 1)
      <3>1. PICK k \in 1..(L - 1) : n[8] = k
        BY <2>3
      <3>2. n'[9] = k /\ k < L
        BY <3>1, <1>1
      <3>3. d[k] = c[k] + Same(n'[5], k) /\ c[k] \in Nat /\ Same(n'[5], k) \in Nat
        BY <1>3
      <3>4. Behind(9, n[9])' = ((Same(n'[5], k) + Same(n[5], k)) + Same(n[6], k)) + Same(n[7], k)
        BY <3>2, <1>8, Zenon
      <3>5. Index(d, 9)' =
              (d[k] - 1) - (((Same(n'[5], k) + Same(n[5], k)) + Same(n[6], k)) + Same(n[7], k))
        BY <3>2, <3>4, <2>1, Zenon
      <3>6. Index(c, 8) = (c[k] - 1) - ((Same(n[5], k) + Same(n[6], k)) + Same(n[7], k))
        BY <3>1, <3>2, <2>2, Zenon
      <3>7. Same(n[5], k) \in Nat /\ Same(n[6], k) \in Nat /\ Same(n[7], k) \in Nat
        BY <1>4
      <3> DEFINE w == Same(n'[5], k)
                 x == Same(n[5], k)
                 y == Same(n[6], k)
                 z == Same(n[7], k)
                 v == Index(d, 9)'
                 u == Index(c, 8)
      <3>8. /\ d[k] = c[k] + w /\ c[k] \in Nat /\ w \in Nat
            /\ v = (d[k] - 1) - (((w + x) + y) + z)
            /\ u = (c[k] - 1) - ((x + y) + z)
            /\ x \in Nat /\ y \in Nat /\ z \in Nat
        BY <3>3, <3>5, <3>6, <3>7
      <3> HIDE DEF w, x, y, z, v, u
      <3>9. v = u
        BY ONLY <3>8, SMT
      <3> QED BY <3>9 DEF v, u
    <2> QED BY <2>1, <2>2, <2>3, <1>1, <1>2
  <1> QED BY <1>9, <1>10, <1>11, <1>12

(* A block is the same block for as long as the job is.                    *)
LEMMA BlockMoves ==
  ASSUME job' = job, NEW s, NEW t, NEW c, NEW d, n'[t] = n[s], Index(d, t)' = Index(c, s)
  PROVE  /\ Step(t)' = 0 => Open(n[t], Index(d, t), Step(t))' = Open(n[s], Index(c, s), 0)
         /\ Open(n[t], Index(d, t), 1)' = Open(n[s], Index(c, s), 1)
         /\ Step(t)' = 0 => Made(n[t], Index(d, t), 2 + Step(t))' = Made(n[s], Index(c, s), 2)
         /\ Made(n[t], Index(d, t), 3)' = Made(n[s], Index(c, s), 3)
  <1>1. Step(t)' = 0 => Open(n[t], Index(d, t), Step(t))' = Open(n[s], Index(c, s), 0)
    BY SMT DEF Open, Cluster, OpenTrips, Size, Level, TheLeaf, TheTrip
  <1>2. Open(n[t], Index(d, t), 1)' = Open(n[s], Index(c, s), 1)
    BY SMT DEF Open, Cluster, OpenTrips, Size, Level, TheLeaf, TheTrip
  <1>3. Step(t)' = 0 => Made(n[t], Index(d, t), 2 + Step(t))' = Made(n[s], Index(c, s), 2)
    BY SMT DEF Made, Cluster, Trips, Size, Level, TheLeaf, TheTrip
  <1>4. Made(n[t], Index(d, t), 3)' = Made(n[s], Index(c, s), 3)
    BY SMT DEF Made, Cluster, Trips, Size, Level, TheLeaf, TheTrip
  <1> QED BY <1>1, <1>2, <1>3, <1>4

(* A round hands every block to the next stage.                            *)
LEMMA RoundStages ==
  ASSUME Round, Levels, NEW L \in Nat, L = job.level, L \in 1..MaxN, MaxN \in Nat,
         NEW c \in [1..L -> Nat], NEW d \in [1..L -> Nat], Grown(c, d), StagesRight(c)
  PROVE  StagesRight(d)'
  <1>1. n'[6] = n[5] /\ n'[7] = n[6] /\ n'[8] = n[7] /\ n'[9] = n[8] /\ job' = job
        /\ start_pulse' /\ ~start_pulse
    BY RoundLevels, RoundRegisters
  <1>2. /\ status'[6] <=> status[5]
        /\ status'[7] <=> status[6]
        /\ status'[8] <=> status[7]
        /\ status'[9] <=> status[8]
    <2>1. status' = status_nxt(rd = "idle")
      BY RoundRegisters
    <2> QED BY <2>1, StatusMoves
  <1>3. (\A s \in 5..9 : status[s] <=> n[s] # 0)
    BY DEF Levels
  <1>4. pp1' = pp1 /\ pp2' = pp2 /\ \A s \in 1..10 : done[s]
    BY RoundFacts
  <1>5. done[5] /\ done[6] /\ done[7] /\ done[8] /\ Step(6) = 1 /\ Step(8) = 1
    BY <1>1, <1>4 DEF Step
  <1>6. Step(6)' = 0 /\ Step(8)' = 0
    BY <1>1 DEF Step
  <1>7. Held(6)' = pp1.a /\ Held(7)' = pp1.b /\ Held(8)' = pp2.a /\ Held(9)' = pp2.b
    BY <1>1, <1>4 DEF Held
  <1>8. Held(6) = pp1.b /\ Held(8) = pp2.b
    BY <1>1 DEF Held
  <1>9. /\ n[5] # 0 => Index(d, 6)' = Index(c, 5)
        /\ n[6] # 0 => Index(d, 7)' = Index(c, 6)
        /\ n[7] # 0 => Index(d, 8)' = Index(c, 7)
        /\ n[8] # 0 => Index(d, 9)' = Index(c, 8)
    BY RoundIndex
  <1>10. ASSUME status'[6] PROVE Held(6)' = Open(n[6], Index(d, 6), Step(6))'
    <2>1. status[5] /\ n[5] # 0
      BY <1>2, <1>3, <1>10
    <2>2. pp1.a = Open(n[5], Index(c, 5), 0)
      BY <2>1, <1>1, <1>5 DEF StagesRight
    <2>3. Open(n[6], Index(d, 6), Step(6))' = Open(n[5], Index(c, 5), 0)
      BY <2>1, <1>1, <1>6, <1>9, BlockMoves
    <2> QED BY <2>2, <2>3, <1>7
  <1>11. ASSUME status'[7] PROVE Held(7)' = Open(n[7], Index(d, 7), 1)'
    <2>1. status[6] /\ n[6] # 0
      BY <1>2, <1>3, <1>11
    <2>2. pp1.b = Open(n[6], Index(c, 6), 1)
      BY <2>1, <1>8, <1>5 DEF StagesRight
    <2>3. Open(n[7], Index(d, 7), 1)' = Open(n[6], Index(c, 6), 1)
      BY <2>1, <1>1, <1>9, BlockMoves
    <2> QED BY <2>2, <2>3, <1>7
  <1>12. ASSUME status'[8] PROVE Held(8)' = Made(n[8], Index(d, 8), 2 + Step(8))'
    <2>1. status[7] /\ n[7] # 0
      BY <1>2, <1>3, <1>12
    <2>2. pp2.a = Made(n[7], Index(c, 7), 2)
      BY <2>1, <1>1, <1>5 DEF StagesRight
    <2>3. Made(n[8], Index(d, 8), 2 + Step(8))' = Made(n[7], Index(c, 7), 2)
      BY <2>1, <1>1, <1>6, <1>9, BlockMoves
    <2> QED BY <2>2, <2>3, <1>7
  <1>13. ASSUME status'[9] PROVE Held(9)' = Made(n[9], Index(d, 9), 3)'
    <2>1. status[8] /\ n[8] # 0
      BY <1>2, <1>3, <1>13
    <2>2. pp2.b = Made(n[8], Index(c, 8), 2 + Step(8)) /\ 2 + Step(8) = 3
      BY <2>1, <1>8, <1>5 DEF StagesRight
    <2>3. pp2.b = Made(n[8], Index(c, 8), 3)
      BY <2>2, Zenon
    <2>4. Made(n[9], Index(d, 9), 3)' = Made(n[8], Index(c, 8), 3)
      BY <2>1, <1>1, <1>9, BlockMoves
    <2> QED BY <2>3, <2>4, <1>7
  <1> QED BY <1>1, <1>10, <1>11, <1>12, <1>13 DEF StagesRight

(* A place does not change while the levels do not.                        *)
LEMMA IndexStill ==
  ASSUME job' = job, n' = n, NEW c
  PROVE  \A s : Index(c, s)' = Index(c, s)
  BY SMT DEF Index, Behind, InFlight, Same

(* What a stage should hold does not change while the levels do not.       *)
LEMMA BlockStill ==
  ASSUME job' = job, n' = n, NEW c, NEW s
  PROVE  /\ \A t : Open(n[s], Index(c, s), t)' = Open(n[s], Index(c, s), t)
         /\ \A t : Made(n[s], Index(c, s), t)' = Made(n[s], Index(c, s), t)
         /\ Step(s)' = Step(s) => 
              /\ Open(n[s], Index(c, s), Step(s))' = Open(n[s], Index(c, s), Step(s))
              /\ Made(n[s], Index(c, s), 2 + Step(s))' = Made(n[s], Index(c, s), 2 + Step(s))
  <1>1. Index(c, s)' = Index(c, s)
    BY IndexStill, Zenon
  <1>2. \A t : Open(n[s], Index(c, s), t)' = Open(n[s], Index(c, s), t)
    BY <1>1, SMT DEF Open, Cluster, OpenTrips, Size, Level, TheLeaf, TheTrip
  <1>3. \A t : Made(n[s], Index(c, s), t)' = Made(n[s], Index(c, s), t)
    BY <1>1, SMT DEF Made, Cluster, Trips, Size, Level, TheLeaf, TheTrip
  <1>4. Step(s)' = Step(s) => Open(n[s], Index(c, s), Step(s))' = Open(n[s], Index(c, s), Step(s))
    BY <1>1, SMT DEF Open, Cluster, OpenTrips, Size, Level, TheLeaf, TheTrip
  <1>5. Step(s)' = Step(s) =>
          Made(n[s], Index(c, s), 2 + Step(s))' = Made(n[s], Index(c, s), 2 + Step(s))
    BY <1>1, SMT DEF Made, Cluster, Trips, Size, Level, TheLeaf, TheTrip
  <1> QED BY <1>2, <1>3, <1>4, <1>5

(* How the done signals of stages 5 to 9 follow the start pulse.           *)
LEMMA PlainDones ==
  ASSUME ControlInv, ~idle, ~all_stage_done, Tick, NEW s \in 5..9
  PROVE  /\ start_pulse /\ status[s] => ~done'[s]
         /\ ~start_pulse => (done'[s] <=> done[s])
         /\ start_pulse => done[s]
  <1>1. \A t \in 1..10 : done'[t] <=> done[t] /\ ~o_start(t)
    BY PlainFacts
  <1>2. done'[s] <=> done[s] /\ ~o_start(s)
    BY <1>1
  <1>3. o_start(s) <=> start_pulse /\ status[s]
    BY DEF o_start, WrUram
  <1>4. start_pulse => done[s]
    BY DEF ControlInv, RoundsApart, WrUram
  <1> QED BY <1>2, <1>3, <1>4

(* The start pulse turns the buffers and the blocks stay with their        *)
(* stages.                                                                 *)
LEMMA PlainStages ==
  ASSUME ControlInv, ~idle, ~all_stage_done, Tick, NEW c, StagesRight(c)
  PROVE  StagesRight(c)'
  <1>1. /\ job' = job /\ status' = status /\ n' = n /\ ~start_pulse' /\ Clock(FALSE)
    BY PlainFacts
  <1>2. pp1' = pp_buffer(pp1) /\ pp2' = pp_buffer(pp2)
    BY <1>1, ClockData
  <1>3. ASSUME NEW s \in 5..9
        PROVE  /\ start_pulse /\ status[s] => ~done'[s]
               /\ ~start_pulse => (done'[s] <=> done[s])
    BY PlainDones
  <1>4. ASSUME NEW s \in 6..9, status[s]
        PROVE  Held(s)' = Held(s) /\ Step(s)' = Step(s)
    <2>1. s \in 5..9 /\ (s = 6 \/ s = 7 \/ s = 8 \/ s = 9)
      OBVIOUS
    <2>2. CASE start_pulse
      <3>1. o_switch_mode
        BY <2>1, <2>2, <1>4 DEF o_switch_mode
      <3>2. /\ pp1' = [a |-> pp1.c, b |-> pp1.a, c |-> pp1.b]
            /\ pp2' = [a |-> pp2.c, b |-> pp2.a, c |-> pp2.b]
        BY <3>1, <1>2 DEF pp_buffer
      <3>3. Held(s)' = Held(s)
        BY <2>1, <2>2, <3>2, <1>1 DEF Held
      <3>4. ~done'[s]
        BY <2>1, <2>2, <1>3, <1>4
      <3> QED BY <3>3, <3>4, <2>2 DEF Step
    <2>3. CASE ~start_pulse
      <3>1. pp1' = pp1 /\ pp2' = pp2
        BY <2>3, <1>2 DEF pp_buffer, o_switch_mode
      <3>2. Held(s)' = Held(s)
        BY <2>1, <2>3, <3>1, <1>1 DEF Held
      <3>3. done'[s] <=> done[s]
        BY <2>1, <2>3, <1>3
      <3> QED BY <3>2, <3>3, <2>3, <1>1 DEF Step
    <2> QED BY <2>2, <2>3
  <1>5. ASSUME status'[5], done'[5], ~start_pulse' PROVE pp1'.a = Open(n[5], Index(c, 5), 0)'
    <2>1. status[5] /\ ~start_pulse /\ done[5]
      BY <1>1, <1>3, <1>5
    <2>2. pp1' = pp1
      BY <2>1, <1>2 DEF pp_buffer, o_switch_mode
    <2>3. pp1.a = Open(n[5], Index(c, 5), 0)
      BY <2>1 DEF StagesRight
    <2> QED BY <2>2, <2>3, <1>1, BlockStill
  <1>6. ASSUME status'[6] PROVE Held(6)' = Open(n[6], Index(c, 6), Step(6))'
    <2>1. Held(6)' = Held(6) /\ Step(6)' = Step(6)
      BY <1>1, <1>4, <1>6
    <2>2. Held(6) = Open(n[6], Index(c, 6), Step(6))
      BY <1>1, <1>6 DEF StagesRight
    <2>3. Open(n[6], Index(c, 6), Step(6))' = Open(n[6], Index(c, 6), Step(6))
      BY <2>1, <1>1, BlockStill
    <2> QED BY <2>1, <2>2, <2>3
  <1>7. ASSUME status'[7] PROVE Held(7)' = Open(n[7], Index(c, 7), 1)'
    <2>1. Held(7)' = Held(7)
      BY <1>1, <1>4, <1>7
    <2>2. Held(7) = Open(n[7], Index(c, 7), 1)
      BY <1>1, <1>7 DEF StagesRight
    <2> QED BY <2>1, <2>2, <1>1, BlockStill
  <1>8. ASSUME status'[7], done'[7], ~start_pulse' PROVE pp2'.a = Made(n[7], Index(c, 7), 2)'
    <2>1. status[7] /\ ~start_pulse /\ done[7]
      BY <1>1, <1>3, <1>8
    <2>2. pp2' = pp2
      BY <2>1, <1>2 DEF pp_buffer, o_switch_mode
    <2>3. pp2.a = Made(n[7], Index(c, 7), 2)
      BY <2>1 DEF StagesRight
    <2> QED BY <2>2, <2>3, <1>1, BlockStill
  <1>9. ASSUME status'[8] PROVE Held(8)' = Made(n[8], Index(c, 8), 2 + Step(8))'
    <2>1. Held(8)' = Held(8) /\ Step(8)' = Step(8)
      BY <1>1, <1>4, <1>9
    <2>2. Held(8) = Made(n[8], Index(c, 8), 2 + Step(8))
      BY <1>1, <1>9 DEF StagesRight
    <2>3. Made(n[8], Index(c, 8), 2 + Step(8))' = Made(n[8], Index(c, 8), 2 + Step(8))
      BY <2>1, <1>1, BlockStill
    <2> QED BY <2>1, <2>2, <2>3
  <1>10. ASSUME status'[9] PROVE Held(9)' = Made(n[9], Index(c, 9), 3)'
    <2>1. Held(9)' = Held(9)
      BY <1>1, <1>4, <1>10
    <2>2. Held(9) = Made(n[9], Index(c, 9), 3)
      BY <1>1, <1>10 DEF StagesRight
    <2> QED BY <2>1, <2>2, <1>1, BlockStill
  <1> QED BY <1>5, <1>6, <1>7, <1>8, <1>9, <1>10 DEF StagesRight

(* The places of the blocks in stages 8 and 9, counted from what has been  *)
(* packed of their level.                                                  *)
LEMMA Places ==
  ASSUME Registers, NEW L \in Nat, L = job.level, NEW c \in [1..L -> Nat], Tally(c),
         NEW k \in 1..(L - 1)
  PROVE  /\ n[8] = k => Index(c, 8) = Num(rb_status[k]) + 2 * c[k + 1]
         /\ n[9] = k => Index(c, 9) = (Num(rb_status[k]) + 2 * c[k + 1]) - 1
         /\ c[k] \in Nat /\ c[k + 1] \in Nat /\ Num(rb_status[k]) \in Nat
  <1>1. /\ Same(n[5], k) \in Nat /\ Same(n[6], k) \in Nat
        /\ Same(n[7], k) \in Nat /\ Same(n[8], k) \in Nat
    BY SameType
  <1>2. c[k] \in Nat /\ c[k + 1] \in Nat /\ Num(rb_status[k]) \in Nat /\ k < L
    BY NumType
  <1>3. c[k] = ((((Same(n[5], k) + Same(n[6], k)) + Same(n[7], k)) + Same(n[8], k))
                  + Num(rb_status[k])) + 2 * c[k + 1]
    BY Zenon DEF Tally, InFlight
  <1>4. ASSUME n[8] = k PROVE Index(c, 8) = Num(rb_status[k]) + 2 * c[k + 1]
    <2>1. Index(c, 8) = (c[k] - 1) - ((Same(n[5], k) + Same(n[6], k)) + Same(n[7], k))
      BY <1>2, <1>4 DEF Index, Behind
    <2>2. Same(n[8], k) = 1
      BY <1>4 DEF Same
    <2> DEFINE w == Same(n[5], k)
               x == Same(n[6], k)
               y == Same(n[7], k)
               z == Same(n[8], k)
               r == Num(rb_status[k])
               u == Index(c, 8)
    <2>3. /\ u = (c[k] - 1) - ((w + x) + y) /\ z = 1
          /\ w \in Nat /\ x \in Nat /\ y \in Nat /\ r \in Nat
          /\ c[k] \in Nat /\ c[k + 1] \in Nat
          /\ c[k] = ((((w + x) + y) + z) + r) + 2 * c[k + 1]
      BY <2>1, <2>2, <1>1, <1>2, <1>3
    <2> HIDE DEF w, x, y, z, r, u
    <2>4. u = r + 2 * c[k + 1]
      BY ONLY <2>3, SMT
    <2> QED BY <2>4 DEF u, r
  <1>5. ASSUME n[9] = k PROVE Index(c, 9) = (Num(rb_status[k]) + 2 * c[k + 1]) - 1
    <2>1. Index(c, 9) = (c[k] - 1) -
            (((Same(n[5], k) + Same(n[6], k)) + Same(n[7], k)) + Same(n[8], k))
      BY <1>2, <1>5 DEF Index, Behind, InFlight
    <2> DEFINE w == Same(n[5], k)
               x == Same(n[6], k)
               y == Same(n[7], k)
               z == Same(n[8], k)
               r == Num(rb_status[k])
               u == Index(c, 9)
    <2>3. /\ u = (c[k] - 1) - (((w + x) + y) + z)
          /\ w \in Nat /\ x \in Nat /\ y \in Nat /\ z \in Nat /\ r \in Nat
          /\ c[k] \in Nat /\ c[k + 1] \in Nat
          /\ c[k] = ((((w + x) + y) + z) + r) + 2 * c[k + 1]
      BY <2>1, <1>1, <1>2, <1>3
    <2> HIDE DEF w, x, y, z, r, u
    <2>4. u = (r + 2 * c[k + 1]) - 1
      BY ONLY <2>3, SMT
    <2> QED BY <2>4 DEF u, r
  <1> QED BY <1>2, <1>4, <1>5

(* A block is what it is throughout the run.                               *)
LEMMA MadeStill ==
  ASSUME job' = job
  PROVE  \A k, i, t : Made(k, i, t)' = Made(k, i, t)
  BY SMT DEF Made, Cluster, Trips, Size, Level, TheLeaf, TheTrip

(* A round leaves the waiting blocks in the reduce buffer; the one that it *)
(* takes out is the left sibling of the block that reaches stage 9.        *)
LEMMA RoundRedbuf ==
  ASSUME Round, Levels, NEW L \in Nat, L = job.level, L \in 1..MaxN, MaxN \in Nat,
         NEW c \in [1..L -> Nat], NEW d \in [1..L -> Nat], Grown(c, d), Tally(c),
         c[L] # 0 => ~status[4], RedbufRight(c)
  PROVE  RedbufRight(d)'
  <1>1. /\ stall_nxt => /\ n[8] \in 1..(L - 1) /\ ~reduce_trace /\ ~reduce_trace'
                        /\ rb_status[n[8]] /\ c[L] = 0 /\ status'[5]
        /\ n[8] \in 0..MaxN
        /\ n[8] >= L => reduce_trace /\ reduce_trace'
        /\ ~status'[5] => n'[5] = 0
        /\ status'[5] => n'[5] = IF stall_nxt \/ n[8] >= L THEN n[8] + 1 ELSE 1
    BY RoundEight
  <1>2. /\ n'[9] = n[8]
        /\ \A k \in 0..MaxN :
             rb_status'[k] <=> IF k = n[8] /\ n[8] # 0 THEN ~stall_nxt
                               ELSE rb_status[k]
    BY RoundLevels
  <1>3. (stall' <=> stall_nxt) /\ job' = job /\ start_pulse' /\ ~start_pulse
    BY RoundRegisters
  <1>4. redbuf' = redbuf /\ \A s \in 1..10 : done[s]
    BY RoundFacts
  <1>5. done[9]
    BY <1>4
  <1>6. \A k, i, t : Made(k, i, t)' = Made(k, i, t)
    BY <1>3, MadeStill
  <1>7. ASSUME NEW k \in 1..(job'.level - 1), rb_status'[k],
               ~(n'[9] = k /\ (start_pulse' \/ ~done'[9]))
        PROVE  redbuf'[k - 1] = Made(k, 2 * d[k + 1], 3)'
    <2>1. k # n[8] /\ k \in 1..(L - 1) /\ k \in 0..MaxN
      BY <1>2, <1>3, <1>7
    <2>2. rb_status[k]
      BY <2>1, <1>2, <1>7
    <2>3. redbuf[k - 1] = Made(k, 2 * c[k + 1], 3)
      BY <2>1, <2>2, <1>3, <1>5 DEF RedbufRight
    <2>4. n'[5] # k + 1
      BY <2>1, <1>1, SMTT(60)
    <2>5. Same(n'[5], k + 1) = 0
      BY <2>4 DEF Same
    <2>6. k + 1 \in 1..L /\ c[k + 1] \in Nat
      <3>1. k \in Int /\ 1 <= k /\ k + 1 <= L
        BY <2>1
      <3>2. k + 1 \in 1..L
        BY <3>1
      <3> QED BY <3>2, Zenon
    <2>7. d[k + 1] = c[k + 1] + Same(n'[5], k + 1)
      BY <2>6 DEF Grown
    <2>8. d[k + 1] = c[k + 1]
      BY <2>5, <2>6, <2>7
    <2>9. redbuf[k - 1] = Made(k, 2 * d[k + 1], 3)
      BY <2>3, <2>8, Zenon
    <2> QED BY <2>9, <1>4, <1>6, Zenon
  <1>8. ASSUME stall' PROVE redbuf'[n'[9] - 1] = Made(n[9], Sibling(d), 3)'
    <2>1. stall_nxt
      BY <1>3, <1>8
    <2>2. n[8] \in 1..(L - 1) /\ rb_status[n[8]]
      BY <2>1, <1>1
    <2>3. PICK k \in 1..(L - 1) : k = n[8]
      BY <2>2
    <2>4. redbuf[k - 1] = Made(k, 2 * c[k + 1], 3)
      BY <2>2, <2>3, <1>3, <1>5 DEF RedbufRight
    <2>5. Index(c, 8) = Num(rb_status[k]) + 2 * c[k + 1] /\ c[k + 1] \in Nat
      BY <2>3, Places DEF Round
    <2>6. Num(rb_status[k]) = 1
      BY <2>2, <2>3 DEF Num
    <2>7a. n[8] # 0 => Index(d, 9)' = Index(c, 8)
      BY RoundIndex
    <2>7. Index(d, 9)' = Index(c, 8)
      BY <2>2, <2>7a
    <2>8. Index(d, 9)' - 1 = 2 * c[k + 1]
      <3> DEFINE a == Index(d, 9)'
                 b == 2 * c[k + 1]
      <3>1. a = 1 + b /\ b \in Nat
        BY <2>5, <2>6, <2>7
      <3> HIDE DEF a, b
      <3>2. a - 1 = b
        BY <3>1
      <3> QED BY <3>2 DEF a, b
    <2>9. n'[9] = k
      BY <2>3, <1>2
    <2>10. Made(n[9], Sibling(d), 3)' = Made(k, 2 * c[k + 1], 3)
      <3> DEFINE i == 2 * c[k + 1]
      <3>1. Sibling(d)' = i
        BY <2>8 DEF Sibling
      <3> HIDE DEF i
      <3>2. Made(n[9], Sibling(d), 3)' = Made(k, i, 3)
        BY <3>1, <2>9, <1>3, SMT DEF Made, Cluster, Trips, Size, Level, TheLeaf, TheTrip
      <3> QED BY <3>2 DEF i
    <2> QED BY <2>4, <2>9, <2>10, <1>4, Zenon
  <1> QED BY <1>3, <1>7, <1>8 DEF RedbufRight

(* The other clock edges leave the reduce buffer alone.                    *)
LEMMA PlainRedbuf ==
  ASSUME ControlInv, ~idle, ~all_stage_done, Tick, NEW c, RedbufRight(c)
  PROVE  RedbufRight(c)'
  <1>1. /\ job' = job /\ status' = status /\ n' = n /\ ~start_pulse' /\ Clock(FALSE)
        /\ rb_status' = rb_status /\ stall' = stall
    BY PlainFacts
  <1>2. redbuf' = redbuf
    BY <1>1, ClockData
  <1>3. /\ start_pulse /\ status[9] => ~done'[9]
        /\ ~start_pulse => (done'[9] <=> done[9])
    BY PlainDones
  <1>4. (status[9] <=> n[9] # 0) /\ MaxN # 0
    BY JobsAssumption DEF ControlInv, Levels
  <1>5. \A k, i, t : Made(k, i, t)' = Made(k, i, t)
    BY <1>1, MadeStill
  <1>6. ASSUME NEW k \in 1..(job'.level - 1), rb_status'[k],
               ~(n'[9] = k /\ (start_pulse' \/ ~done'[9]))
        PROVE  redbuf'[k - 1] = Made(k, 2 * c[k + 1], 3)'
    <2>1. k \in 1..(job.level - 1) /\ rb_status[k] /\ k # 0
      BY <1>1, <1>6
    <2>2. ~(n[9] = k /\ (start_pulse \/ ~done[9]))
      BY <2>1, <1>1, <1>3, <1>4, <1>6
    <2>3. redbuf[k - 1] = Made(k, 2 * c[k + 1], 3)
      BY <2>1, <2>2 DEF RedbufRight
    <2> QED BY <2>3, <1>2, <1>5, Zenon
  <1>7. ASSUME stall' PROVE redbuf'[n'[9] - 1] = Made(n[9], Sibling(c), 3)'
    <2>1. redbuf[n[9] - 1] = Made(n[9], Sibling(c), 3)
      BY <1>1, <1>7 DEF RedbufRight
    <2>2. Sibling(c)' = Sibling(c)
      BY <1>1, IndexStill, Zenon DEF Sibling
    <2>3. Made(n[9], Sibling(c), 3)' = Made(n[9], Sibling(c), 3)
      BY <2>2, <1>1, SMT DEF Made, Cluster, Trips, Size, Level, TheLeaf, TheTrip
    <2> QED BY <2>1, <2>3, <1>1, <1>2, Zenon
  <1>8. ASSUME n'[9] = MaxN, done'[9], ~start_pulse'
        PROVE  redbuf'[0] = Made(MaxN, 0, 3)'
    <2>1. n[9] = MaxN /\ done[9] /\ ~start_pulse
      BY <1>1, <1>3, <1>4, <1>8
    <2>2. redbuf[0] = Made(MaxN, 0, 3)
      BY <2>1 DEF RedbufRight
    <2> QED BY <2>2, <1>2, <1>5, Zenon
  <1> QED BY <1>6, <1>7, <1>8 DEF RedbufRight

-----------------------------------------------------------------------------
(* Stages 5 and 7: what they make of a block                               *)

(* Two neighbouring blocks of a level are a block of the next.             *)
LEMMA ClusterPair ==
  ASSUME NEW L \in Nat, L = job.level, NEW k \in 1..(L - 1), NEW i \in Int
  PROVE  Cluster(k + 1, i) = Cluster(k, 2 * i + 1) \cup Cluster(k, 2 * i)
  <1>1. Level(k) = k /\ Level(k + 1) = k + 1
    BY DEF Level
  <1> DEFINE z == 2^(k - 1)
  <1>2. z \in Nat /\ 2^k = 2 * z
    BY NatPower, PowerBefore
  <1>3. Size(k) = z
    BY <1>1, Zenon DEF Size
  <1>4. (k + 1) - 1 = k
    OBVIOUS
  <1>5. Size(k + 1) = 2 * z
    BY <1>1, <1>2, <1>4, Zenon DEF Size
  <1> HIDE DEF z
  <1> DEFINE a == (2 * i) * z
  <1>6. a \in Int /\ (2 * i + 1) * z = a + z /\ i * (2 * z) = a
    BY <1>2
  <1>7. Cluster(k + 1, i) = {TheLeaf(a + j) : j \in 0..(2 * z - 1)}
    BY <1>5, <1>6, Zenon DEF Cluster
  <1>8. Cluster(k, 2 * i) = {TheLeaf(a + j) : j \in 0..(z - 1)}
    BY <1>3, Zenon DEF Cluster
  <1>9. Cluster(k, 2 * i + 1) = {TheLeaf((a + z) + j) : j \in 0..(z - 1)}
    BY <1>3, <1>6, Zenon DEF Cluster
  <1> HIDE DEF a
  <1>10. ASSUME NEW j \in 0..(2 * z - 1)
         PROVE  TheLeaf(a + j) \in {TheLeaf((a + z) + h) : h \in 0..(z - 1)}
                                   \cup {TheLeaf(a + h) : h \in 0..(z - 1)}
    <2>1. CASE j < z
      <3>1. j \in 0..(z - 1)
        BY <2>1, <1>2
      <3> QED BY <3>1
    <2>2. CASE j >= z
      <3>1. j - z \in 0..(z - 1) /\ (a + z) + (j - z) = a + j
        BY <2>2, <1>2, <1>6
      <3> QED BY <3>1
    <2> QED BY <2>1, <2>2, <1>2
  <1>11. ASSUME NEW j \in 0..(z - 1)
         PROVE  /\ TheLeaf((a + z) + j) \in {TheLeaf(a + h) : h \in 0..(2 * z - 1)}
                /\ TheLeaf(a + j) \in {TheLeaf(a + h) : h \in 0..(2 * z - 1)}
    <2>1. z + j \in 0..(2 * z - 1) /\ a + (z + j) = (a + z) + j /\ j \in 0..(2 * z - 1)
      BY <1>2, <1>6
    <2> QED BY <2>1
  <1>12. {TheLeaf(a + j) : j \in 0..(2 * z - 1)}
           = {TheLeaf((a + z) + h) : h \in 0..(z - 1)} \cup {TheLeaf(a + h) : h \in 0..(z - 1)}
    BY <1>10, <1>11
  <1> QED BY <1>7, <1>8, <1>9, <1>12, Zenon

(* A leaf is a block of the first level, and the trace keeps its block.    *)
LEMMA ClusterEnds ==
  ASSUME NEW L \in Nat, L = job.level, L >= 1, NEW i \in Int
  PROVE  /\ Cluster(1, i) = {TheLeaf(i)}
         /\ \A k \in Nat : k >= L => Cluster(k, i) = Cluster(L, i)
  <1>1. Cluster(1, i) = {TheLeaf(i)}
    <2>1. Level(1) = 1
      BY DEF Level
    <2>2. 1 - 1 = 0 /\ 2^0 = 1
      BY PowerZero
    <2>3. Size(1) = 1
      BY <2>1, <2>2, Zenon DEF Size
    <2>4. Cluster(1, i) = {TheLeaf(i * 1 + j) : j \in 0..(1 - 1)}
      BY <2>3, Zenon DEF Cluster
    <2>5. \A j \in 0..(1 - 1) : i * 1 + j = i
      OBVIOUS
    <2>6. 0 \in 0..(1 - 1)
      OBVIOUS
    <2> QED BY <2>4, <2>5, <2>6
  <1>2. ASSUME NEW k \in Nat, k >= L PROVE Cluster(k, i) = Cluster(L, i)
    <2>1. Level(k) = L /\ Level(L) = L
      BY <1>2 DEF Level
    <2>2. Size(k) = Size(L)
      BY <2>1, Zenon DEF Size
    <2> QED BY <2>2, Zenon DEF Cluster
  <1> QED BY <1>1, <1>2

(* Stage 5 adds a trip without its key, stage 7 adds the key.              *)
LEMMA TripsGrow ==
  ASSUME NEW k \in Nat
  PROVE  /\ Len(Trips(k)) = k /\ Len(OpenTrips(k)) = k
         /\ Append(Trips(k), [TheTrip(k + 1) EXCEPT !.key = NoKey]) = OpenTrips(k + 1)
         /\ k >= 1 => [OpenTrips(k) EXCEPT ![k] = TheTrip(k)] = Trips(k)
  <1>1. Trips(k) = [m \in 1..k |-> TheTrip(m)]
    BY DEF Trips
  <1>2. OpenTrips(k) = [m \in 1..k |-> IF m = k THEN [TheTrip(m) EXCEPT !.key = NoKey]
                                       ELSE TheTrip(m)]
    BY DEF OpenTrips
  <1>3. OpenTrips(k + 1) = [m \in 1..(k + 1) |->
                              IF m = k + 1 THEN [TheTrip(m) EXCEPT !.key = NoKey]
                              ELSE TheTrip(m)]
    BY DEF OpenTrips
  <1>4. Len(Trips(k)) = k
    BY <1>1
  <1>5. Len(OpenTrips(k)) = k
    BY <1>2
  <1> DEFINE e == [TheTrip(k + 1) EXCEPT !.key = NoKey]
  <1>6. Append(Trips(k), e) = [m \in 1..(k + 1) |-> IF m = k + 1 THEN e ELSE TheTrip(m)]
    <2> HIDE DEF e
    <2> QED BY <1>1
  <1>7. [OpenTrips(k) EXCEPT ![k] = TheTrip(k)] = Trips(k)
    BY <1>1, <1>2
  <1> QED BY <1>3, <1>4, <1>5, <1>6, <1>7

(* The block of the last level is the first of its kind.                   *)
LEMMA RootIndex ==
  ASSUME Registers, RoundsApart, ReaderRight, NoBubble, NEW g \in Nat, NEW q \in Nat,
         GroupsInOrder(g, q), Taken(g) >= 0, NEW L \in Nat, L = job.level,
         NEW c \in [1..L -> Nat], c[1] = Taken(g), Tally(c),
         n[5] \in 1..L
  PROVE  Index(c, 5) = c[n[5]] - 1
  <1>1. CASE n[5] < L
    <2>1. c[n[5]] \in Nat
      OBVIOUS
    <2>2. Index(c, 5) = (c[n[5]] - 1) - 0
      BY <1>1 DEF Index, Behind
    <2> QED BY <2>1, <2>2
  <1>2. CASE n[5] = L
    <2>1. c[L] # 0
      BY <1>2 DEF Tally
    <2>2. c[L] \in {0, 1}
      BY TreeFacts
    <2>3. c[n[5]] = 1
      BY <2>1, <2>2, <1>2
    <2>4. Index(c, 5) = 0
      BY <1>2 DEF Index
    <2> QED BY <2>3, <2>4
  <1> QED BY <1>1, <1>2

(* What stage 5 makes: the next leaf, two siblings packed, or the root for *)
(* its next trip.                                                          *)
LEMMA MuxSeq ==
  ASSUME ControlInv, ~idle, ~start_pulse, ~done[5], StageModes,
         NEW g \in Nat, NEW q \in Nat,
         GroupsInOrder(g, q), Taken(g) >= 0, LeafRight(g), NEW L \in Nat, L = job.level,
         NEW c \in [1..L -> Nat], c[1] = Taken(g), Tally(c), StagesRight(c), RedbufRight(c)
  PROVE  mux_seq = Open(n[5], Index(c, 5), 0)
  <1>1. Registers /\ RoundsApart /\ Levels /\ ReaderRight /\ NoBubble
    BY DEF ControlInv, Running
  <1>2. /\ L \in 1..MaxN /\ MaxN \in Nat
        /\ c[L] # 0 => \A k \in 1..(L - 1) : ~rb_status[k]
    BY <1>1, TreeFacts, SMTT(30)
  <1>3. status[5] /\ n[5] # 0 /\ n[5] \in 0..MaxN /\ n[9] \in 0..MaxN
    BY <1>1 DEF RoundsApart, Levels, Registers
  <1>4. status[9] <=> n[9] # 0
    BY <1>1 DEF Levels
  <1>5. Held(9) = pp2.c
    BY DEF Held
  <1>6. CASE ~o_mux_s5_mode
    <2>1. n[5] = 1
      BY <1>3, <1>6 DEF StageModes, o_mux_s5_mode
    <2>2. leaf.mux = TheLeaf(Taken(g) - 1)
      BY <1>3, <1>6 DEF LeafRight
    <2>3. Index(c, 5) = c[1] - 1 /\ c[1] - 1 \in Int
      <3>1. n[5] \in 1..L
        BY <2>1, <1>2
      <3>2. Index(c, 5) = c[n[5]] - 1
        BY <3>1, <1>1, RootIndex
      <3> QED BY <3>2, <2>1, <1>2
    <2>4. Cluster(1, c[1] - 1) = {TheLeaf(c[1] - 1)}
      BY <2>3, <1>2, ClusterEnds
    <2>5. {leaf.mux} = Cluster(n[5], Index(c, 5))
      BY <2>1, <2>2, <2>3, <2>4, Zenon
    <2>6. o_mux_monox_s5_n = 1
      BY <2>1, <1>2 DEF o_mux_monox_s5_n
    <2>7. OpenTrips(1) = <<Trip(1, 1, NoKey)>>
      <3>1. TheTrip(1) = Trip(1, 1, 1 - 1)
        BY <1>2 DEF TheTrip
      <3>2. [TheTrip(1) EXCEPT !.key = NoKey] = Trip(1, 1, NoKey)
        BY <3>1 DEF Trip
      <3>3. OpenTrips(1) = [m \in 1..1 |-> Trip(1, 1, NoKey)]
        BY <3>2 DEF OpenTrips
      <3> QED BY <3>3
    <2>8. mux_seq = Block({leaf.mux}, <<Trip(1, 1, NoKey)>>, 0)
      BY <2>6, <1>6, Zenon DEF mux_seq
    <2> QED BY <2>1, <2>5, <2>7, <2>8, Zenon DEF Open
  <1>7. ASSUME o_mux_s5_mode, n[9] # 0, n[5] = n[9] + 1,
               o_mux_monox_s5_n = TheTrip(n[5]).aut, o_ms_addx_s9_n = TheTrip(n[5]).shift,
               pp2.c.leaves \cup (IF reduce_trace THEN {} ELSE redbuf[o_uram_index].leaves)
                 = Cluster(n[5], Index(c, 5))
        PROVE  mux_seq = Open(n[5], Index(c, 5), 0)
    <2>1. pp2.c = Made(n[9], Index(c, 9), 3)
      BY <1>4, <1>5, <1>7 DEF StagesRight
    <2>2. pp2.c.trips = Trips(n[9])
      BY <2>1 DEF Made, Block
    <2>3. Trip(o_mux_monox_s5_n, o_ms_addx_s9_n, NoKey)
            = [TheTrip(n[5]) EXCEPT !.key = NoKey]
      BY <1>7 DEF TheTrip, Trip
    <2>4. n[9] \in Nat
      BY <1>3
    <2>5. Append(Trips(n[9]), [TheTrip(n[9] + 1) EXCEPT !.key = NoKey]) = OpenTrips(n[9] + 1)
      BY <2>4, TripsGrow
    <2>6. Append(pp2.c.trips, Trip(o_mux_monox_s5_n, o_ms_addx_s9_n, NoKey)) = OpenTrips(n[5])
      BY <2>2, <2>3, <2>5, <1>7, Zenon
    <2>7. mux_seq = Block(Cluster(n[5], Index(c, 5)), OpenTrips(n[5]), 0)
      BY <2>6, <1>7, Zenon DEF mux_seq
    <2> QED BY <2>7, Zenon DEF Open
  <1>8. CASE stall
    <2>1. ~reduce_trace /\ n[9] # 0 /\ n[5] = n[9] + 1 /\ n[5] <= L
      BY <1>8 DEF StageModes
    <2>2. PICK k \in 1..(L - 1) : n[9] = k
      BY <2>1, <1>2, <1>3
    <2>3. n[5] = k + 1 /\ k + 1 \in 1..L
      BY <2>1, <2>2
    <2>4. ~rb_status[k]
      BY <2>2, <1>8 DEF StageModes
    <2>5. Index(c, 9) = (Num(rb_status[k]) + 2 * c[k + 1]) - 1 /\ c[k + 1] \in Nat
      BY <2>2, <1>1, Places
    <2>6. Num(rb_status[k]) = 0
      BY <2>4 DEF Num
    <2>7. Index(c, 5) = c[k + 1] - 1
      <3>1. Index(c, 5) = c[n[5]] - 1
        BY <2>3, <1>1, RootIndex
      <3> QED BY <3>1, <2>3
    <2> DEFINE i == c[k + 1] - 1
    <2>8. i \in Int /\ Index(c, 5) = i /\ Index(c, 9) = 2 * i + 1 /\ Sibling(c) = 2 * i
      BY <2>5, <2>6, <2>7, SMTT(30) DEF Sibling
    <2> HIDE DEF i
    <2>9. pp2.c = Made(k, 2 * i + 1, 3)
      <3>1. pp2.c = Made(n[9], Index(c, 9), 3)
        BY <2>1, <1>4, <1>5 DEF StagesRight
      <3> QED BY <3>1, <2>2, <2>8, Zenon
    <2>10. o_uram_index = n[9] - 1
      BY <2>1 DEF o_uram_index
    <2>11. redbuf[o_uram_index] = Made(k, 2 * i, 3)
      <3>1. redbuf[n[9] - 1] = Made(n[9], Sibling(c), 3)
        BY <1>8 DEF RedbufRight
      <3> QED BY <3>1, <2>2, <2>8, <2>10, Zenon
    <2>12. Cluster(k + 1, i) = Cluster(k, 2 * i + 1) \cup Cluster(k, 2 * i)
      BY <2>8, ClusterPair
    <2>13. pp2.c.leaves = Cluster(k, 2 * i + 1) /\ redbuf[o_uram_index].leaves = Cluster(k, 2 * i)
      BY <2>9, <2>11 DEF Made, Block
    <2>14. pp2.c.leaves \cup (IF reduce_trace THEN {} ELSE redbuf[o_uram_index].leaves)
             = Cluster(n[5], Index(c, 5))
      BY <2>1, <2>3, <2>8, <2>12, <2>13, Zenon
    <2>15. TheTrip(n[5]) = Trip(n[5], n[5], n[5] - 1)
      BY <2>1 DEF TheTrip
    <2>16. o_mux_monox_s5_n = n[5] /\ o_ms_addx_s9_n = n[5]
      BY <2>1, <2>2, <1>2, <1>3 DEF o_mux_monox_s5_n, o_ms_addx_s9_n
    <2>17. o_mux_monox_s5_n = TheTrip(n[5]).aut /\ o_ms_addx_s9_n = TheTrip(n[5]).shift
      BY <2>15, <2>16 DEF Trip
    <2> QED BY <2>1, <2>14, <2>17, <1>7, <1>8 DEF o_mux_s5_mode
  <1>9. CASE ~stall /\ reduce_trace
    <2>1. n[5] = n[9] + 1 /\ n[9] >= L
      BY <1>3, <1>9 DEF StageModes
    <2>2. n[9] # 0 /\ n[9] \in Nat /\ n[5] \in Nat /\ n[5] > L /\ n[5] >= L
      BY <2>1, <1>2, <1>3
    <2>3. Index(c, 5) = 0 /\ Index(c, 9) = 0
      BY <2>1, <2>2 DEF Index
    <2>4. pp2.c = Made(n[9], Index(c, 9), 3)
      BY <2>2, <1>4, <1>5 DEF StagesRight
    <2>5. pp2.c.leaves = Cluster(n[9], 0)
      BY <2>3, <2>4 DEF Made, Block
    <2>6. Cluster(n[9], 0) = Cluster(L, 0) /\ Cluster(n[5], 0) = Cluster(L, 0)
      BY <2>1, <2>2, <1>2, ClusterEnds
    <2>7. pp2.c.leaves \cup (IF reduce_trace THEN {} ELSE redbuf[o_uram_index].leaves)
             = Cluster(n[5], Index(c, 5))
      BY <2>3, <2>5, <2>6, <1>9
    <2> DEFINE a == MaxN + 1 - (n[5] - L)
    <2>8. TheTrip(n[5]) = Trip(a, 0, a - 1)
      BY <2>2 DEF TheTrip
    <2>9a. o_ms_addx_s9_n = 0
      BY <2>1 DEF o_ms_addx_s9_n
    <2>9b. o_mux_monox_s5_n = MaxN + 1 + L - n[5]
      BY <2>2 DEF o_mux_monox_s5_n
    <2>9d. n[5] \in Int /\ L \in Int /\ MaxN \in Int
      BY <2>2, <1>2
    <2>9c. MaxN + 1 + L - n[5] = a
      <3>1. PICK w \in Int : w = n[5]
        BY <2>9d
      <3>2. MaxN + 1 + L - w = MaxN + 1 - (w - L)
        BY ONLY <2>9d, w \in Int, SMT
      <3> QED BY <3>1, <3>2, Zenon
    <2>9. o_mux_monox_s5_n = a /\ o_ms_addx_s9_n = 0
      BY <2>9a, <2>9b, <2>9c, Zenon
    <2> HIDE DEF a
    <2>10. o_mux_monox_s5_n = TheTrip(n[5]).aut /\ o_ms_addx_s9_n = TheTrip(n[5]).shift
      BY <2>8, <2>9 DEF Trip
    <2> QED BY <2>1, <2>2, <2>7, <2>10, <1>7, <1>9 DEF o_mux_s5_mode
  <1> QED BY <1>6, <1>8, <1>9 DEF o_mux_s5_mode

(* What stage 7 makes.                                                     *)
LEMMA MulAccSeq ==
  ASSUME ControlInv, ~idle, n[7] # 0, NEW i, pp1.c = Open(n[7], i, 1)
  PROVE  [pp1.c EXCEPT !.steps = @ + 1, !.trips[Len(pp1.c.trips)].key = o_mulacc_s7_n]
           = Made(n[7], i, 2)
  <1>1. Registers
    BY DEF ControlInv
  <1>2. n[7] \in 0..MaxN /\ MaxN \in Nat /\ job.level \in 1..MaxN
    BY <1>1, JobFacts DEF Registers
  <1>3. PICK k \in Nat : k = n[7] /\ k >= 1
    BY <1>2
  <1>4. pp1.c = Block(Cluster(k, i), OpenTrips(k), 1)
    BY <1>3, Zenon DEF Open
  <1>5. Len(OpenTrips(k)) = k /\ [OpenTrips(k) EXCEPT ![k] = TheTrip(k)] = Trips(k)
    BY <1>3, TripsGrow
  <1>6. OpenTrips(k)[k] = [TheTrip(k) EXCEPT !.key = NoKey]
    BY <1>3 DEF OpenTrips
  <1>7. o_mulacc_s7_n = TheTrip(k).key
    BY <1>2, <1>3 DEF o_mulacc_s7_n, TheTrip, Trip
  <1>8. [OpenTrips(k)[k] EXCEPT !.key = o_mulacc_s7_n] = TheTrip(k)
    BY <1>6, <1>7 DEF TheTrip, Trip
  <1> DEFINE o == OpenTrips(k)
             l == Cluster(k, i)
             x == o_mulacc_s7_n
             y == TheTrip(k)
  <1>9. pp1.c = [leaves |-> l, trips |-> o, steps |-> 1] /\ Len(o) = k
        /\ [o[k] EXCEPT !.key = x] = y
    BY <1>4, <1>5, <1>8 DEF Block
  <1> HIDE DEF o, l, x, y
  <1>10. pp1.c.trips = o /\ Len(pp1.c.trips) = k
    BY <1>9
  <1>11. [pp1.c EXCEPT !.steps = @ + 1, !.trips[Len(pp1.c.trips)].key = x]
          = [pp1.c EXCEPT !.steps = @ + 1, !.trips[k].key = x]
    BY <1>10, Zenon
  <1>12. [o EXCEPT ![k] = [o[k] EXCEPT !.key = x]] = [o EXCEPT ![k] = y]
    BY <1>9, Zenon
  <1>13. ASSUME NEW r
         PROVE  [r EXCEPT !.steps = @ + 1, !.trips[k].key = x]
                  = [[r EXCEPT !.steps = r.steps + 1]
                       EXCEPT !.trips = [r.trips EXCEPT ![k] = [r.trips[k] EXCEPT !.key = x]]]
    <2>1. [r EXCEPT !.steps = @ + 1, !.trips[k].key = x]
            = [r EXCEPT !.steps = r.steps + 1,
                        !.trips = [r.trips EXCEPT ![k] = [r.trips[k] EXCEPT !.key = x]]]
      BY Zenon
    <2> DEFINE t == [r.trips EXCEPT ![k] = [r.trips[k] EXCEPT !.key = x]]
               u == r.steps + 1
    <2> HIDE DEF t, u
    <2>2. [r EXCEPT !.steps = u, !.trips = t] = [[r EXCEPT !.steps = u] EXCEPT !.trips = t]
      OBVIOUS
    <2> QED BY <2>1, <2>2, Zenon DEF t, u
  <1> DEFINE t == [o EXCEPT ![k] = y]
  <1>14. pp1.c.steps + 1 = 2
    BY <1>9
  <1>15. [pp1.c EXCEPT !.steps = @ + 1, !.trips[k].key = x]
           = [[pp1.c EXCEPT !.steps = 2] EXCEPT !.trips = t]
    BY <1>10, <1>12, <1>13, <1>14, Zenon
  <1> HIDE DEF t
  <1>16. [pp1.c EXCEPT !.steps = 2] = [leaves |-> l, trips |-> o, steps |-> 2]
    BY <1>9
  <1>17. [[leaves |-> l, trips |-> o, steps |-> 2] EXCEPT !.trips = t]
           = [leaves |-> l, trips |-> t, steps |-> 2]
    OBVIOUS
  <1>18. [pp1.c EXCEPT !.steps = @ + 1, !.trips[k].key = x]
           = [leaves |-> l, trips |-> t, steps |-> 2]
    BY <1>15, <1>16, <1>17, Zenon
  <1> QED BY <1>3, <1>5, <1>11, <1>18 DEF o, l, x, y, t, Made, Block

(* A block whose stage has done its step.                                  *)
LEMMA BlockSteps ==
  ASSUME job' = job, n' = n, NEW c, NEW s, Step(s)' = 1
  PROVE  /\ Open(n[s], Index(c, s), Step(s))' = Open(n[s], Index(c, s), 1)
         /\ Made(n[s], Index(c, s), 2 + Step(s))' = Made(n[s], Index(c, s), 3)
  <1>1. Index(c, s)' = Index(c, s)
    BY IndexStill, Zenon
  <1>2. Open(n[s], Index(c, s), Step(s))' = Open(n[s], Index(c, s), 1)
    BY <1>1, SMT DEF Open, Cluster, OpenTrips, Size, Level, TheLeaf, TheTrip
  <1>3. Made(n[s], Index(c, s), 2 + Step(s))' = Made(n[s], Index(c, s), 3)
    BY <1>1, SMT DEF Made, Cluster, Trips, Size, Level, TheLeaf, TheTrip
  <1> QED BY <1>2, <1>3

(* The stages 5 to 8 do their work on the block that they hold, and on no  *)
(* other.                                                                  *)
LEMMA StageStages ==
  ASSUME ControlInv, NEW s \in 1..10, StageDone(s), StageModes,
         DOMAIN pp1 = {"a", "b", "c"}, DOMAIN pp2 = {"a", "b", "c"},
         s = 5 => pp1' = [pp1 EXCEPT !.a = mux_seq],
         s = 6 => pp1' = [pp1 EXCEPT !.b.steps = @ + 1],
         s \notin {5, 6} => pp1' = pp1,
         s = 7 => pp2' = [pp2 EXCEPT !.a =
               [pp1.c EXCEPT !.steps = @ + 1,
                             !.trips[Len(pp1.c.trips)].key = o_mulacc_s7_n]],
         s = 8 => pp2' = [pp2 EXCEPT !.b.steps = @ + 1],
         s \notin {7, 8} => pp2' = pp2,
         NEW g \in Nat, NEW q \in Nat,
         GroupsInOrder(g, q), Taken(g) >= 0, LeafRight(g), NEW L \in Nat, L = job.level,
         NEW c \in [1..L -> Nat], c[1] = Taken(g), Tally(c), StagesRight(c), RedbufRight(c)
  PROVE  StagesRight(c)'
  <1>1. /\ ~start_pulse /\ ~start_pulse' /\ status' = status /\ ~idle
        /\ n' = n /\ job' = job /\ ~done[s] /\ done'[s]
    BY StageFacts
  <1>2. \A t \in 0..10 : t # s => done'[t] = done[t]
    BY StageFacts
  <1>3. \A t \in 5..9 : status[t] <=> n[t] # 0
    BY DEF ControlInv, Levels
  <1>4. Held(6) = pp1.b /\ Held(7) = pp1.c /\ Held(8) = pp2.b /\ Held(9) = pp2.c
    BY <1>1 DEF Held
  <1>5. Held(6)' = pp1'.b /\ Held(7)' = pp1'.c /\ Held(8)' = pp2'.b /\ Held(9)' = pp2'.c
    BY <1>1 DEF Held
  <1>6. pp1'.c = pp1.c /\ pp2'.c = pp2.c
    BY <1>1
  <1>7. ASSUME status'[5], done'[5] PROVE pp1'.a = Open(n[5], Index(c, 5), 0)'
    <2>1. Open(n[5], Index(c, 5), 0)' = Open(n[5], Index(c, 5), 0)
      BY <1>1, BlockStill
    <2>2. CASE s = 5
      <3>1. mux_seq = Open(n[5], Index(c, 5), 0)
        BY <2>2, <1>1, MuxSeq
      <3>2. pp1'.a = mux_seq
        BY <2>2
      <3> QED BY <3>1, <3>2, <2>1, Zenon
    <2>3. CASE s # 5
      <3>1. status[5] /\ done[5] /\ pp1'.a = pp1.a
        BY <2>3, <1>1, <1>2, <1>7
      <3>2. pp1.a = Open(n[5], Index(c, 5), 0)
        BY <3>1, <1>1 DEF StagesRight
      <3> QED BY <3>1, <3>2, <2>1, Zenon
    <2> QED BY <2>2, <2>3
  <1>8. ASSUME status'[6] PROVE Held(6)' = Open(n[6], Index(c, 6), Step(6))'
    <2>1. pp1.b = Open(n[6], Index(c, 6), Step(6))
      BY <1>1, <1>4, <1>8 DEF StagesRight
    <2>2. CASE s = 6
      <3>1. Step(6) = 0 /\ Step(6)' = 1
        BY <2>2, <1>1 DEF Step
      <3>2. pp1.b = Open(n[6], Index(c, 6), 0)
        BY <2>1, <3>1, Zenon
      <3>3. pp1'.b = [pp1.b EXCEPT !.steps = pp1.b.steps + 1]
        BY <2>2
      <3>4. [pp1.b EXCEPT !.steps = pp1.b.steps + 1] = Open(n[6], Index(c, 6), 1)
        BY <3>2 DEF Open, Block
      <3>5. Open(n[6], Index(c, 6), Step(6))' = Open(n[6], Index(c, 6), 1)
        BY <3>1, <1>1, BlockSteps
      <3> QED BY <3>3, <3>4, <3>5, <1>5, Zenon
    <2>3. CASE s # 6
      <3>1. done'[6] = done[6] /\ pp1'.b = pp1.b
        BY <2>3, <1>1, <1>2
      <3>2. Step(6)' = Step(6)
        BY <3>1, <1>1 DEF Step
      <3>3. Open(n[6], Index(c, 6), Step(6))' = Open(n[6], Index(c, 6), Step(6))
        BY <3>2, <1>1, BlockStill
      <3> QED BY <3>1, <3>3, <2>1, <1>5, Zenon
    <2> QED BY <2>2, <2>3
  <1>9. ASSUME status'[7] PROVE Held(7)' = Open(n[7], Index(c, 7), 1)'
    <2>1. pp1.c = Open(n[7], Index(c, 7), 1)
      BY <1>1, <1>4, <1>9 DEF StagesRight
    <2>2. Open(n[7], Index(c, 7), 1)' = Open(n[7], Index(c, 7), 1)
      BY <1>1, BlockStill
    <2> QED BY <2>1, <2>2, <1>5, <1>6, Zenon
  <1>10. ASSUME status'[7], done'[7] PROVE pp2'.a = Made(n[7], Index(c, 7), 2)'
    <2>1. Made(n[7], Index(c, 7), 2)' = Made(n[7], Index(c, 7), 2)
      BY <1>1, BlockStill
    <2>2. CASE s = 7
      <3>1. pp1.c = Open(n[7], Index(c, 7), 1) /\ n[7] # 0
        BY <1>1, <1>3, <1>4, <1>10 DEF StagesRight
      <3> DEFINE b == [pp1.c EXCEPT !.steps = @ + 1,
                             !.trips[Len(pp1.c.trips)].key = o_mulacc_s7_n]
      <3>2. b = Made(n[7], Index(c, 7), 2)
        BY <3>1, <1>1, MulAccSeq
      <3>3. pp2' = [pp2 EXCEPT !.a = b]
        BY <2>2
      <3> HIDE DEF b
      <3>4. pp2'.a = b
        BY <3>3
      <3> QED BY <3>2, <3>4, <2>1, Zenon
    <2>3. CASE s # 7
      <3>1. status[7] /\ done[7] /\ pp2'.a = pp2.a
        BY <2>3, <1>1, <1>2, <1>10
      <3>2. pp2.a = Made(n[7], Index(c, 7), 2)
        BY <3>1, <1>1 DEF StagesRight
      <3> QED BY <3>1, <3>2, <2>1, Zenon
    <2> QED BY <2>2, <2>3
  <1>11. ASSUME status'[8] PROVE Held(8)' = Made(n[8], Index(c, 8), 2 + Step(8))'
    <2>1. pp2.b = Made(n[8], Index(c, 8), 2 + Step(8))
      BY <1>1, <1>4, <1>11 DEF StagesRight
    <2>2. CASE s = 8
      <3>1. Step(8) = 0 /\ Step(8)' = 1 /\ 2 + Step(8) = 2 /\ (2 + Step(8))' = 3
        BY <2>2, <1>1 DEF Step
      <3>2. pp2.b = Made(n[8], Index(c, 8), 2)
        BY <2>1, <3>1, Zenon
      <3>3. pp2'.b = [pp2.b EXCEPT !.steps = pp2.b.steps + 1]
        BY <2>2
      <3>4. [pp2.b EXCEPT !.steps = pp2.b.steps + 1] = Made(n[8], Index(c, 8), 3)
        BY <3>2 DEF Made, Block
      <3>5. Made(n[8], Index(c, 8), 2 + Step(8))' = Made(n[8], Index(c, 8), 3)
        BY <3>1, <1>1, BlockSteps
      <3> QED BY <3>3, <3>4, <3>5, <1>5, Zenon
    <2>3. CASE s # 8
      <3>1. done'[8] = done[8] /\ pp2'.b = pp2.b
        BY <2>3, <1>1, <1>2
      <3>2. Step(8)' = Step(8)
        BY <3>1, <1>1 DEF Step
      <3>3. Made(n[8], Index(c, 8), 2 + Step(8))' = Made(n[8], Index(c, 8), 2 + Step(8))
        BY <3>2, <1>1, BlockStill
      <3> QED BY <3>1, <3>3, <2>1, <1>5, Zenon
    <2> QED BY <2>2, <2>3
  <1>12. ASSUME status'[9] PROVE Held(9)' = Made(n[9], Index(c, 9), 3)'
    <2>1. pp2.c = Made(n[9], Index(c, 9), 3)
      BY <1>1, <1>4, <1>12 DEF StagesRight
    <2>2. Made(n[9], Index(c, 9), 3)' = Made(n[9], Index(c, 9), 3)
      BY <1>1, BlockStill
    <2> QED BY <2>1, <2>2, <1>5, <1>6, Zenon
  <1> QED BY <1>7, <1>8, <1>9, <1>10, <1>11, <1>12 DEF StagesRight

(* Stage 9 stores its block where the round has noted it, or streams it    *)
(* out and leaves the buffer alone; the last trip ends in entry 0.         *)
LEMMA StageRedbuf ==
  ASSUME ControlInv, NEW s \in 1..10, StageDone(s), StageModes,
         DOMAIN redbuf = 0..(MaxN - 1),
         redbuf' = IF s # 9 \/ s7_mode THEN redbuf
                   ELSE [redbuf EXCEPT ![o_uram_index] = pp2.c],
         NEW g \in Nat, NEW q \in Nat,
         GroupsInOrder(g, q), Taken(g) >= 0, NEW L \in Nat, L = job.level,
         NEW c \in [1..L -> Nat], c[1] = Taken(g), Tally(c), StagesRight(c), RedbufRight(c)
  PROVE  RedbufRight(c)'
  <1>1. /\ ~start_pulse /\ ~start_pulse' /\ status' = status /\ ~idle
        /\ n' = n /\ job' = job /\ ~done[s] /\ done'[s] /\ stall' = stall
        /\ rb_status' = rb_status
        /\ (IF s = 10 THEN status[2] ELSE status[s])
    BY StageFacts
  <1>2. \A t \in 0..10 : t # s => done'[t] = done[t]
    BY StageFacts
  <1>3. Registers /\ RoundsApart /\ Levels /\ ReaderRight /\ NoBubble
    BY <1>1 DEF ControlInv, Running
  <1>4. /\ L \in 1..MaxN /\ MaxN \in Nat
        /\ c[L] # 0 => \A k \in 1..(L - 1) : ~rb_status[k]
    BY <1>3, TreeFacts, SMTT(60)
  <1>5. \A k, i, t : Made(k, i, t)' = Made(k, i, t)
    BY <1>1, MadeStill
  <1>6. Made(n[9], Sibling(c), 3)' = Made(n[9], Sibling(c), 3)
    <2>1. Sibling(c)' = Sibling(c)
      BY <1>1, IndexStill, Zenon DEF Sibling
    <2> QED BY <2>1, <1>1, SMT DEF Made, Cluster, Trips, Size, Level, TheLeaf, TheTrip
  <1>7. CASE s # 9
    <2>1. redbuf' = redbuf /\ done'[9] = done[9]
      BY <1>2, <1>7
    <2>2. ASSUME NEW k \in 1..(job'.level - 1), rb_status'[k],
                 ~(n'[9] = k /\ (start_pulse' \/ ~done'[9]))
          PROVE  redbuf'[k - 1] = Made(k, 2 * c[k + 1], 3)'
      <3>1. redbuf[k - 1] = Made(k, 2 * c[k + 1], 3)
        BY <2>1, <2>2, <1>1 DEF RedbufRight
      <3> QED BY <3>1, <2>1, <1>5, Zenon
    <2>3. ASSUME stall' PROVE redbuf'[n'[9] - 1] = Made(n[9], Sibling(c), 3)'
      <3>1. redbuf[n[9] - 1] = Made(n[9], Sibling(c), 3)
        BY <1>1, <2>3 DEF RedbufRight
      <3> QED BY <3>1, <2>1, <1>1, <1>6, Zenon
    <2>4. ASSUME n'[9] = MaxN, done'[9] PROVE redbuf'[0] = Made(MaxN, 0, 3)'
      <3>1. redbuf[0] = Made(MaxN, 0, 3)
        BY <2>1, <2>4, <1>1 DEF RedbufRight
      <3> QED BY <3>1, <2>1, <1>5, Zenon
    <2> QED BY <2>2, <2>3, <2>4 DEF RedbufRight
  <1>8. CASE s = 9
    <2>1. status[9] /\ n[9] # 0 /\ n[9] \in 0..MaxN /\ ~done[9]
      BY <1>1, <1>3, <1>8 DEF Levels, Registers
    <2>2. pp2.c = Made(n[9], Index(c, 9), 3)
      BY <2>1, <1>1 DEF StagesRight, Held
    <2>3. /\ n[9] >= L => reduce_trace
          /\ n[9] \in 1..(L - 1) => (stall <=> ~rb_status[n[9]])
          /\ stall => ~reduce_trace /\ n[9] # 0 /\ n[5] = n[9] + 1 /\ n[5] <= L
          /\ n[5] \in 0..MaxN
      BY <1>3 DEF StageModes, Registers
    <2>4. reduce_trace => c[L] # 0
      BY DEF Tally
    <2>5. ASSUME NEW k \in 1..(job'.level - 1), rb_status'[k]
          PROVE  redbuf'[k - 1] = Made(k, 2 * c[k + 1], 3)'
      <3>1. k \in 1..(L - 1) /\ rb_status[k] /\ ~reduce_trace /\ n[9] < L
        BY <2>1, <2>3, <2>4, <2>5, <1>1, <1>4, SMTT(60)
      <3>2. k - 1 \in 0..(MaxN - 1)
        BY <3>1, <1>4
      <3>3. CASE k = n[9]
        <4>1. ~stall
          BY <3>1, <3>3, <2>3
        <4>2. ~s7_mode /\ o_uram_index = k - 1
          BY <4>1, <3>1, <3>3, <1>1 DEF s7_mode, o_mux_s5_mode, o_uram_index
        <4>3. redbuf'[k - 1] = pp2.c
          BY <4>2, <3>2, <1>8
        <4>4. Index(c, 9) = (Num(rb_status[k]) + 2 * c[k + 1]) - 1 /\ c[k + 1] \in Nat
          BY <3>1, <3>3, <1>3, Places
        <4>5. Num(rb_status[k]) = 1
          BY <3>1 DEF Num
        <4>6. Index(c, 9) = 2 * c[k + 1]
          BY <4>4, <4>5
        <4>7. redbuf'[k - 1] = Made(k, 2 * c[k + 1], 3)
          BY <4>3, <4>6, <3>3, <2>2, Zenon
        <4> QED BY <4>7, <1>5, Zenon
      <3>4. CASE k # n[9]
        <4>1. redbuf[k - 1] = Made(k, 2 * c[k + 1], 3)
          BY <3>1, <3>4 DEF RedbufRight
        <4>2. o_uram_index = n[9] - 1
          BY <3>1, <1>1 DEF o_uram_index
        <4>3. o_uram_index # k - 1
          BY <4>2, <3>1, <3>4, <2>1
        <4>4. redbuf'[k - 1] = redbuf[k - 1]
          BY <4>3, <3>2
        <4> QED BY <4>1, <4>4, <1>5, Zenon
      <3> QED BY <3>3, <3>4
    <2>6. ASSUME stall' PROVE redbuf'[n'[9] - 1] = Made(n[9], Sibling(c), 3)'
      <3>1. redbuf[n[9] - 1] = Made(n[9], Sibling(c), 3)
        BY <1>1, <2>6 DEF RedbufRight
      <3>2. n[9] < MaxN
        BY <2>1, <2>3, <2>6, <1>1, <1>4
      <3>3. s7_mode
        BY <3>2, <2>6, <1>1, <1>4 DEF s7_mode, o_mux_s5_mode, o_last_write
      <3>4. redbuf' = redbuf
        BY <3>3
      <3> QED BY <3>1, <3>4, <1>1, <1>6, Zenon
    <2>7. ASSUME n'[9] = MaxN PROVE redbuf'[0] = Made(MaxN, 0, 3)'
      <3>1. n[9] = MaxN /\ reduce_trace
        BY <2>3, <2>7, <1>1, <1>4
      <3>2. ~s7_mode /\ o_uram_index = 0
        BY <3>1 DEF s7_mode, o_last_write, o_uram_index
      <3>3. 0 \in 0..(MaxN - 1)
        BY <1>4
      <3>4. redbuf'[0] = pp2.c
        BY <3>2, <3>3, <1>8
      <3>5. Index(c, 9) = 0
        BY <3>1, <1>4 DEF Index
      <3>6. redbuf'[0] = Made(MaxN, 0, 3)
        BY <3>1, <3>4, <3>5, <2>2, Zenon
      <3> QED BY <3>6, <1>5, Zenon
    <2> QED BY <2>5, <2>6, <2>7 DEF RedbufRight
  <1> QED BY <1>7, <1>8

-----------------------------------------------------------------------------
(* The invariant of the data                                               *)

(* Row groups and blocks have no more parts than the buffers have room     *)
(* for.                                                                    *)
Small ==
  /\ \A u \in {"madd", "intt", "mext"} : Cardinality(pre[u].prods) <= 4
  /\ \A u \in {"a", "b", "c"} : /\ Cardinality(pp1[u].leaves) <= 2^(MaxN - 1)
                                /\ Cardinality(pp2[u].leaves) <= 2^(MaxN - 1)

(* What every stage of a run holds, given the count g of row groups, the   *)
(* split q and the counts c of blocks by level, the same that ControlInv   *)
(* speaks of.                                                              *)
DataAt(g, q, c) ==
  /\ GroupsInOrder(g, q) /\ Taken(g) >= 0
  /\ PreRight(g, q) /\ LeafRight(g)
  /\ c[1] = Taken(g) /\ Tally(c)
  /\ StagesRight(c) /\ RedbufRight(c)

(* There are such counts.                                                  *)
DataRight == \E g, q \in Nat : \E c \in [1..job.level -> Nat] : DataAt(g, q, c)

(* The inductive invariant: the control is right, and the buffers hold     *)
(* what it takes them to hold.                                             *)
DataInv ==
  /\ ControlInv /\ Outcome /\ Shaped /\ Small
  /\ ~idle => /\ Modes /\ EdgesRight /\ DpRight /\ UramRight
              /\ StageModes /\ DataRight

(* The values of a function are at most as many as its arguments.          *)
LEMMA ImageSmall ==
  ASSUME NEW m \in Nat, NEW S, S = 0..(m - 1), NEW f, DOMAIN f = S,
         f = [j \in S |-> f[j]]
  PROVE  Cardinality({f[j] : j \in S}) <= m
  <1> DEFINE T == {f[j] : j \in S}
  <1>1. IsFiniteSet(S) /\ Cardinality(S) = m
    <2>1. /\ IsFiniteSet(0..(m - 1))
          /\ Cardinality(0..(m - 1)) = IF 0 > m - 1 THEN 0 ELSE (m - 1) - 0 + 1
      BY FS_Interval
    <2>2. (IF 0 > m - 1 THEN 0 ELSE (m - 1) - 0 + 1) = m
      OBVIOUS
    <2> QED BY <2>1, <2>2
  <1>2. f \in Surjection(S, T)
    BY DEF Surjection
  <1>3. Cardinality(T) <= Cardinality(S)
    BY <1>1, <1>2, FS_Surjection
  <1> QED BY <1>1, <1>3

(* A group has at most as many products as a row has splits.               *)
LEMMA ProductsSmall ==
  ASSUME NEW h, NEW m \in Nat, m <= 4
  PROVE  Cardinality(Products(h, m)) <= 4
  <1> DEFINE S == 0..(m - 1)
             f == [v \in S |-> <<Batch(GroupStart(h) + v, 1), Batch(v, 1)>>]
  <1>1. Products(h, m) = {f[v] : v \in S}
    BY Zenon DEF Products
  <1>2. Cardinality({f[v] : v \in S}) <= m
    <2>1. DOMAIN f = S /\ f = [v \in S |-> f[v]]
      OBVIOUS
    <2> HIDE DEF f
    <2> QED BY <2>1, ImageSmall
  <1>3. IsFiniteSet({f[v] : v \in S})
    <2>1. IsFiniteSet(S)
      BY FS_Interval
    <2>2. f \in Surjection(S, {f[v] : v \in S})
      BY DEF Surjection
    <2> HIDE DEF f, S
    <2> QED BY <2>1, <2>2, FS_Surjection
  <1>4. Cardinality({f[v] : v \in S}) \in Nat
    BY <1>3, FS_CardinalityType
  <1> DEFINE x == Cardinality({f[v] : v \in S})
  <1>5. x \in Nat /\ x <= m
    BY <1>2, <1>4
  <1> HIDE DEF x
  <1>6. x <= 4
    BY <1>5
  <1> QED BY <1>1, <1>6, Zenon DEF x

(* A block has at most as many leaves as the largest tree.                 *)
LEMMA ClusterSmall ==
  ASSUME job \in Jobs, NEW k \in Nat, k >= 1, NEW i
  PROVE  Cardinality(Cluster(k, i)) <= 2^(MaxN - 1)
  <1>1. MaxN \in Nat /\ job.level \in 1..MaxN
    BY JobFacts
  <1>2. Level(k) \in 1..MaxN
    BY <1>1 DEF Level
  <1> DEFINE e == Level(k) - 1
             m == 2^e
  <1>3. e \in Nat /\ MaxN - 1 \in Nat /\ e <= MaxN - 1
    BY <1>1, <1>2
  <1> HIDE DEF e
  <1>4. m \in Nat /\ m <= 2^(MaxN - 1) /\ 2^(MaxN - 1) \in Nat
    BY <1>3, NatPower, PowersGrow
  <1>5. Size(k) = m
    BY Zenon DEF Size, e
  <1> HIDE DEF m
  <1> DEFINE S == 0..(m - 1)
             f == [j \in S |-> TheLeaf(i * Size(k) + j)]
  <1>6. Cluster(k, i) = {f[j] : j \in S}
    BY <1>5, Zenon DEF Cluster
  <1>7. Cardinality({f[j] : j \in S}) <= m
    <2>1. DOMAIN f = S /\ f = [j \in S |-> f[j]]
      OBVIOUS
    <2> HIDE DEF f
    <2> QED BY <2>1, <1>4, ImageSmall
  <1>8. IsFiniteSet({f[j] : j \in S})
    <2>1. IsFiniteSet(S)
      BY <1>4, FS_Interval
    <2>2. f \in Surjection(S, {f[j] : j \in S})
      BY DEF Surjection
    <2> HIDE DEF f, S
    <2> QED BY <2>1, <2>2, FS_Surjection
  <1>9. Cardinality({f[j] : j \in S}) \in Nat
    BY <1>8, FS_CardinalityType
  <1> DEFINE x == Cardinality({f[j] : j \in S})
             y == 2^(MaxN - 1)
  <1>10. x \in Nat /\ x <= m /\ m <= y /\ y \in Nat
    BY <1>4, <1>7, <1>9
  <1> HIDE DEF x, y
  <1>11. x <= y
    BY <1>10, <1>4
  <1> QED BY <1>6, <1>11, Zenon DEF x, y

(* A stage finishes: what it has done to the buffers.                      *)
StageWork(s) ==
  /\ StageDone(s)
  /\ dp' = IF s = 1 THEN [dp EXCEPT !.ntt.ntt = @ + 1] ELSE dp
  /\ uram' = IF s = WrUram THEN [uram EXCEPT ![o_idx_split] = dp.madd] ELSE uram
  /\ s = 2 => pre' = [pre EXCEPT !.madd =
               Group((IF o_idx_split = 0 THEN {} ELSE @.prods)
                       \cup {<<dp.madd, uram[o_idx_split]>>}, 0)]
  /\ s = 3 => pre' = [pre EXCEPT !.intt.intt = @ + 1]
  /\ s \notin {2, 3} => pre' = pre
  /\ leaf' = IF s = 4 THEN [leaf EXCEPT !.mext = Leaf(pre.mext, o_coeff_index)]
             ELSE leaf
  /\ s = 5 => pp1' = [pp1 EXCEPT !.a = mux_seq]
  /\ s = 6 => pp1' = [pp1 EXCEPT !.b.steps = @ + 1]
  /\ s \notin {5, 6} => pp1' = pp1
  /\ s = 7 => pp2' = [pp2 EXCEPT !.a =
               [pp1.c EXCEPT !.steps = @ + 1,
                             !.trips[Len(pp1.c.trips)].key = o_mulacc_s7_n]]
  /\ s = 8 => pp2' = [pp2 EXCEPT !.b.steps = @ + 1]
  /\ s \notin {7, 8} => pp2' = pp2
  /\ redbuf' = IF s # 9 \/ s7_mode THEN redbuf
               ELSE [redbuf EXCEPT ![o_uram_index] = pp2.c]

(* The stages are the work of a run, the reader and the writer excepted.   *)
LEMMA WorkStages ==
  ASSUME Work, ~BatchRead, ~WriteDone
  PROVE  \E s \in 1..10 : StageWork(s)
  <1>1. CASE DpNtt
    <2>1. StageWork(1)
      BY <1>1 DEF DpNtt, StageWork, WrUram
    <2> QED BY <2>1
  <1>2. CASE DpWrUram
    <2>1. StageWork(10)
      BY <1>2 DEF DpWrUram, StageWork, WrUram
    <2> QED BY <2>1
  <1>3. CASE DpMulAdd
    <2>1. StageWork(2)
      BY <1>3 DEF DpMulAdd, StageWork, WrUram
    <2> QED BY <2>1
  <1>4. CASE PreIntt
    <2>1. StageWork(3)
      BY <1>4 DEF PreIntt, StageWork, WrUram
    <2> QED BY <2>1
  <1>5. CASE MExt
    <2>1. StageWork(4)
      BY <1>5 DEF MExt, StageWork, WrUram
    <2> QED BY <2>1
  <1>6. CASE MuxMonox
    <2>1. StageWork(5)
      BY <1>6 DEF MuxMonox, StageWork, WrUram
    <2> QED BY <2>1
  <1>7. CASE NttS6
    <2>1. StageWork(6)
      BY <1>7 DEF NttS6, StageWork, WrUram
    <2> QED BY <2>1
  <1>8. CASE MulAccS7
    <2>1. StageWork(7)
      BY <1>8 DEF MulAccS7, StageWork, WrUram
    <2> QED BY <2>1
  <1>9. CASE InttS8
    <2>1. StageWork(8)
      BY <1>9 DEF InttS8, StageWork, WrUram
    <2> QED BY <2>1
  <1>10. CASE MsAddx
    <2>1. StageWork(9)
      BY <1>10 DEF MsAddx, StageWork, WrUram
    <2> QED BY <2>1
  <1> QED BY <1>1, <1>2, <1>3, <1>4, <1>5, <1>6, <1>7, <1>8, <1>9, <1>10 DEF Work

(* The buffers keep their shapes.                                          *)
LEMMA ClockShapes ==
  ASSUME NEW start, Clock(start), Shaped, Small
  PROVE  Shaped' /\ Small'
  <1>1. /\ dp' = IF DpDone /\ ~edges.dp
                 THEN [axi |-> dp.madd, ntt |-> dp.axi, madd |-> dp.ntt] ELSE dp
        /\ leaf' = IF LeafDone /\ ~edges.leaf
                   THEN [mext |-> leaf.mux, mux |-> leaf.mext] ELSE leaf
        /\ uram' = uram /\ redbuf' = redbuf
    BY ClockData
  <1>2. pre' = IF o_pre_tpp_switch /\ ~edges.pre
               THEN [madd |-> pre.mext, intt |-> pre.madd, mext |-> pre.intt]
               ELSE pre
    BY ClockData
  <1>3. pp1' = pp_buffer(pp1) /\ pp2' = pp_buffer(pp2)
    BY ClockData
  <1>4. pp1' = [a |-> pp1.c, b |-> pp1.a, c |-> pp1.b] \/ pp1' = pp1
    BY <1>3 DEF pp_buffer
  <1>5. pp2' = [a |-> pp2.c, b |-> pp2.a, c |-> pp2.b] \/ pp2' = pp2
    BY <1>3 DEF pp_buffer
  <1>6. DOMAIN dp' = {"axi", "ntt", "madd"} /\ DOMAIN uram' = 0..3
        /\ DOMAIN leaf' = {"mext", "mux"} /\ DOMAIN redbuf' = 0..(MaxN - 1)
    BY <1>1 DEF Shaped
  <1>7. DOMAIN pre' = {"madd", "intt", "mext"}
    BY <1>2 DEF Shaped
  <1>8. DOMAIN pp1' = {"a", "b", "c"} /\ DOMAIN pp2' = {"a", "b", "c"}
    BY <1>4, <1>5 DEF Shaped
  <1>9. ASSUME NEW u \in {"madd", "intt", "mext"} PROVE Cardinality(pre'[u].prods) <= 4
    <2>1. pre'[u] \in {pre.madd, pre.intt, pre.mext}
      BY <1>2
    <2>2. \A w \in {"madd", "intt", "mext"} : Cardinality(pre[w].prods) <= 4
      BY DEF Small
    <2> QED BY <2>1, <2>2
  <1>10. ASSUME NEW u \in {"a", "b", "c"}
         PROVE  /\ Cardinality(pp1'[u].leaves) <= 2^(MaxN - 1)
                /\ Cardinality(pp2'[u].leaves) <= 2^(MaxN - 1)
    <2>1. pp1'[u] \in {pp1.a, pp1.b, pp1.c}
      BY <1>4
    <2>2. pp2'[u] \in {pp2.a, pp2.b, pp2.c}
      BY <1>5
    <2>3. \A w \in {"a", "b", "c"} : /\ Cardinality(pp1[w].leaves) <= 2^(MaxN - 1)
                                     /\ Cardinality(pp2[w].leaves) <= 2^(MaxN - 1)
      BY DEF Small
    <2> QED BY <2>1, <2>2, <2>3
  <1> QED BY <1>6, <1>7, <1>8, <1>9, <1>10 DEF Shaped, Small

(* A stage writes fields that its buffer has.                              *)
LEMMA StageShapes ==
  ASSUME NEW s \in 1..10, StageWork(s), Shaped
  PROVE  Shaped'
  <1>1. DOMAIN dp' = DOMAIN dp /\ DOMAIN uram' = DOMAIN uram /\ DOMAIN leaf' = DOMAIN leaf
    BY DEF StageWork
  <1>2. DOMAIN pre' = DOMAIN pre
    BY DEF StageWork
  <1>3. DOMAIN pp1' = DOMAIN pp1 /\ DOMAIN redbuf' = DOMAIN redbuf
    BY DEF StageWork
  <1>4. DOMAIN pp2' = DOMAIN pp2
    BY DEF StageWork
  <1> QED BY <1>1, <1>2, <1>3, <1>4 DEF Shaped

(* The groups keep to the splits of a row.                                 *)
LEMMA StagePreSmall ==
  ASSUME ControlInv, Modes, EdgesRight, DpRight, UramRight, Shaped, Small,
         NEW s \in 1..10, StageWork(s),
         NEW g \in Nat, NEW q \in Nat, GroupsInOrder(g, q), PreRight(g, q)
  PROVE  \A u \in {"madd", "intt", "mext"} : Cardinality(pre'[u].prods) <= 4
  <1>0. StageDone(s) /\ DOMAIN pre = {"madd", "intt", "mext"}
    BY DEF StageWork, Shaped
  <1>1. /\ ~start_pulse /\ ~start_pulse' /\ ~idle /\ job' = job
        /\ ~done[s] /\ done'[s] /\ status' = status /\ write_uram' = write_uram
        /\ s4_due' = s4_due
        /\ \A t : ~o_start(t) /\ ~o_start(t)'
        /\ (IF s = 10 THEN status[2] ELSE status[s])
    BY <1>0, StageFacts
  <1>2. job.split \in 1..4 /\ job.index \in Nat /\ (job.split = 1 \/ job.index = 1) /\ Registers
    BY JobFacts DEF ControlInv, Registers
  <1>3. \A w \in {"madd", "intt", "mext"} : Cardinality(pre[w].prods) <= 4
    BY DEF Small
  <1>4. CASE s = 2
    <2>1. status[2] /\ ~done[2] /\ ~write_uram
      BY <1>1, <1>4 DEF Modes
    <2> DEFINE P == (IF o_idx_split = 0 THEN {} ELSE pre.madd.prods)
                      \cup {<<dp.madd, uram[o_idx_split]>>}
    <2>2. pre' = [pre EXCEPT !.madd = Group(P, 0)]
      BY <1>4 DEF StageWork
    <2>3. o_idx_split = q /\ q \in 0..(job.split - 1)
      BY <2>1, <1>1, SplitIndex
    <2>4. Cardinality(P) <= 4
      <3>1. CASE PreTurned
        <4>1. ~edges.pre
          BY <2>1 DEF EdgesRight
        <4>2. s4_due # 0
          BY <3>1, <4>1 DEF PreTurned
        <4>3. s4_due \in 0..(job.index - 1)
          BY <1>2, DueType
        <4>4. q = 0
          BY <2>3, <4>2, <4>3, <1>2
        <4>5. P = {<<dp.madd, uram[o_idx_split]>>}
          BY <2>3, <4>4
        <4>6. Cardinality({<<dp.madd, uram[o_idx_split]>>}) = 1
          BY FS_Singleton, Zenon
        <4> HIDE DEF P
        <4>7. Cardinality(P) = 1
          BY <4>5, <4>6, Zenon
        <4> QED BY <4>7
      <3>2. CASE ~PreTurned
        <4>1. pre' = [pre EXCEPT !.madd = Group(P, 0)] /\ "madd" \in DOMAIN pre
          BY <2>2, <1>0
        <4>2. pre'.madd = Group(P, 0)
          <5> HIDE DEF P
          <5> QED BY <4>1
        <4>3. PreRight(g, q)'
          BY <1>0, StagePre DEF StageWork
        <4>4. ~PreTurned'
          <5>1. edges' = edges /\ ~edges.pre
            BY <2>1, <1>0, StageFacts DEF EdgesRight
          <5> QED BY <5>1, <3>2, <1>1 DEF PreTurned
        <4>5. done'[2] /\ ~o_start(2)' /\ status'[2] /\ ~write_uram'
          BY <2>1, <1>1, <1>4
        <4>6. pre'.madd = PartGroup(g, q + 1)'
          BY <4>3, <4>4, <4>5 DEF PreRight
        <4>7. PartGroup(g, q + 1)' = PartGroup(g, q + 1)
          BY <1>1, GroupStill
        <4>8. Group(P, 0) = Group(Products(g, q + 1), 0)
          BY <4>2, <4>6, <4>7, Zenon DEF PartGroup
        <4>9. P = Products(g, q + 1)
          <5> HIDE DEF P
          <5> QED BY <4>8 DEF Group
        <4>10. q + 1 \in Nat /\ q + 1 <= 4
          BY <2>3, <1>2
        <4>11. Cardinality(Products(g, q + 1)) <= 4
          BY <4>10, ProductsSmall
        <4> QED BY <4>9, <4>11, Zenon
      <3> QED BY <3>1, <3>2
    <2> HIDE DEF P
    <2>5. pre'.madd.prods = P /\ pre'.intt = pre.intt /\ pre'.mext = pre.mext
      BY <2>2, <1>0 DEF Group
    <2> QED BY <2>4, <2>5, <1>3
  <1>5. CASE s = 3
    <2>1. status[3] /\ ~done[3]
      BY <1>1, <1>5
    <2>2. ~PreTurned
      BY <2>1, <1>1 DEF PreTurned, Modes, o_pre_tpp_switch
    <2>3. pre.intt = RawGroup(g - 1)
      BY <2>1, <2>2 DEF PreRight
    <2>4. pre' = [pre EXCEPT !.intt = [pre.intt EXCEPT !.intt = pre.intt.intt + 1]]
      BY <1>5 DEF StageWork
    <2>5. [pre.intt EXCEPT !.intt = pre.intt.intt + 1].prods = pre.intt.prods
      BY <2>3 DEF RawGroup, Group
    <2>6. pre'.intt.prods = pre.intt.prods /\ pre'.madd = pre.madd /\ pre'.mext = pre.mext
      BY <2>4, <2>5, <1>0
    <2> QED BY <2>6, <1>3
  <1>6. CASE s \notin {2, 3}
    <2>1. pre' = pre
      BY <1>6 DEF StageWork
    <2> QED BY <2>1, <1>3
  <1> QED BY <1>4, <1>5, <1>6

(* The blocks keep to the leaves of the largest tree.                      *)
LEMMA StageBlocksSmall ==
  ASSUME ControlInv, Shaped, Small, StageModes,
         NEW s \in 1..10, StageWork(s),
         NEW g \in Nat, NEW q \in Nat,
         GroupsInOrder(g, q), Taken(g) >= 0, LeafRight(g), NEW L \in Nat, L = job.level,
         NEW c \in [1..L -> Nat], c[1] = Taken(g), Tally(c), StagesRight(c), RedbufRight(c)
  PROVE  \A u \in {"a", "b", "c"} : /\ Cardinality(pp1'[u].leaves) <= 2^(MaxN - 1)
                                    /\ Cardinality(pp2'[u].leaves) <= 2^(MaxN - 1)
  <1>0. StageDone(s) /\ DOMAIN pp1 = {"a", "b", "c"} /\ DOMAIN pp2 = {"a", "b", "c"}
    BY DEF StageWork, Shaped
  <1>1. /\ ~start_pulse /\ ~idle /\ ~done[s]
        /\ (IF s = 10 THEN status[2] ELSE status[s])
    BY <1>0, StageFacts
  <1>2. \A w \in {"a", "b", "c"} : /\ Cardinality(pp1[w].leaves) <= 2^(MaxN - 1)
                                   /\ Cardinality(pp2[w].leaves) <= 2^(MaxN - 1)
    BY DEF Small
  <1>3. job \in Jobs /\ \A t \in 5..9 : n[t] \in 0..MaxN /\ (status[t] <=> n[t] # 0)
    BY DEF ControlInv, Registers, Levels
  <1>4. MaxN \in Nat
    BY JobsAssumption
  <1>5. CASE s = 5
    <2>1. mux_seq = Open(n[5], Index(c, 5), 0)
      BY <1>1, <1>5, MuxSeq
    <2>2. mux_seq.leaves = Cluster(n[5], Index(c, 5))
      BY <2>1 DEF Open, Block
    <2>3. n[5] \in Nat /\ n[5] >= 1
      BY <1>1, <1>3, <1>4, <1>5
    <2>4. Cardinality(Cluster(n[5], Index(c, 5))) <= 2^(MaxN - 1)
      BY <2>3, <1>3, ClusterSmall
    <2>5. Cardinality(mux_seq.leaves) <= 2^(MaxN - 1)
      BY <2>2, <2>4, Zenon
    <2>6. pp1'.a = mux_seq /\ pp1'.b = pp1.b /\ pp1'.c = pp1.c /\ pp2' = pp2
      BY <1>0, <1>5 DEF StageWork
    <2> QED BY <2>5, <2>6, <1>2
  <1>6. CASE s = 6
    <2>1. status[6]
      BY <1>1, <1>6
    <2>2. pp1.b = Open(n[6], Index(c, 6), Step(6))
      BY <2>1, <1>1 DEF StagesRight, Held
    <2>3. [pp1.b EXCEPT !.steps = pp1.b.steps + 1].leaves = pp1.b.leaves
      BY <2>2 DEF Open, Block
    <2>4. pp1' = [pp1 EXCEPT !.b = [pp1.b EXCEPT !.steps = pp1.b.steps + 1]] /\ pp2' = pp2
      BY <1>6 DEF StageWork
    <2>5. pp1'.b.leaves = pp1.b.leaves /\ pp1'.a = pp1.a /\ pp1'.c = pp1.c
      BY <2>3, <2>4, <1>0
    <2> QED BY <2>4, <2>5, <1>2
  <1>7. CASE s = 7
    <2>1. status[7] /\ n[7] # 0
      BY <1>1, <1>3, <1>7
    <2>2. pp1.c = Open(n[7], Index(c, 7), 1)
      BY <2>1, <1>1 DEF StagesRight, Held
    <2> DEFINE b == [pp1.c EXCEPT !.steps = @ + 1,
                             !.trips[Len(pp1.c.trips)].key = o_mulacc_s7_n]
    <2>3. b = Made(n[7], Index(c, 7), 2)
      BY <2>1, <2>2, <1>1, MulAccSeq
    <2>4. pp2' = [pp2 EXCEPT !.a = b] /\ pp1' = pp1
      BY <1>7 DEF StageWork
    <2> HIDE DEF b
    <2>5. b.leaves = Cluster(n[7], Index(c, 7))
      BY <2>3 DEF Made, Block
    <2>6. n[7] \in Nat /\ n[7] >= 1
      BY <2>1, <1>3, <1>4
    <2>7. Cardinality(Cluster(n[7], Index(c, 7))) <= 2^(MaxN - 1)
      BY <2>6, <1>3, ClusterSmall
    <2>8. Cardinality(b.leaves) <= 2^(MaxN - 1)
      BY <2>5, <2>7, Zenon
    <2>9. pp2'.a = b /\ pp2'.b = pp2.b /\ pp2'.c = pp2.c
      BY <2>4, <1>0
    <2> QED BY <2>4, <2>8, <2>9, <1>2
  <1>8. CASE s = 8
    <2>1. status[8]
      BY <1>1, <1>8
    <2>2. pp2.b = Made(n[8], Index(c, 8), 2 + Step(8))
      BY <2>1, <1>1 DEF StagesRight, Held
    <2>3. [pp2.b EXCEPT !.steps = pp2.b.steps + 1].leaves = pp2.b.leaves
      BY <2>2 DEF Made, Block
    <2>4. pp2' = [pp2 EXCEPT !.b = [pp2.b EXCEPT !.steps = pp2.b.steps + 1]] /\ pp1' = pp1
      BY <1>8 DEF StageWork
    <2>5. pp2'.b.leaves = pp2.b.leaves /\ pp2'.a = pp2.a /\ pp2'.c = pp2.c
      BY <2>3, <2>4, <1>0
    <2> QED BY <2>4, <2>5, <1>2
  <1>9. CASE s \notin {5, 6, 7, 8}
    <2>1. pp1' = pp1 /\ pp2' = pp2
      BY <1>9 DEF StageWork
    <2> QED BY <2>1, <1>2
  <1> QED BY <1>5, <1>6, <1>7, <1>8, <1>9

(* What is in the tree does not change while its registers and buffers do  *)
(* not.                                                                    *)
LEMMA TreeStill ==
  ASSUME start_pulse' = start_pulse, status' = status, done' = done,
         n' = n, job' = job, rb_status' = rb_status,
         stall' = stall, reduce_trace' = reduce_trace,
         pp1' = pp1, pp2' = pp2, redbuf' = redbuf, NEW c
  PROVE  /\ StageModes => StageModes'
         /\ StagesRight(c) => StagesRight(c)'
         /\ RedbufRight(c) => RedbufRight(c)'
  <1>1. /\ start_pulse' = start_pulse /\ status' = status /\ done' = done
        /\ n' = n /\ job' = job /\ rb_status' = rb_status
        /\ stall' = stall /\ reduce_trace' = reduce_trace
    OBVIOUS
  <1>2. pp1' = pp1 /\ pp2' = pp2 /\ redbuf' = redbuf
    OBVIOUS
  <1>3. StageModes => StageModes'
    BY <1>1 DEF StageModes
  <1>4. Step(6)' = Step(6) /\ Step(8)' = Step(8)
    BY <1>1 DEF Step
  <1>5. Held(6)' = Held(6) /\ Held(7)' = Held(7) /\ Held(8)' = Held(8) /\ Held(9)' = Held(9)
    BY <1>1, <1>2 DEF Held
  <1>6. /\ Open(n[5], Index(c, 5), 0)' = Open(n[5], Index(c, 5), 0)
        /\ Open(n[6], Index(c, 6), Step(6))' = Open(n[6], Index(c, 6), Step(6))
        /\ Open(n[7], Index(c, 7), 1)' = Open(n[7], Index(c, 7), 1)
        /\ Made(n[7], Index(c, 7), 2)' = Made(n[7], Index(c, 7), 2)
        /\ Made(n[8], Index(c, 8), 2 + Step(8))' = Made(n[8], Index(c, 8), 2 + Step(8))
        /\ Made(n[9], Index(c, 9), 3)' = Made(n[9], Index(c, 9), 3)
    BY <1>1, <1>4, BlockStill
  <1>7. StagesRight(c) => StagesRight(c)'
    BY <1>1, <1>2, <1>5, <1>6 DEF StagesRight
  <1>8. \A k, i, t : Made(k, i, t)' = Made(k, i, t)
    BY <1>1, MadeStill
  <1>9. Made(n[9], Sibling(c), 3)' = Made(n[9], Sibling(c), 3)
    <2>1. Sibling(c)' = Sibling(c)
      BY <1>1, IndexStill, Zenon DEF Sibling
    <2> QED BY <2>1, <1>1, SMT DEF Made, Cluster, Trips, Size, Level, TheLeaf, TheTrip
  <1>10. RedbufRight(c) => RedbufRight(c)'
    <2> SUFFICES ASSUME RedbufRight(c) PROVE RedbufRight(c)'
      OBVIOUS
    <2>1. ASSUME NEW k \in 1..(job'.level - 1), rb_status'[k],
                 ~(n'[9] = k /\ (start_pulse' \/ ~done'[9]))
          PROVE  redbuf'[k - 1] = Made(k, 2 * c[k + 1], 3)'
      <3>1. redbuf[k - 1] = Made(k, 2 * c[k + 1], 3)
        BY <2>1, <1>1 DEF RedbufRight
      <3> QED BY <3>1, <1>2, <1>8, Zenon
    <2>2. ASSUME stall' PROVE redbuf'[n'[9] - 1] = Made(n[9], Sibling(c), 3)'
      <3>1. redbuf[n[9] - 1] = Made(n[9], Sibling(c), 3)
        BY <1>1, <2>2 DEF RedbufRight
      <3> QED BY <3>1, <1>1, <1>2, <1>9, Zenon
    <2>3. ASSUME n'[9] = MaxN, done'[9], ~start_pulse' PROVE redbuf'[0] = Made(MaxN, 0, 3)'
      <3>1. redbuf[0] = Made(MaxN, 0, 3)
        BY <2>3, <1>1 DEF RedbufRight
      <3> QED BY <3>1, <1>2, <1>8, Zenon
    <2> QED BY <2>1, <2>2, <2>3 DEF RedbufRight
  <1> QED BY <1>3, <1>7, <1>10

(* The reader leaves the tree alone.                                       *)
LEMMA BatchTree ==
  ASSUME ControlInv, BatchRead, NEW c
  PROVE  /\ StageModes => StageModes'
         /\ StagesRight(c) => StagesRight(c)'
         /\ RedbufRight(c) => RedbufRight(c)'
  <1>1. /\ ~start_pulse /\ ~start_pulse' /\ status' = status /\ done' = done
        /\ n' = n /\ job' = job /\ rb_status' = rb_status
        /\ stall' = stall /\ reduce_trace' = reduce_trace
    BY BatchFacts
  <1>2. pp1' = pp1 /\ pp2' = pp2 /\ redbuf' = redbuf /\ start_pulse' = start_pulse
    BY DEF BatchRead, control
  <1> QED BY <1>1, <1>2, TreeStill

(* A run begins with an empty tree.                                        *)
LEMMA StartTree ==
  ASSUME ControlInv, NEW j \in Jobs, Start(j), ~stall, NEW c
  PROVE  StageModes' /\ StagesRight(c)' /\ RedbufRight(c)'
  <1>1. /\ \A s \in 0..9 : ~status'[s]
        /\ \A s \in 5..9 : n'[s] = 0
        /\ \A k \in 0..MaxN : ~rb_status'[k]
        /\ ~reduce_trace' /\ job' = j
        /\ ~stall'
    BY StartFacts
  <1>2. ~status'[5] /\ ~status'[6] /\ ~status'[7] /\ ~status'[8] /\ ~status'[9] /\ n'[9] = 0
    BY <1>1
  <1>3. j.level \in 1..MaxN /\ MaxN \in Nat /\ MaxN # 0
    BY JobsAssumption
  <1>4. StageModes'
    BY <1>1, <1>2, <1>3 DEF StageModes
  <1>5. StagesRight(c)'
    BY <1>2 DEF StagesRight
  <1>6. \A k \in 1..(job'.level - 1) : ~rb_status'[k]
    BY <1>1, <1>3
  <1>7. RedbufRight(c)'
    BY <1>1, <1>2, <1>3, <1>6 DEF RedbufRight
  <1> QED BY <1>4, <1>5, <1>7

-----------------------------------------------------------------------------
(* Every step keeps the invariant of the data                              *)

(* What the invariant says of a run that is under way.                     *)
LEMMA DataParts ==
  ASSUME DataInv, ~idle
  PROVE  /\ ControlInv /\ Outcome /\ Shaped /\ Small
         /\ Modes /\ EdgesRight /\ DpRight /\ UramRight /\ StageModes
         /\ Registers /\ RoundsApart /\ Levels /\ Ends /\ ReaderRight /\ NoBubble
         /\ \E g, q \in Nat : \E L \in Nat : L = job.level /\ \E c \in [1..L -> Nat] :
              DataAt(g, q, c)
  <1>1. /\ ControlInv /\ Outcome /\ Shaped /\ Small
        /\ Modes /\ EdgesRight /\ DpRight /\ UramRight /\ StageModes /\ DataRight
    BY Zenon DEF DataInv
  <1>2. Registers /\ RoundsApart /\ Levels /\ Ends /\ ReaderRight /\ NoBubble
    BY <1>1, Zenon DEF ControlInv, Running
  <1>3. job.level \in Nat
    <2>1. job \in Jobs
      BY <1>2 DEF Registers
    <2> QED BY <2>1, JobFacts
  <1>4. PICK g \in Nat, q \in Nat : \E c \in [1..job.level -> Nat] : DataAt(g, q, c)
    BY <1>1, Zenon DEF DataRight
  <1>5. \E L \in Nat : L = job.level /\ \E c \in [1..L -> Nat] : DataAt(g, q, c)
    BY <1>3, <1>4, Zenon
  <1> QED BY <1>1, <1>2, <1>5, Zenon

(* What shows that the invariant holds after a step of a run.              *)
LEMMA DataBuild ==
  ASSUME ControlInv', Outcome', Shaped', Small', Modes', EdgesRight', DpRight', UramRight',
         StageModes', NEW g \in Nat, NEW q \in Nat, NEW L \in Nat, L = job'.level,
         NEW c \in [1..L -> Nat], DataAt(g, q, c)'
  PROVE  DataInv'
  <1>1. c \in [1..job'.level -> Nat]
    OBVIOUS
  <1>2. DataRight'
    BY <1>1, Zenon DEF DataRight
  <1> QED BY <1>2, Zenon DEF DataInv

(* A stage finishes.                                                       *)
LEMMA StageAt ==
  ASSUME DataInv, NEW s \in 1..10, StageWork(s),
         NEW g \in Nat, NEW q \in Nat, NEW L \in Nat, L = job.level,
         NEW c \in [1..L -> Nat], DataAt(g, q, c)
  PROVE  DataInv' /\ DataAt(g, q, c)'
  <1>1. StageDone(s)
    BY Zenon DEF StageWork
  <1>2. ControlInv
    BY Zenon DEF DataInv
  <1>3. /\ ~idle /\ ~idle' /\ ~start_pulse /\ ~start_pulse' /\ delay = 3
        /\ job' = job /\ status' = status /\ n' = n /\ rb_status' = rb_status
        /\ stall' = stall /\ reduce_trace' = reduce_trace /\ edges' = edges
        /\ s2_due' = s2_due /\ s4_due' = s4_due
        /\ Entered' = Entered
        /\ write_uram' = write_uram /\ write_uram_cnt' = write_uram_cnt
        /\ rd' = rd /\ batches' = batches
    BY <1>1, <1>2, StageFacts
  <1>4. /\ ControlInv /\ Outcome /\ Shaped /\ Small
        /\ Modes /\ EdgesRight /\ DpRight /\ UramRight /\ StageModes
        /\ Registers /\ RoundsApart /\ Levels /\ Ends /\ ReaderRight /\ NoBubble
    BY <1>3, DataParts
  <1>5. L = job.level
    OBVIOUS
  <1>7. /\ GroupsInOrder(g, q) /\ Taken(g) >= 0
        /\ PreRight(g, q) /\ LeafRight(g)
        /\ c[1] = Taken(g) /\ Tally(c)
        /\ StagesRight(c) /\ RedbufRight(c)
    BY Zenon DEF DataAt
  <1>8. L = job.level /\ L \in 1..MaxN /\ MaxN \in Nat
    <2>1. job \in Jobs
      BY <1>4 DEF Registers
    <2> QED BY <2>1, <1>5, JobFacts
  <1>9. ControlInv'
    <2>1. s \in Signals /\ s # 0
      BY SignalList
    <2> QED BY <2>1, <1>1, <1>2, StageKeeps
  <1>10. GroupsInOrder(g, q)' /\ Taken(g)' = Taken(g)
    BY <1>3, <1>7, SameFront
  <1>11. Tally(c)'
    BY <1>3, <1>4, <1>7, <1>8, SameTree
  <1>12. Modes' /\ EdgesRight'
    BY <1>1, <1>4, StageModesKept, StageEdges
  <1>13. DpRight' /\ UramRight'
    <2>1. /\ DOMAIN dp = {"axi", "ntt", "madd"} /\ DOMAIN uram = 0..3
          /\ dp' = IF s = 1 THEN [dp EXCEPT !.ntt.ntt = @ + 1] ELSE dp
          /\ uram' = IF s = WrUram THEN [uram EXCEPT ![o_idx_split] = dp.madd] ELSE uram
      BY <1>4, Zenon DEF Shaped, StageWork
    <2> QED BY <2>1, <1>1, <1>4, StageDp, StageUram
  <1>14. StageModes'
    <2>1. reduce_trace' <=> reduce_trace \/ n[8] = job.level
      BY <1>3, <1>4 DEF Levels
    <2> QED BY <2>1, <1>3, <1>4, <1>7, <1>8, PlainStageModes
  <1>15. PreRight(g, q)' /\ pre'.mext = pre.mext
    <2>1. /\ DOMAIN pre = {"madd", "intt", "mext"}
          /\ s = 2 => pre' = [pre EXCEPT !.madd =
               Group((IF o_idx_split = 0 THEN {} ELSE @.prods)
                       \cup {<<dp.madd, uram[o_idx_split]>>}, 0)]
          /\ s = 3 => pre' = [pre EXCEPT !.intt.intt = @ + 1]
          /\ s \notin {2, 3} => pre' = pre
      BY <1>4, Zenon DEF Shaped, StageWork
    <2> QED BY <2>1, <1>1, <1>4, <1>7, StagePre
  <1>16. LeafRight(g)'
    <2>1. /\ DOMAIN leaf = {"mext", "mux"}
          /\ leaf' = IF s = 4 THEN [leaf EXCEPT !.mext = Leaf(pre.mext, o_coeff_index)]
                     ELSE leaf
      BY <1>4, Zenon DEF Shaped, StageWork
    <2> QED BY <2>1, <1>1, <1>4, <1>7, <1>10, <1>15, StageLeaf
  <1>17. StagesRight(c)'
    <2>1. /\ DOMAIN pp1 = {"a", "b", "c"} /\ DOMAIN pp2 = {"a", "b", "c"}
          /\ s = 5 => pp1' = [pp1 EXCEPT !.a = mux_seq]
          /\ s = 6 => pp1' = [pp1 EXCEPT !.b.steps = @ + 1]
          /\ s \notin {5, 6} => pp1' = pp1
          /\ s = 7 => pp2' = [pp2 EXCEPT !.a =
               [pp1.c EXCEPT !.steps = @ + 1,
                             !.trips[Len(pp1.c.trips)].key = o_mulacc_s7_n]]
          /\ s = 8 => pp2' = [pp2 EXCEPT !.b.steps = @ + 1]
          /\ s \notin {7, 8} => pp2' = pp2
      BY <1>4, Zenon DEF Shaped, StageWork
    <2> QED BY <2>1, <1>1, <1>4, <1>7, <1>8, StageStages
  <1>18. RedbufRight(c)'
    <2>1. /\ DOMAIN redbuf = 0..(MaxN - 1)
          /\ redbuf' = IF s # 9 \/ s7_mode THEN redbuf
                       ELSE [redbuf EXCEPT ![o_uram_index] = pp2.c]
      BY <1>4, Zenon DEF Shaped, StageWork
    <2> QED BY <2>1, <1>1, <1>4, <1>7, <1>8, StageRedbuf
  <1>19. Shaped'
    BY <1>4, StageShapes
  <1>20. Small'
    <2>1. \A u \in {"madd", "intt", "mext"} : Cardinality(pre'[u].prods) <= 4
      BY <1>4, <1>7, StagePreSmall
    <2>2. \A u \in {"a", "b", "c"} : /\ Cardinality(pp1'[u].leaves) <= 2^(MaxN - 1)
                                     /\ Cardinality(pp2'[u].leaves) <= 2^(MaxN - 1)
      BY <1>4, <1>7, <1>8, StageBlocksSmall
    <2> QED BY <2>1, <2>2, Zenon DEF Small
  <1>21. Outcome'
    <2>1. ~wr' /\ ~ap_idle'
      BY <1>3, <1>9 DEF ControlInv, Ends
    <2>2. data_size_batches' = data_size_batches
      BY <1>3 DEF data_size_batches
    <2>3. batches' \in 0..data_size_batches'
      BY <2>2, <1>3, <1>4 DEF Outcome
    <2> QED BY <2>1, <2>3, <1>3, Zenon DEF Outcome
  <1>22. DataAt(g, q, c)'
    <2>1. Taken(g)' >= 0 /\ c[1] = Taken(g)'
      BY <1>7, <1>10
    <2> QED BY <2>1, <1>10, <1>11, <1>15, <1>16, <1>17, <1>18, Zenon DEF DataAt
  <1>23. L = job'.level
    BY <1>3, <1>8
  <1>24. DataInv'
    BY <1>9, <1>12, <1>13, <1>14, <1>19, <1>20, <1>21, <1>22, <1>23, DataBuild
  <1> QED BY <1>22, <1>24

(* So the invariant holds when a stage has finished.                       *)
LEMMA StageData ==
  ASSUME DataInv, NEW s \in 1..10, StageWork(s)
  PROVE  DataInv'
  <1>1. ~idle
    <2>1. StageDone(s) /\ ControlInv
      BY Zenon DEF StageWork, DataInv
    <2> QED BY <2>1, StageFacts
  <1>2. \E g, q \in Nat : \E L \in Nat : L = job.level /\ \E c \in [1..L -> Nat] :
          DataAt(g, q, c)
    BY <1>1, DataParts
  <1>3. PICK g \in Nat, q \in Nat, L \in Nat : L = job.level /\ \E c \in [1..L -> Nat] :
             DataAt(g, q, c)
    BY <1>2, Zenon
  <1>4. PICK c \in [1..L -> Nat] : DataAt(g, q, c)
    BY <1>3, Zenon
  <1> QED BY <1>3, <1>4, StageAt, Zenon

(* The reader fills its buffer.                                            *)
LEMMA BatchAt ==
  ASSUME DataInv, BatchRead,
         NEW g \in Nat, NEW q \in Nat, NEW L \in Nat, L = job.level,
         NEW c \in [1..L -> Nat], DataAt(g, q, c)
  PROVE  DataInv' /\ DataAt(g, q, c)'
  <1>2. ControlInv
    BY Zenon DEF DataInv
  <1>3. /\ ~idle /\ ~idle' /\ ~start_pulse /\ ~start_pulse' /\ delay = 3
        /\ job' = job /\ status' = status /\ n' = n /\ rb_status' = rb_status
        /\ stall' = stall /\ reduce_trace' = reduce_trace /\ edges' = edges
        /\ s2_due' = s2_due /\ s4_due' = s4_due
        /\ Entered' = Entered
        /\ write_uram' = write_uram /\ write_uram_cnt' = write_uram_cnt
        /\ rd = "xfer" /\ batches' = batches + 1
        /\ batches + 1 <= data_size_batches /\ data_size_batches' = data_size_batches
        /\ batches \in Nat
    BY <1>2, BatchFacts
  <1>4. /\ ControlInv /\ Outcome /\ Shaped /\ Small
        /\ Modes /\ EdgesRight /\ DpRight /\ UramRight /\ StageModes
        /\ Registers /\ RoundsApart /\ Levels /\ Ends /\ ReaderRight /\ NoBubble
    BY <1>3, DataParts
  <1>5. L = job.level
    OBVIOUS
  <1>7. /\ GroupsInOrder(g, q) /\ Taken(g) >= 0
        /\ PreRight(g, q) /\ LeafRight(g)
        /\ c[1] = Taken(g) /\ Tally(c)
        /\ StagesRight(c) /\ RedbufRight(c)
    BY Zenon DEF DataAt
  <1>9. ControlInv'
    BY <1>2, BatchKeeps
  <1>10. GroupsInOrder(g, q)' /\ Taken(g)' = Taken(g)
    BY <1>3, <1>7, SameFront
  <1>11. Tally(c)'
    BY <1>3, <1>4, <1>5, <1>7, SameTree
  <1>12. Modes' /\ EdgesRight' /\ UramRight'
    BY <1>4, BatchModes, BatchEdges, BatchUram
  <1>13. DpRight'
    <2>1. DOMAIN dp = {"axi", "ntt", "madd"}
      BY <1>4, Zenon DEF Shaped
    <2> QED BY <2>1, <1>4, BatchDp
  <1>14. PreRight(g, q)' /\ LeafRight(g)'
    BY <1>4, <1>7, <1>10, BatchFront
  <1>15. StageModes' /\ StagesRight(c)' /\ RedbufRight(c)'
    BY <1>4, <1>7, BatchTree
  <1>16. Shaped' /\ Small'
    <2>1. /\ uram' = uram /\ pre' = pre /\ leaf' = leaf /\ pp1' = pp1 /\ pp2' = pp2
          /\ redbuf' = redbuf /\ dp' = [dp EXCEPT !.axi = Batch(batches, 0)]
      BY DEF BatchRead
    <2>2. DOMAIN dp' = DOMAIN dp
      BY <2>1
    <2>3. Shaped'
      BY <2>1, <2>2, <1>4, Zenon DEF Shaped
    <2>4. Small'
      BY <2>1, <1>4, Zenon DEF Small
    <2> QED BY <2>3, <2>4
  <1>17. Outcome'
    <2>1. ~wr' /\ ~ap_idle'
      BY <1>3, <1>9 DEF ControlInv, Ends
    <2>2. data_size_batches \in Nat
      <3>1. job \in Jobs
        BY <1>4 DEF Registers
      <3>2. data_size_batches = GroupStart(Groups) /\ Groups \in Nat
        BY <3>1, JobFacts
      <3>3. GroupStart(Groups) \in Nat
        BY <3>1, <3>2, Counting
      <3> QED BY <3>2, <3>3
    <2>3. batches' \in 0..data_size_batches'
      BY <2>2, <1>3
    <2> QED BY <2>1, <2>3, <1>3, Zenon DEF Outcome
  <1>22. DataAt(g, q, c)'
    <2>1. Taken(g)' >= 0 /\ c[1] = Taken(g)'
      BY <1>7, <1>10
    <2> QED BY <2>1, <1>10, <1>11, <1>14, <1>15, Zenon DEF DataAt
  <1>23. L = job'.level
    BY <1>3, <1>5
  <1>24. DataInv'
    BY <1>9, <1>12, <1>13, <1>15, <1>16, <1>17, <1>22, <1>23, DataBuild
  <1> QED BY <1>22, <1>24

(* So the invariant holds when a batch has been read.                      *)
LEMMA BatchData ==
  ASSUME DataInv, BatchRead
  PROVE  DataInv'
  <1>1. ~idle
    <2>1. ControlInv
      BY Zenon DEF DataInv
    <2> QED BY <2>1, BatchFacts
  <1>2. \E g, q \in Nat : \E L \in Nat : L = job.level /\ \E c \in [1..L -> Nat] :
          DataAt(g, q, c)
    BY <1>1, DataParts
  <1>3. PICK g \in Nat, q \in Nat, L \in Nat : L = job.level /\ \E c \in [1..L -> Nat] :
             DataAt(g, q, c)
    BY <1>2, Zenon
  <1>4. PICK c \in [1..L -> Nat] : DataAt(g, q, c)
    BY <1>3, Zenon
  <1> QED BY <1>3, <1>4, BatchAt, Zenon

(* A clock edge within a round.                                            *)
LEMMA PlainAt ==
  ASSUME DataInv, ~idle, ~all_stage_done, Tick,
         NEW g \in Nat, NEW q \in Nat, NEW L \in Nat, L = job.level,
         NEW c \in [1..L -> Nat], DataAt(g, q, c)
  PROVE  DataInv' /\ DataAt(g, q, c)'
  <1>2. ControlInv
    BY Zenon DEF DataInv
  <1>3. /\ ~idle' /\ job' = job /\ status' = status /\ n' = n
        /\ rb_status' = rb_status /\ stall' = stall
        /\ s2_due' = s2_due /\ s4_due' = s4_due
        /\ Entered' = Entered
        /\ (write_uram' <=> write_uram) /\ write_uram_cnt' = write_uram_cnt
        /\ (reduce_trace' <=> reduce_trace \/ n[8] = job.level)
        /\ Clock(FALSE)
    BY <1>2, PlainFacts
  <1>4. /\ ControlInv /\ Outcome /\ Shaped /\ Small
        /\ Modes /\ EdgesRight /\ DpRight /\ UramRight /\ StageModes
        /\ Registers /\ RoundsApart /\ Levels /\ Ends /\ ReaderRight /\ NoBubble
    BY <1>3, DataParts
  <1>5. L = job.level
    OBVIOUS
  <1>7. /\ GroupsInOrder(g, q) /\ Taken(g) >= 0
        /\ PreRight(g, q) /\ LeafRight(g)
        /\ c[1] = Taken(g) /\ Tally(c)
        /\ StagesRight(c) /\ RedbufRight(c)
    BY Zenon DEF DataAt
  <1>8. L = job.level /\ L \in 1..MaxN /\ MaxN \in Nat
    <2>1. job \in Jobs
      BY <1>4 DEF Registers
    <2> QED BY <2>1, <1>5, JobFacts
  <1>9. ControlInv'
    BY <1>2, PlainKeeps
  <1>10. GroupsInOrder(g, q)' /\ Taken(g)' = Taken(g)
    <2>1. rd = "idle" => rd' = "idle"
      BY <1>2, PlainReader
    <2> QED BY <2>1, <1>3, <1>7, SameFront
  <1>11. Tally(c)'
    BY <1>3, <1>4, <1>7, <1>8, SameTree
  <1>12. Modes' /\ EdgesRight' /\ UramRight' /\ DpRight'
    BY <1>4, PlainModes, PlainEdges, PlainUram, PlainDp
  <1>13. StageModes'
    BY <1>3, <1>4, <1>7, <1>8, PlainStageModes
  <1>14. PreRight(g, q)' /\ LeafRight(g)'
    <2>1. /\ PreRight(g, q)'
          /\ ~done[4] \/ o_start(4) => pre' = pre
      BY <1>4, <1>7, PlainPre
    <2> QED BY <2>1, <1>4, <1>7, <1>10, PlainLeaf
  <1>15. StagesRight(c)' /\ RedbufRight(c)'
    BY <1>4, <1>7, PlainStages, PlainRedbuf
  <1>16. Shaped' /\ Small'
    BY <1>3, <1>4, ClockShapes
  <1>17. Outcome'
    <2>1. ~wr' /\ ~ap_idle'
      BY <1>3, <1>9 DEF ControlInv, Ends
    <2>2. data_size_batches' = data_size_batches /\ data_size_batches \in Nat
      <3>1. job \in Jobs
        BY <1>4 DEF Registers
      <3>2. data_size_batches = GroupStart(Groups) /\ Groups \in Nat
        BY <3>1, JobFacts
      <3>3. GroupStart(Groups) \in Nat
        BY <3>1, <3>2, Counting
      <3> QED BY <3>2, <3>3, <1>3 DEF data_size_batches
    <2>3. batches' = IF rd = "idle" THEN 0 ELSE batches
      BY <1>2, PlainReader
    <2>4. batches \in 0..data_size_batches
      BY <1>4, Zenon DEF Outcome
    <2>5. batches' \in 0..data_size_batches'
      BY <2>2, <2>3, <2>4
    <2> QED BY <2>1, <2>5, <1>3, Zenon DEF Outcome
  <1>22. DataAt(g, q, c)'
    <2>1. Taken(g)' >= 0 /\ c[1] = Taken(g)'
      BY <1>7, <1>10
    <2> QED BY <2>1, <1>10, <1>11, <1>14, <1>15, Zenon DEF DataAt
  <1>23. L = job'.level
    BY <1>3, <1>8
  <1>24. DataInv'
    BY <1>9, <1>12, <1>13, <1>16, <1>17, <1>22, <1>23, DataBuild
  <1> QED BY <1>22, <1>24

(* So the invariant holds after an edge within a round.                    *)
LEMMA PlainData ==
  ASSUME DataInv, ~idle, ~all_stage_done, Tick
  PROVE  DataInv'
  <1>1. ~idle
    OBVIOUS
  <1>2. \E g, q \in Nat : \E L \in Nat : L = job.level /\ \E c \in [1..L -> Nat] :
          DataAt(g, q, c)
    BY <1>1, DataParts
  <1>3. PICK g \in Nat, q \in Nat, L \in Nat : L = job.level /\ \E c \in [1..L -> Nat] :
             DataAt(g, q, c)
    BY <1>2, Zenon
  <1>4. PICK c \in [1..L -> Nat] : DataAt(g, q, c)
    BY <1>3, Zenon
  <1> QED BY <1>3, <1>4, PlainAt, Zenon

(* The clock edge that ends a round.                                       *)
LEMMA RoundAt ==
  ASSUME DataInv, ~idle, all_stage_done, Tick, ~o_mvp_done,
         NEW g \in Nat, NEW q \in Nat, NEW L \in Nat, L = job.level,
         NEW c \in [1..L -> Nat], DataAt(g, q, c)
  PROVE  /\ DataInv'
         /\ \E h, p \in Nat, d \in [1..L -> Nat] : DataAt(h, p, d)' /\ Grown(c, d)
  <1>4. /\ ControlInv /\ Outcome /\ Shaped /\ Small
        /\ Modes /\ EdgesRight /\ DpRight /\ UramRight /\ StageModes
        /\ Registers /\ RoundsApart /\ Levels /\ Ends /\ ReaderRight /\ NoBubble
    BY DataParts
  <1>5. L = job.level
    OBVIOUS
  <1>7. /\ GroupsInOrder(g, q) /\ Taken(g) >= 0
        /\ PreRight(g, q) /\ LeafRight(g)
        /\ c[1] = Taken(g) /\ Tally(c)
        /\ StagesRight(c) /\ RedbufRight(c)
    BY Zenon DEF DataAt
  <1>8. Round
    BY <1>4, Zenon DEF Round
  <1>9. ControlInv'
    BY <1>4, RoundKeeps
  <1>10. PICK h \in Nat, p \in Nat, d \in [1..L -> Nat] :
           /\ GroupsInOrder(h, p)' /\ Taken(h)' >= 0
           /\ d[1] = Taken(h)' /\ Tally(d)'
           /\ Grown(c, d)
           /\ Taken(h)' = Taken(g) + Num(LeafMoves)
    <2>1. /\ Round /\ Levels /\ NoBubble /\ GroupsInOrder(g, q) /\ Taken(g) >= 0
          /\ L = job.level /\ c[1] = Taken(g) /\ Tally(c)
      BY <1>4, <1>5, <1>7, <1>8, Zenon
    <2>2. ~o_mvp_done =>
              \E g2, q2 \in Nat, d \in [1..L -> Nat] :
                /\ GroupsInOrder(g2, q2)' /\ Taken(g2)' >= 0
                /\ d[1] = Taken(g2)' /\ Tally(d)'
                /\ Grown(c, d)
                /\ Taken(g2)' = Taken(g) + Num(LeafMoves)
      BY <2>1, RoundTally
    <2> QED BY <2>2, Zenon
  <1>11. /\ L \in 1..MaxN /\ MaxN \in Nat
         /\ c[L] # 0 => ~status[4]
    BY <1>4, <1>5, <1>7, TreeFacts
  <1>12. Modes' /\ EdgesRight' /\ UramRight' /\ DpRight'
    BY <1>4, <1>7, <1>8, RoundModes, RoundEdges, RoundUram, RoundDp
  <1>13. StageModes'
    BY <1>4, <1>5, <1>7, <1>8, <1>11, RoundStageModes
  <1>14. PreRight(h, p)' /\ LeafRight(h)'
    <2>1. /\ PreRight(h, p)'
          /\ o_start(4)' => pre'.mext = TheGroup(Group4(h)')
      BY <1>4, <1>7, <1>8, <1>10, RoundPre
    <2>2. Taken(g) \in Nat
      BY <1>4, <1>7, FrontBound
    <2> QED BY <2>1, <2>2, <1>4, <1>7, <1>8, <1>10, RoundLeaf
  <1>15. StagesRight(d)' /\ RedbufRight(d)'
    BY <1>4, <1>5, <1>7, <1>8, <1>10, <1>11, RoundStages, RoundRedbuf
  <1>3. /\ job' = job /\ rd' = rd /\ (rd # "idle" => batches' = batches)
        /\ Clock(FALSE) /\ ~idle'
    BY <1>8, RoundRegisters, RoundFacts
  <1>16. Shaped' /\ Small'
    BY <1>3, <1>4, ClockShapes
  <1>17. Outcome'
    <2>1. ~wr' /\ ~ap_idle'
      BY <1>3, <1>9 DEF ControlInv, Ends
    <2>2. data_size_batches' = data_size_batches /\ data_size_batches \in Nat
      BY <1>8, RoundEntered
    <2>3. batches' = IF rd = "idle" THEN 0 ELSE batches
      BY <1>3 DEF Clock, ClockReader
    <2>4. batches \in 0..data_size_batches
      BY <1>4, Zenon DEF Outcome
    <2>5. batches' \in 0..data_size_batches'
      BY <2>2, <2>3, <2>4
    <2> QED BY <2>1, <2>5, <1>3, Zenon DEF Outcome
  <1>22. DataAt(h, p, d)'
    BY <1>10, <1>14, <1>15, Zenon DEF DataAt
  <1>23. L = job'.level
    BY <1>3, <1>5
  <1>24. DataInv'
    BY <1>9, <1>12, <1>13, <1>16, <1>17, <1>22, <1>23, DataBuild
  <1> QED BY <1>10, <1>22, <1>24, Zenon

(* So the invariant holds after the edge that ends a round.                *)
LEMMA RoundData ==
  ASSUME DataInv, ~idle, all_stage_done, Tick, ~o_mvp_done
  PROVE  DataInv'
  <1>1. ~idle
    OBVIOUS
  <1>2. \E g, q \in Nat : \E L \in Nat : L = job.level /\ \E c \in [1..L -> Nat] :
          DataAt(g, q, c)
    BY <1>1, DataParts
  <1>3. PICK g \in Nat, q \in Nat, L \in Nat : L = job.level /\ \E c \in [1..L -> Nat] :
             DataAt(g, q, c)
    BY <1>2, Zenon
  <1>4. PICK c \in [1..L -> Nat] : DataAt(g, q, c)
    BY <1>3, Zenon
  <1> QED BY <1>3, <1>4, RoundAt, Zenon

(* The clock edge that ends the run: the last trip is in entry 0 of the    *)
(* reduce buffer and the writer starts.                                    *)
LEMMA LastData ==
  ASSUME DataInv, ~idle, all_stage_done, Tick, o_mvp_done
  PROVE  DataInv'
  <1>4. /\ ControlInv /\ Outcome /\ Shaped /\ Small
        /\ Modes /\ EdgesRight /\ DpRight /\ UramRight /\ StageModes
        /\ Registers /\ RoundsApart /\ Levels /\ Ends /\ ReaderRight /\ NoBubble
        /\ \E g, q \in Nat : \E L \in Nat : L = job.level /\ \E c \in [1..L -> Nat] :
             DataAt(g, q, c)
    BY DataParts
  <1>5. PICK g \in Nat, q \in Nat, L \in Nat : L = job.level /\ \E c \in [1..L -> Nat] :
             DataAt(g, q, c)
    BY <1>4, Zenon
  <1>6. PICK c \in [1..L -> Nat] : DataAt(g, q, c)
    BY <1>5, Zenon
  <1>7. /\ GroupsInOrder(g, q) /\ Taken(g) >= 0
        /\ c[1] = Taken(g) /\ Tally(c) /\ RedbufRight(c)
    BY <1>6, Zenon DEF DataAt
  <1>8. Round
    BY <1>4, Zenon DEF Round
  <1>9. ControlInv'
    BY <1>4, RoundKeeps
  <1>10. c[L] # 0
    <2>1. Levels /\ NoBubble
      BY <1>4, Zenon
    <2>2. L = job.level
      BY <1>5, Zenon
    <2> QED BY <1>7, <1>8, <2>1, <2>2, RoundTally, Zenon
  <1>11. /\ L \in 1..MaxN /\ MaxN \in Nat
         /\ \A k \in 1..(L - 1) : ~rb_status[k]
         /\ \E s \in 5..9, m \in L..MaxN : Root(s, m)
    BY <1>4, <1>5, <1>7, <1>10, TreeFacts
  <1>12. n[9] = MaxN /\ n[8] = 0
    <2>1. n[9] = MaxN
      BY DEF o_mvp_done
    <2>2. PICK s \in 5..9, m \in L..MaxN : Root(s, m)
      BY <1>11
    <2>3. s = 9
      BY <2>1, <2>2, <1>4, <1>5, RootPlace
    <2>4. n[8] = 0
      <3>1. 8 \in (5..9) \ {s}
        BY <2>3
      <3> QED BY <3>1, <2>2, <2>3 DEF Root
    <2> QED BY <2>1, <2>4
  <1>13. /\ idle' /\ wr' /\ ap_idle' = ap_idle /\ redbuf' = redbuf
         /\ done[9] /\ Clock(FALSE)
    <2>1. /\ Clock(FALSE) /\ (idle' <=> o_mvp_done) /\ (wr' <=> wr \/ o_mvp_done)
          /\ ap_idle' = ap_idle /\ redbuf' = redbuf
          /\ \A s \in 1..10 : done[s]
      BY <1>8, RoundFacts
    <2>2. 9 \in 1..10
      OBVIOUS
    <2> QED BY <2>1, <2>2, Zenon
  <1>14. /\ job' = job /\ ~start_pulse /\ (stall' <=> stall_nxt)
    BY <1>8, RoundRegisters
  <1>15. ~stall'
    <2>1. ~rb_status[0]
      BY <1>4 DEF Levels
    <2>2. ~rb_status[n[8]]
      BY <2>1, <1>12, Zenon
    <2> QED BY <2>2, <1>14, Zenon DEF stall_nxt
  <1>16. \A k \in 1..(job'.level - 1) : ~rb_status'[k]
    <2> SUFFICES ASSUME NEW k \in 1..(L - 1) PROVE ~rb_status'[k]
      BY <1>5, <1>14
    <2>1. k \in 0..MaxN
      BY <1>11
    <2>2. \A i \in 0..MaxN :
              rb_status'[i] <=> IF i = n[8] /\ n[8] # 0 THEN ~stall_nxt
                                ELSE rb_status[i]
      BY <1>4, <1>8, RoundLevels
    <2> QED BY <2>1, <2>2, <1>11, <1>12
  <1>17. redbuf'[0] = Made(MaxN, 0, 3)'
    <2>1. redbuf[0] = Made(MaxN, 0, 3)
      BY <1>7, <1>12, <1>13, <1>14, Zenon DEF RedbufRight
    <2>2. Made(MaxN, 0, 3)' = Made(MaxN, 0, 3)
      BY <1>14, MadeStill
    <2> QED BY <2>1, <2>2, <1>13, Zenon
  <1>18. ~ap_idle'
    BY <1>4, <1>13 DEF Ends
  <1>19. batches' \in 0..data_size_batches'
    <2>2. data_size_batches' = data_size_batches /\ data_size_batches \in Nat
      BY <1>8, RoundEntered
    <2>3. batches' = IF rd = "idle" THEN 0 ELSE batches
      BY <1>13 DEF Clock, ClockReader
    <2>4. batches \in 0..data_size_batches
      BY <1>4, Zenon DEF Outcome
    <2> QED BY <2>2, <2>3, <2>4
  <1>20. Outcome'
    BY <1>13, <1>15, <1>16, <1>17, <1>18, <1>19, Zenon DEF Outcome
  <1>21. Shaped' /\ Small'
    BY <1>13, <1>4, ClockShapes
  <1> QED BY <1>9, <1>13, <1>20, <1>21, Zenon DEF DataInv

(* A clock edge between two runs.                                          *)
LEMMA IdleData ==
  ASSUME DataInv, idle, Tick
  PROVE  DataInv'
  <1>1. ControlInv /\ Outcome /\ Shaped /\ Small
    BY Zenon DEF DataInv
  <1>2. /\ idle' /\ job' = job /\ (wr' <=> wr) /\ ap_idle' = ap_idle
        /\ starts' = starts /\ out' = out /\ rb_status' = rb_status
        /\ (stall' => stall) /\ batches' = 0 /\ Clock(FALSE)
    BY <1>1, IdleFacts
  <1>3. ControlInv'
    BY <1>1, IdleKeeps
  <1>4. Shaped' /\ Small'
    BY <1>1, <1>2, ClockShapes
  <1>5. redbuf' = redbuf
    BY <1>2, ClockData
  <1>6. Made(MaxN, 0, 3)' = Made(MaxN, 0, 3)
    BY <1>2, MadeStill
  <1>7. batches' \in 0..data_size_batches'
    <2>1. job \in Jobs
      BY <1>1 DEF ControlInv, Registers
    <2>2. data_size_batches = GroupStart(Groups) /\ Groups \in Nat
      BY <2>1, JobFacts
    <2>3. GroupStart(Groups) \in Nat
      BY <2>1, <2>2, Counting
    <2>4. data_size_batches' = data_size_batches
      BY <1>2 DEF data_size_batches
    <2> QED BY <2>2, <2>3, <2>4, <1>2
  <1>8. Outcome'
    BY <1>1, <1>2, <1>5, <1>6, <1>7, Zenon DEF Outcome
  <1> QED BY <1>2, <1>3, <1>4, <1>8, Zenon DEF DataInv

(* The number of batches of the run that begins is a number.               *)
LEMMA SizeOfJob ==
  ASSUME NEW j \in Jobs, job' = j
  PROVE  data_size_batches' \in Nat
  <1>1. j.level \in Nat /\ j.split \in Nat /\ j.index \in Nat /\ j.index > 0
    BY JobsAssumption
  <1> DEFINE a == 2^j.level
  <1>2. a \in Nat
    BY <1>1, NatPower
  <1>3. data_size_batches' = (a * j.split) \div (2 * j.index) + j.split
    BY DEF data_size_batches
  <1> HIDE DEF a
  <1> DEFINE b == a * j.split
             e == 2 * j.index
  <1>4. b \in Nat /\ e \in Nat /\ e > 0
    BY <1>1, <1>2
  <1>5. data_size_batches' = b \div e + j.split
    BY <1>3
  <1> HIDE DEF b, e
  <1>6. b \div e \in Nat
    BY <1>4
  <1> QED BY <1>1, <1>5, <1>6

(* The clock edge that starts a run.                                       *)
LEMMA StartData ==
  ASSUME DataInv, NEW j \in Jobs, Start(j)
  PROVE  DataInv'
  <1>1. ControlInv /\ Outcome /\ Shaped /\ Small
    BY Zenon DEF DataInv
  <1>2. /\ idle /\ ~idle' /\ batches' = 0 /\ ~ap_idle' /\ ~wr' /\ Clock(TRUE)
    BY <1>1, StartFacts
  <1>3. ControlInv'
    BY <1>1, StartKeeps
  <1>4. Shaped' /\ Small'
    BY <1>1, <1>2, ClockShapes
  <1>5. job' \in Jobs
    BY <1>3 DEF ControlInv, Registers
  <1>6. Outcome'
    <2>1. job' = j /\ j \in Jobs
      BY Zenon DEF Start
    <2>2. data_size_batches' \in Nat
      BY <2>1, SizeOfJob
    <2>3. batches' \in 0..data_size_batches'
      BY <2>2, <1>2
    <2> QED BY <2>3, <1>2, Zenon DEF Outcome
  <1>7. ~stall
    BY <1>1, <1>2, Zenon DEF Outcome
  <1>8. Modes' /\ EdgesRight' /\ DpRight' /\ UramRight'
    BY <1>1, StartModes, StartDp
  <1>9. RunInOrder'
    BY <1>2, <1>3, Zenon DEF ControlInv, Running
  <1>10. PICK g \in Nat, q \in Nat :
           /\ GroupsInOrder(g, q)' /\ Taken(g)' >= 0
           /\ \E c \in [1..job'.level -> Nat] : c[1] = Taken(g)' /\ Tally(c)'
    BY <1>9, Zenon DEF RunInOrder
  <1>11. PICK c \in [1..job'.level -> Nat] : c[1] = Taken(g)' /\ Tally(c)'
    BY <1>10, Zenon
  <1>12. PreRight(g, q)' /\ LeafRight(g)'
    BY <1>1, StartFront
  <1>13. StageModes' /\ StagesRight(c)' /\ RedbufRight(c)'
    BY <1>1, <1>7, StartTree
  <1>14. DataAt(g, q, c)'
    BY <1>10, <1>11, <1>12, <1>13, Zenon DEF DataAt
  <1>15. PICK L \in Nat : L = job'.level
    <2>1. job' = j /\ j.level \in Nat
      BY JobsAssumption DEF Start
    <2> QED BY <2>1
  <1>16. c \in [1..L -> Nat]
    BY <1>11, <1>15
  <1> QED BY <1>3, <1>4, <1>6, <1>8, <1>13, <1>14, <1>15, <1>16, DataBuild

(* The writer has sent entry 0 of the reduce buffer.                       *)
LEMMA WriteData ==
  ASSUME DataInv, WriteDone
  PROVE  DataInv'
  <1>1. ControlInv /\ Outcome /\ Shaped /\ Small
    BY Zenon DEF DataInv
  <1>2. /\ wr /\ ~wr' /\ out' = redbuf[o_uram_index] /\ ap_idle'
        /\ job' = job /\ batches' = batches /\ idle' = idle /\ stall' = stall
        /\ rb_status' = rb_status /\ starts' = starts
        /\ dp' = dp /\ uram' = uram /\ pre' = pre /\ leaf' = leaf
        /\ pp1' = pp1 /\ pp2' = pp2 /\ redbuf' = redbuf
    BY DEF WriteDone, control, stalls, buffers
  <1>3. idle
    BY <1>1, <1>2, Zenon DEF ControlInv, Ends
  <1>4. o_uram_index = 0
    BY <1>3 DEF o_uram_index
  <1>5. Made(MaxN, 0, 3)' = Made(MaxN, 0, 3)
    BY <1>2, MadeStill
  <1>6. out' = Made(MaxN, 0, 3)
    <2>1. redbuf[0] = Made(MaxN, 0, 3)
      BY <1>1, <1>2, Zenon DEF Outcome
    <2> QED BY <2>1, <1>2, <1>4
  <1>7. data_size_batches' = data_size_batches
    BY <1>2 DEF data_size_batches
  <1>8. Outcome'
    BY <1>1, <1>2, <1>3, <1>5, <1>6, <1>7, Zenon DEF Outcome
  <1>9. Shaped' /\ Small'
    BY <1>1, <1>2, Zenon DEF Shaped, Small
  <1>10. ControlInv'
    BY <1>1, WriteKeeps
  <1> QED BY <1>2, <1>3, <1>8, <1>9, <1>10, Zenon DEF DataInv

(* The initial state.                                                      *)
LEMMA InitData == Init => DataInv
  <1> SUFFICES ASSUME Init PROVE DataInv
    OBVIOUS
  <1>1. ControlInv
    BY InitControl
  <1>2. /\ idle = TRUE /\ stall = FALSE /\ wr = FALSE /\ ap_idle = TRUE /\ starts = 0
        /\ batches = 0 /\ rb_status = [k \in 0..MaxN |-> FALSE]
        /\ dp   = [axi |-> NoBatch, ntt |-> NoBatch, madd |-> NoBatch]
        /\ uram = [v \in 0..3 |-> NoBatch]
        /\ pre  = [madd |-> NoGroup, intt |-> NoGroup, mext |-> NoGroup]
        /\ leaf = [mext |-> NoLeaf, mux |-> NoLeaf]
        /\ pp1 = [a |-> NoBlock, b |-> NoBlock, c |-> NoBlock]
        /\ pp2 = [a |-> NoBlock, b |-> NoBlock, c |-> NoBlock]
        /\ redbuf = [k \in 0..(MaxN - 1) |-> NoBlock]
    BY DEF Init, ControlReset
  <1>3. job \in Jobs
    BY DEF Init
  <1>4. MaxN \in Nat /\ job.level \in 1..MaxN
    BY <1>3, JobFacts
  <1>5. \A k \in 1..(job.level - 1) : ~rb_status[k]
    BY <1>2, <1>4
  <1>6. batches \in 0..data_size_batches
    <2>2. data_size_batches = GroupStart(Groups) /\ Groups \in Nat
      BY <1>3, JobFacts
    <2>3. GroupStart(Groups) \in Nat
      BY <1>3, <2>2, Counting
    <2> QED BY <2>2, <2>3, <1>2
  <1>7. ~(starts > 0)
    BY <1>2
  <1>8. Outcome
    BY <1>2, <1>5, <1>6, <1>7, Zenon DEF Outcome
  <1>9. Shaped
    BY <1>2 DEF Shaped
  <1>10. Small
    <2>1. Cardinality({}) = 0
      BY FS_EmptySet
    <2>2. 0 <= 2^(MaxN - 1)
      <3>1. MaxN - 1 \in Nat
        BY <1>4
      <3>2. 2^(MaxN - 1) \in Nat
        BY <3>1, NatPower
      <3> QED BY <3>2
    <2>3. 0 <= 4
      OBVIOUS
    <2>4. \A u \in {"madd", "intt", "mext"} : pre[u].prods = {}
      BY <1>2 DEF NoGroup, Group
    <2>5. \A u \in {"a", "b", "c"} : pp1[u].leaves = {} /\ pp2[u].leaves = {}
      BY <1>2 DEF NoBlock, Block
    <2> QED BY <2>1, <2>2, <2>3, <2>4, <2>5, Zenon DEF Small
  <1> QED BY <1>1, <1>2, <1>8, <1>9, <1>10, Zenon DEF DataInv

(* A step that changes nothing.                                            *)
LEMMA StutterData ==
  ASSUME DataInv, UNCHANGED vars
  PROVE  DataInv'
  <1>1. /\ job' = job /\ done' = done /\ rd' = rd /\ batches' = batches
        /\ wr' = wr /\ ap_idle' = ap_idle /\ starts' = starts /\ out' = out
        /\ idle' = idle /\ delay' = delay /\ start_pulse' = start_pulse
        /\ reduce_trace' = reduce_trace /\ stall' = stall /\ stall_s2' = stall_s2
        /\ stall_s4' = stall_s4 /\ stall_s0s1s2' = stall_s0s1s2
        /\ stall_s3s4' = stall_s3s4 /\ status' = status /\ n' = n
        /\ rb_status' = rb_status /\ s2_cnt' = s2_cnt /\ s4_cnt' = s4_cnt
        /\ write_uram' = write_uram /\ write_uram_cnt' = write_uram_cnt
        /\ dp' = dp /\ uram' = uram /\ pre' = pre /\ leaf' = leaf /\ pp1' = pp1
        /\ pp2' = pp2 /\ redbuf' = redbuf /\ edges' = edges
    BY DEF vars, control, stalls, counts, buffers
  <1>2. /\ ControlInv /\ Outcome /\ Shaped /\ Small
        /\ ~idle => /\ Modes /\ EdgesRight /\ DpRight /\ UramRight
                    /\ StageModes /\ DataRight
    BY Zenon DEF DataInv
  <1>3. ControlInv'
    BY <1>2, NextControl
  <1>4. Shaped' /\ Small'
    BY <1>1, <1>2, Zenon DEF Shaped, Small
  <1>5. Made(MaxN, 0, 3)' = Made(MaxN, 0, 3) /\ data_size_batches' = data_size_batches
    <2>1. data_size_batches' = data_size_batches
      BY <1>1 DEF data_size_batches
    <2> QED BY <2>1, <1>1, MadeStill
  <1>6. Outcome'
    BY <1>1, <1>2, <1>5, Zenon DEF Outcome
  <1>7. \A s : o_start(s)' <=> o_start(s)
    BY <1>1, Zenon DEF o_start, WrUram
  <1>8. /\ Entered' = Entered /\ Passed' = Passed
        /\ s2_due' = s2_due /\ s4_due' = s4_due
    <2>1. Entered' = Entered
      BY <1>1, <1>5, <1>7, Zenon DEF Entered, Num
    <2>2. Passed' = Passed
      BY <2>1, <1>1, Zenon DEF Passed, Num
    <2>3. s2_due' = s2_due /\ s4_due' = s4_due
      BY <1>1, <1>7, Zenon DEF s2_due, s4_due, CountTo
    <2> QED BY <2>1, <2>2, <2>3
  <1>9. /\ (DpDone' <=> DpDone) /\ (LeafDone' <=> LeafDone) /\ (FrontGoes' <=> FrontGoes)
        /\ (o_pre_tpp_switch' <=> o_pre_tpp_switch)
    BY <1>1, <1>7, Zenon DEF DpDone, LeafDone, FrontGoes, o_mux_s5_mode, o_pre_tpp_switch, WrUram
  <1>10. ~idle => Modes' /\ EdgesRight' /\ StageModes'
    <2>1. ~idle => Modes'
      BY <1>1, <1>2, <1>7, <1>8, <1>9, Zenon DEF Modes, WrUram
    <2>2. ~idle => EdgesRight'
      BY <1>1, <1>2, <1>7, <1>8, <1>9, Zenon DEF EdgesRight
    <2>3. ~idle => StageModes'
      BY <1>1, <1>2, Zenon DEF StageModes
    <2> QED BY <2>1, <2>2, <2>3
  <1>11. ~idle => DpRight' /\ UramRight'
    <2>1. Behind1' = Behind1 /\ Behind0' = Behind0
      BY <1>1, <1>8, Zenon DEF Behind1, Behind0, Num
    <2>2. ~idle => DpRight'
      BY <2>1, <1>1, <1>2, <1>7, <1>8, <1>9, Zenon DEF DpRight, DpTurned, Batch
    <2>3. Stored' = Stored
      BY <1>1, <1>8, Zenon DEF Stored, Num, WrUram
    <2>4. ~idle => UramRight'
      BY <2>3, <1>1, <1>2, Zenon DEF UramRight, Batch
    <2> QED BY <2>2, <2>4
  <1>12. ASSUME ~idle PROVE DataRight'
    <2>1. PICK g \in Nat, q \in Nat : \E c \in [1..job.level -> Nat] : DataAt(g, q, c)
      BY <1>2, <1>12, Zenon DEF DataRight
    <2>2. PICK c \in [1..job.level -> Nat] : DataAt(g, q, c)
      BY <2>1, Zenon
    <2>3. /\ GroupsInOrder(g, q) /\ Taken(g) >= 0
          /\ PreRight(g, q) /\ LeafRight(g)
          /\ c[1] = Taken(g) /\ Tally(c)
          /\ StagesRight(c) /\ RedbufRight(c)
      BY <2>2, Zenon DEF DataAt
    <2>4. GroupsInOrder(g, q)' /\ Taken(g)' = Taken(g)
      BY <1>1, <1>8, <2>3, SameFront
    <2>5. Tally(c)'
      <3>1. PICK L \in Nat : L = job.level
        <4>1. job \in Jobs
          BY <1>2 DEF ControlInv, Registers
        <4> QED BY <4>1, JobFacts
      <3>2. c \in [1..L -> Nat]
        BY <3>1
      <3>3. Registers
        BY <1>2, Zenon DEF ControlInv
      <3> QED BY <3>1, <3>2, <3>3, <1>1, <2>3, SameTree
    <2>6. PreRight(g, q)'
      BY <1>1, <1>7, <1>8, <1>9, <2>3, GroupStill DEF PreRight, PreTurned
    <2>7. LeafRight(g)'
      <3>1. Group4(g)' = Group4(g)
        BY <1>1, <1>8, Zenon DEF Group4, Num
      <3> QED BY <3>1, <1>1, <1>7, <1>9, <2>3, <2>4 DEF LeafRight, LeafTurned,
             o_mux_s5_mode, TheLeaf, TheGroup, Products, GroupStart
    <2>8. StagesRight(c)' /\ RedbufRight(c)'
      BY <1>1, <2>3, TreeStill
    <2>9. DataAt(g, q, c)'
      <3>1. Taken(g)' >= 0 /\ c[1] = Taken(g)'
        BY <2>3, <2>4
      <3> QED BY <3>1, <2>4, <2>5, <2>6, <2>7, <2>8, Zenon DEF DataAt
    <2>10. c \in [1..job'.level -> Nat]
      BY <1>1
    <2> QED BY <2>9, <2>10, Zenon DEF DataRight
  <1> QED BY <1>1, <1>2, <1>3, <1>4, <1>6, <1>10, <1>11, <1>12, Zenon DEF DataInv

(* Every step keeps the invariant.                                         *)
LEMMA NextData == DataInv /\ [Next]_vars => DataInv'
  <1> SUFFICES ASSUME DataInv, [Next]_vars PROVE DataInv'
    OBVIOUS
  <1>1. CASE Tick
    BY <1>1, RoundData, LastData, PlainData, IdleData
  <1>2. CASE \E j \in Jobs : Start(j)
    BY <1>2, StartData
  <1>3. CASE Work
    <2>1. CASE ~BatchRead /\ ~WriteDone
      BY <1>3, <2>1, WorkStages, StageData
    <2> QED BY <2>1, BatchData, WriteData
  <1>4. CASE UNCHANGED vars
    BY <1>4, StutterData
  <1> QED BY <1>1, <1>2, <1>3, <1>4 DEF Next

(* In every run, at every clock, each buffer holds the datum that the      *)
(* control takes it to hold.                                               *)
THEOREM DataAlwaysRight == Spec => []DataInv
  BY InitData, NextData, PTL DEF Spec

-----------------------------------------------------------------------------
(* What the invariant of the data says                                     *)

(* There are at most 2^(L-k) blocks of level k.                            *)
LEMMA PlaceBound ==
  ASSUME NEW L \in Nat, L = job.level, NEW c \in [1..L -> Nat], Tally(c),
         c[1] <= 2^(L - 1), NEW k \in 1..L
  PROVE  c[k] <= 2^(L - k)
  <1>1. \A i \in 1..(L - 1) : c[i] >= 2 * c[i + 1]
    <2> TAKE i \in 1..(L - 1)
    <2>1. c[i] = (InFlight(i) + Num(rb_status[i])) + 2 * c[i + 1]
      BY DEF Tally
    <2>2. InFlight(i) \in Nat /\ Num(rb_status[i]) \in Nat
      BY InFlightType, NumType
    <2>3. c[i] \in Nat /\ c[i + 1] \in Nat
      OBVIOUS
    <2> DEFINE x == InFlight(i)
               y == Num(rb_status[i])
    <2>4. x \in Nat /\ y \in Nat /\ c[i] = (x + y) + 2 * c[i + 1]
      BY <2>1, <2>2
    <2> HIDE DEF x, y
    <2> QED BY <2>3, <2>4
  <1>2. 1 \in 1..L /\ k - 1 \in Nat /\ 1 + (k - 1) = k /\ L - 1 \in Nat /\ L - k \in Nat
        /\ (L - 1) - (k - 1) = L - k /\ k - 1 <= L - 1 /\ 1 + (k - 1) <= L
    OBVIOUS
  <1>3. c[1] >= 2^(k - 1) * c[1 + (k - 1)]
    BY <1>1, <1>2, Doubling
  <1>4. 2^(L - 1) = 2^((L - 1) - (k - 1)) * 2^(k - 1)
    BY <1>2, PowersDivide
  <1> DEFINE p == 2^(k - 1)
             b == 2^(L - k)
             t == 2^(L - 1)
             a == c[k]
  <1>5. p \in Nat /\ p >= 1 /\ b \in Nat /\ t \in Nat /\ a \in Nat /\ c[1] \in Nat
    BY <1>2, NatPower
  <1>6. c[1] >= p * a /\ c[1] <= t /\ t = b * p
    BY <1>2, <1>3, <1>4
  <1> HIDE DEF p, b, t, a
  <1>7. a <= b
    <2> SUFFICES ASSUME a >= b + 1 PROVE FALSE
      BY <1>5
    <2>1. p * a \in Nat /\ b * p \in Nat
      BY <1>5
    <2>2. p * a >= p * (b + 1)
      BY <1>5
    <2>3. p * (b + 1) = b * p + p
      BY <1>5
    <2> DEFINE x == p * a
               y == b * p
    <2>4. x \in Nat /\ y \in Nat /\ x >= y + p /\ c[1] >= x /\ c[1] <= y
      BY <2>1, <2>2, <2>3, <1>6
    <2> HIDE DEF x, y
    <2> QED BY ONLY <2>4, <1>5, SMT
  <1> QED BY <1>7 DEF a, b

(* A block with a place among those of its level is one that the level     *)
(* packs.                                                                  *)
LEMMA InPacked ==
  ASSUME NEW L \in Nat, L = job.level, NEW k \in Nat, k >= 1, L >= 1, NEW i \in Nat,
         k < L => i < 2^(L - k), k >= L => i = 0
  PROVE  Cluster(k, i) \in Packed(Level(k))
  <1> DEFINE e == Level(k) - 1
             z == 2^e
  <1>1. e \in Nat /\ e <= L - 1 /\ L - 1 \in Nat
        /\ (L - 1) - e = IF k < L THEN L - k ELSE 0
    BY DEF Level
  <1>2. 2^(L - 1) \div 2^e = 2^((L - 1) - e)
    <2> HIDE DEF e
    <2> QED BY <1>1, PowersDivide
  <1>3. i < 2^((L - 1) - e)
    <2>1. CASE k < L
      BY <2>1, <1>1
    <2>2. CASE k >= L
      <3>1. (L - 1) - e = 0
        BY <1>1, <2>2
      <3>2. 2^((L - 1) - e) = 1
        BY <3>1, PowerZero
      <3> QED BY <3>2, <2>2
    <2> QED BY <2>1, <2>2
  <1>4. 2^((L - 1) - e) \in Nat
    <2>1. (L - 1) - e \in Nat
      BY <1>1
    <2> HIDE DEF e
    <2> QED BY <2>1, NatPower
  <1>5. i \in 0..((2^(job.level - 1) \div z) - 1)
    <2> DEFINE t == 2^((L - 1) - e)
    <2>1. t \in Nat /\ i < t
      BY <1>3, <1>4
    <2>2. 2^(job.level - 1) \div z = t
      BY <1>2, Zenon
    <2> HIDE DEF t
    <2> QED BY <2>1, <2>2
  <1> DEFINE F(b) == {TheLeaf(b * z + j) : j \in 0..(z - 1)}
  <1>6. Cluster(k, i) = F(i)
    BY Zenon DEF Cluster, Size
  <1>7. Packed(Level(k)) = {F(b) : b \in 0..((2^(job.level - 1) \div z) - 1)}
    BY Zenon DEF Packed
  <1> HIDE DEF z, F
  <1> QED BY <1>5, <1>6, <1>7, Zenon

(* A block in stages 6 to 9 has a place among those of its level.          *)
LEMMA IndexRange ==
  ASSUME Registers, Levels, NEW L \in Nat, L = job.level, L >= 1, NEW c \in [1..L -> Nat], Tally(c),
         c[1] <= 2^(L - 1), StageModes, NEW s \in 6..9, status[s]
  PROVE  Cluster(n[s], Index(c, s)) \in Packed(Level(n[s]))
  <1>1. MaxN \in Nat /\ n[s] \in Nat /\ n[s] >= 1 /\ n[5] \in Nat
    <2>1. job \in Jobs /\ n \in [5..9 -> 0..MaxN]
      BY DEF Registers
    <2>2. MaxN \in Nat
      BY <2>1, JobFacts
    <2>3. n[s] # 0
      BY DEF Levels
    <2>4. n[s] \in 0..MaxN /\ n[5] \in 0..MaxN
      BY <2>1, SMTT(60)
    <2> QED BY <2>2, <2>3, <2>4
  <1>2. PICK k \in Nat : k = n[s]
    BY <1>1
  <1>3. CASE k >= L
    <2>1. Index(c, s) = 0
      BY <1>2, <1>3 DEF Index
    <2>2. Cluster(k, 0) \in Packed(Level(k))
      BY <1>1, <1>2, <1>3, InPacked
    <2> QED BY <1>2, <2>1, <2>2, Zenon
  <1>4. CASE k < L
    <2>1. k \in 1..(L - 1) /\ k \in 1..L
      BY <1>1, <1>2, <1>4
    <2>2. c[k] <= 2^(L - k)
      BY <2>1, PlaceBound
    <2>3. c[k] = (InFlight(k) + Num(rb_status[k])) + 2 * c[k + 1]
      BY <2>1 DEF Tally
    <2>4. c[k] \in Nat /\ c[k + 1] \in Nat /\ Num(rb_status[k]) \in Nat
      BY <2>1, NumType
    <2>5. Index(c, s) \in Nat /\ Index(c, s) < c[k]
      <3>1. Index(c, s) = (c[k] - 1) - Behind(s, k)
        BY <1>2, <1>4 DEF Index
      <3>2. s = 6 \/ s = 7 \/ s = 8 \/ s = 9
        OBVIOUS
      <3>3. CASE s # 9
        <4> DEFINE a == Same(n[5], k)
                   b == Same(n[6], k)
                   d == Same(n[7], k)
                   e == Same(n[8], k)
                   r == Num(rb_status[k])
        <4>1. a \in Nat /\ b \in Nat /\ d \in Nat /\ e \in Nat /\ r \in Nat
          BY <2>4, SameType
        <4>2. InFlight(k) = ((a + b) + d) + e
          BY Zenon DEF InFlight
        <4>3. Behind(s, k) = IF s = 6 THEN a ELSE IF s = 7 THEN a + b ELSE (a + b) + d
          BY <3>2, <3>3 DEF Behind
        <4>4. (s = 6 => b = 1) /\ (s = 7 => d = 1) /\ (s = 8 => e = 1)
          BY <1>2 DEF Same
        <4>5. c[k] = ((((a + b) + d) + e) + r) + 2 * c[k + 1]
          BY <2>3, <4>2, Zenon
        <4> DEFINE x == Index(c, s)
                   w == Behind(s, k)
                   u == c[k]
                   v == c[k + 1]
        <4>6. x = (u - 1) - w /\ u = ((((a + b) + d) + e) + r) + 2 * v /\ u \in Nat /\ v \in Nat
          BY <3>1, <4>5, <2>4
        <4>7. \/ w = a /\ b = 1
              \/ w = a + b /\ d = 1
              \/ w = (a + b) + d /\ e = 1
          BY <3>2, <3>3, <4>3, <4>4, Zenon
        <4> HIDE DEF a, b, d, e, r, x, w, u, v
        <4>8. x \in Nat /\ x < u
          BY ONLY <4>1, <4>6, <4>7, SMT
        <4> QED BY <4>8 DEF x, u
      <3>4. CASE s = 9
        <4>1. Index(c, s) = (Num(rb_status[k]) + 2 * c[k + 1]) - 1
          BY <1>2, <2>1, <3>4, Places
        <4>2. rb_status[k] \/ c[k + 1] >= 1
          <5> SUFFICES ASSUME ~rb_status[k] PROVE c[k + 1] >= 1
            OBVIOUS
          <5>1. n[5] = k + 1
            <6>1. n[9] \in 1..(job.level - 1) => (stall <=> ~rb_status[n[9]])
              BY DEF StageModes
            <6>2. n[9] = k /\ n[9] \in 1..(job.level - 1)
              BY <1>2, <2>1, <3>4
            <6>3. stall
              BY <6>1, <6>2, Zenon
            <6> QED BY <6>2, <6>3 DEF StageModes
          <5>2. CASE k + 1 < L
            <6>1. k + 1 \in 1..(L - 1)
              BY <2>1, <5>2
            <6>2. c[k + 1] = (InFlight(k + 1) + Num(rb_status[k + 1])) + 2 * c[(k + 1) + 1]
              BY <6>1 DEF Tally
            <6> DEFINE a == Same(n[5], k + 1)
                       b == Same(n[6], k + 1)
                       d == Same(n[7], k + 1)
                       e == Same(n[8], k + 1)
                       r == Num(rb_status[k + 1])
                       y == c[(k + 1) + 1]
            <6>3. a \in Nat /\ b \in Nat /\ d \in Nat /\ e \in Nat /\ r \in Nat /\ y \in Nat
              BY <6>1, NumType, SameType, SMTT(60)
            <6>4. InFlight(k + 1) = ((a + b) + d) + e
              BY Zenon DEF InFlight
            <6>5. a = 1
              BY <5>1 DEF Same
            <6>6. c[k + 1] = ((((a + b) + d) + e) + r) + 2 * y
              BY <6>2, <6>4, Zenon
            <6> HIDE DEF a, b, d, e, r, y
            <6> QED BY <6>3, <6>5, <6>6
          <5>3. CASE k + 1 = L
            <6>1. c[L] # 0
              <7> SUFFICES ASSUME c[L] = 0 PROVE FALSE
                OBVIOUS
              <7>1. \A t \in 5..9 : n[t] < L
                BY DEF Tally
              <7>2. n[5] < L
                BY <7>1
              <7> QED BY <7>2, <5>1, <5>3
            <6> QED BY <6>1, <5>3, <2>4
          <5> QED BY <5>2, <5>3, <2>1
        <4>3. Num(rb_status[k]) = 1 \/ c[k + 1] >= 1
          BY <4>2 DEF Num
        <4>4. InFlight(k) \in Nat
          BY InFlightType
        <4> DEFINE r == Num(rb_status[k])
                   f == InFlight(k)
                   y == c[k + 1]
        <4>5. /\ Index(c, s) = (r + 2 * y) - 1 /\ (r = 1 \/ y >= 1) /\ r \in Nat /\ y \in Nat
              /\ f \in Nat /\ c[k] = (f + r) + 2 * y
          BY <4>1, <4>3, <4>4, <2>3, <2>4
        <4> HIDE DEF r, f, y
        <4> QED BY <4>5
      <3> QED BY <3>3, <3>4
    <2>6. PICK i \in Nat : i = Index(c, s)
      BY <2>5
    <2>7. i < 2^(L - k)
      <3>1. 2^(L - k) \in Nat
        BY <2>1, NatPower
      <3> DEFINE b == 2^(L - k)
      <3>2. b \in Nat /\ c[k] <= b /\ i < c[k] /\ c[k] \in Nat
        BY <3>1, <2>2, <2>4, <2>5, <2>6
      <3> HIDE DEF b
      <3>3. i < b
        BY <3>2
      <3> QED BY <3>3 DEF b
    <2>8. Cluster(k, i) \in Packed(Level(k))
      BY <2>1, <2>7, <1>4, InPacked
    <2> QED BY <1>2, <2>6, <2>8, Zenon
  <1> QED BY <1>2, <1>3, <1>4

(* What stages 6 to 9 hold is a whole block of its level, with the trips   *)
(* and the steps it should have by then.                                   *)
LEMMA BlocksRight == DataInv => BlocksWhole
  <1> SUFFICES ASSUME DataInv, NEW s \in 6..9, status[s]
               PROVE  /\ Held(s).leaves \in Packed(Level(n[s]))
                      /\ Held(s).trips =
                           [k \in 1..n[s] |-> IF k = n[s] /\ s <= 7
                                              THEN [TheTrip(k) EXCEPT !.key = NoKey]
                                              ELSE TheTrip(k)]
                      /\ Held(s).steps = s - 6 + (IF s \in {6, 8} /\ done[s] /\ ~start_pulse
                                                  THEN 1 ELSE 0)
    BY DEF BlocksWhole
  <1>1. ~idle
    <2>1. idle => Quiet
      BY Zenon DEF DataInv, ControlInv
    <2>2. s \in Stages
      BY DEF Stages
    <2> QED BY <2>1, <2>2, Zenon DEF Quiet
  <1>2. /\ Registers /\ RoundsApart /\ Levels /\ ReaderRight /\ NoBubble /\ StageModes
        /\ \E g, q \in Nat : \E L \in Nat : L = job.level /\ \E c \in [1..L -> Nat] :
             DataAt(g, q, c)
    BY <1>1, DataParts
  <1>3. PICK g \in Nat, q \in Nat, L \in Nat : L = job.level /\ \E c \in [1..L -> Nat] :
             DataAt(g, q, c)
    BY <1>2, Zenon
  <1>4. PICK c \in [1..L -> Nat] : DataAt(g, q, c)
    BY <1>3, Zenon
  <1>5. /\ GroupsInOrder(g, q) /\ Taken(g) >= 0
        /\ c[1] = Taken(g) /\ Tally(c) /\ StagesRight(c)
    BY <1>4, Zenon DEF DataAt
  <1>6. L \in 1..MaxN /\ MaxN \in Nat /\ c[1] <= 2^(L - 1)
    BY <1>2, <1>3, <1>5, TreeFacts
  <1>7. Cluster(n[s], Index(c, s)) \in Packed(Level(n[s]))
    <2>1. L = job.level /\ L >= 1
      BY <1>3, <1>6
    <2>2. Registers /\ Levels /\ Tally(c) /\ c[1] <= 2^(L - 1) /\ StageModes
      BY <1>2, <1>5, <1>6
    <2> QED BY <2>1, <2>2, IndexRange, Zenon
  <1>8. s = 6 \/ s = 7 \/ s = 8 \/ s = 9
    OBVIOUS
  <1> DEFINE x == Step(s)
  <1>9. x = IF done[s] /\ ~start_pulse THEN 1 ELSE 0
    BY DEF Step
  <1>10. CASE s \in {6, 7}
    <2>1. Held(s) = Open(n[s], Index(c, s), IF s = 6 THEN x ELSE 1)
      BY <1>5, <1>8, <1>10 DEF StagesRight
    <2>2. /\ Held(s).leaves = Cluster(n[s], Index(c, s)) /\ Held(s).trips = OpenTrips(n[s])
          /\ Held(s).steps = IF s = 6 THEN x ELSE 1
      BY <2>1 DEF Open, Block
    <2>3. s <= 7 /\ (s = 6 \/ s = 7)
      BY <1>10
    <2>4. OpenTrips(n[s]) = [k \in 1..n[s] |-> IF k = n[s] /\ s <= 7
                                              THEN [TheTrip(k) EXCEPT !.key = NoKey]
                                              ELSE TheTrip(k)]
      BY <2>3, Zenon DEF OpenTrips
    <2>5. (IF s = 6 THEN x ELSE 1) =
            s - 6 + (IF s \in {6, 8} /\ done[s] /\ ~start_pulse THEN 1 ELSE 0)
      BY <2>3, <1>9
    <2> QED BY <2>2, <2>4, <2>5, <1>7, Zenon
  <1>11. CASE s \in {8, 9}
    <2>1. Held(s) = Made(n[s], Index(c, s), IF s = 8 THEN 2 + x ELSE 3)
      BY <1>5, <1>8, <1>11 DEF StagesRight
    <2>2. /\ Held(s).leaves = Cluster(n[s], Index(c, s)) /\ Held(s).trips = Trips(n[s])
          /\ Held(s).steps = IF s = 8 THEN 2 + x ELSE 3
      BY <2>1 DEF Made, Block
    <2>3. ~(s <= 7) /\ (s = 8 \/ s = 9)
      BY <1>11
    <2>4. Trips(n[s]) = [k \in 1..n[s] |-> IF k = n[s] /\ s <= 7
                                              THEN [TheTrip(k) EXCEPT !.key = NoKey]
                                              ELSE TheTrip(k)]
      BY <2>3, Zenon DEF Trips
    <2>5. (IF s = 8 THEN 2 + x ELSE 3) =
            s - 6 + (IF s \in {6, 8} /\ done[s] /\ ~start_pulse THEN 1 ELSE 0)
      BY <2>3, <1>9
    <2> QED BY <2>2, <2>4, <2>5, <1>7, Zenon
  <1> QED BY <1>8, <1>10, <1>11

(* A block that rb_status announces is a block of its level: the next one  *)
(* that has no sibling yet.                                                *)
LEMMA RbStatusRight == DataInv => RbStatusTrue
  <1> SUFFICES ASSUME DataInv, NEW k \in 1..(job.level - 1), rb_status[k],
                      ~(status[9] /\ n[9] = k)
               PROVE  redbuf[k - 1].leaves \in Packed(k)
    BY DEF RbStatusTrue
  <1>1. ~idle
    BY Zenon DEF DataInv, Outcome
  <1>2. /\ Registers /\ RoundsApart /\ Levels /\ ReaderRight /\ NoBubble /\ StageModes
        /\ \E g, q \in Nat : \E L \in Nat : L = job.level /\ \E c \in [1..L -> Nat] :
             DataAt(g, q, c)
    BY <1>1, DataParts
  <1>3. PICK g \in Nat, q \in Nat, L \in Nat : L = job.level /\ \E c \in [1..L -> Nat] :
             DataAt(g, q, c)
    BY <1>2, Zenon
  <1>4. PICK c \in [1..L -> Nat] : DataAt(g, q, c)
    BY <1>3, Zenon
  <1>5. /\ GroupsInOrder(g, q) /\ Taken(g) >= 0
        /\ c[1] = Taken(g) /\ Tally(c) /\ RedbufRight(c)
    BY <1>4, Zenon DEF DataAt
  <1>6. L \in 1..MaxN /\ MaxN \in Nat /\ c[1] <= 2^(L - 1)
    BY <1>2, <1>3, <1>5, TreeFacts
  <1>7. k \in 1..(L - 1) /\ k \in 1..L /\ k + 1 \in 1..L /\ k \in Nat /\ k >= 1 /\ k < L
    BY <1>3
  <1>8. n[9] # k
    <2>1. status[9] <=> n[9] # 0
      BY <1>2 DEF Levels
    <2> QED BY <2>1, <1>7
  <1>9. redbuf[k - 1] = Made(k, 2 * c[k + 1], 3)
    BY <1>5, <1>8, Zenon DEF RedbufRight
  <1>10. redbuf[k - 1].leaves = Cluster(k, 2 * c[k + 1])
    BY <1>9 DEF Made, Block
  <1>11. 2 * c[k + 1] \in Nat /\ 2 * c[k + 1] < 2^(L - k)
    <2>1. c[k] <= 2^(L - k)
      BY <1>3, <1>5, <1>6, <1>7, PlaceBound
    <2>2. c[k] = (InFlight(k) + Num(rb_status[k])) + 2 * c[k + 1]
      BY <1>3, <1>5, <1>7 DEF Tally
    <2>3. InFlight(k) \in Nat /\ Num(rb_status[k]) = 1
      BY InFlightType DEF Num
    <2>4. 2^(L - k) \in Nat
      BY <1>7, NatPower
    <2> DEFINE f == InFlight(k)
               b == 2^(L - k)
               v == c[k + 1]
               u == c[k]
    <2>5. u <= b /\ u = (f + 1) + 2 * v /\ f \in Nat /\ b \in Nat /\ v \in Nat /\ u \in Nat
      BY <2>1, <2>2, <2>3, <2>4, <1>7
    <2> HIDE DEF f, b, v, u
    <2>6. 2 * v \in Nat /\ 2 * v < b
      BY ONLY <2>5, SMT
    <2> QED BY <2>6 DEF v, b
  <1>12. Level(k) = k
    BY <1>3, <1>7 DEF Level
  <1>13. PICK i \in Nat : i = 2 * c[k + 1]
    BY <1>11
  <1>14. Cluster(k, i) \in Packed(Level(k))
    BY <1>3, <1>6, <1>7, <1>11, <1>13, InPacked
  <1> QED BY <1>10, <1>12, <1>13, <1>14, Zenon

(* The block of level MaxN has every leaf and every trip.                  *)
LEMMA OutputRight == DataInv => OutputComplete
  <1> SUFFICES ASSUME DataInv, ap_idle, starts > 0
               PROVE  out = Block({TheLeaf(l) : l \in Leaves}, [k \in 1..MaxN |-> TheTrip(k)], 3)
    BY DEF OutputComplete
  <1>1. out = Made(MaxN, 0, 3)
    BY Zenon DEF DataInv, Outcome
  <1>2. MaxN \in Nat /\ job.level \in 1..MaxN
    <2>1. job \in Jobs
      BY DEF DataInv, ControlInv, Registers
    <2> QED BY <2>1, JobFacts
  <1>3. Level(MaxN) = job.level
    BY <1>2 DEF Level
  <1> DEFINE z == 2^(job.level - 1)
  <1>4. z \in Nat
    <2>1. job.level - 1 \in Nat
      BY <1>2
    <2> QED BY <2>1, NatPower
  <1>5. Size(MaxN) = z
    BY <1>3, Zenon DEF Size
  <1>6. Leaves = 0..(z - 1)
    BY Zenon DEF Leaves
  <1> HIDE DEF z
  <1>7. Cluster(MaxN, 0) = {TheLeaf(0 * z + j) : j \in 0..(z - 1)}
    BY <1>5, Zenon DEF Cluster
  <1>8. \A j \in 0..(z - 1) : 0 * z + j = j
    BY <1>4
  <1>9. Cluster(MaxN, 0) = {TheLeaf(l) : l \in Leaves}
    BY <1>6, <1>7, <1>8, Zenon
  <1> QED BY <1>1, <1>9, Zenon DEF Made, Trips

(* The registers and the buffers keep to their widths.                     *)
LEMMA PipelineTyped == DataInv => TypeOK
  <1> SUFFICES ASSUME DataInv PROVE TypeOK
    OBVIOUS
  <1>1. Registers /\ Outcome /\ Shaped /\ Small
    BY Zenon DEF DataInv, ControlInv
  <1>2. job \in Jobs
    BY <1>1 DEF Registers
  <1>3. /\ MaxN \in Nat /\ MaxN >= 1 /\ job.split \in 1..4
        /\ job.index \in Nat /\ job.index >= 1 /\ job.index <= 2^(MaxN - 1)
    BY <1>2, JobFacts
  <1>4. 2^(MaxN - 1) \in Nat
    <2>1. MaxN - 1 \in Nat
      BY <1>3
    <2> QED BY <2>1, NatPower
  <1>5. /\ s2_cnt \in 0..(job.split - 1) /\ s4_cnt \in 0..(job.index - 1)
        /\ write_uram_cnt \in 0..(job.split - 1)
    BY <1>1 DEF Registers
  <1>6. s2_cnt \in 0..3 /\ write_uram_cnt \in 0..3
    BY <1>3, <1>5
  <1>7. s4_cnt \in 0..(2^(MaxN - 1) - 1)
    <2> DEFINE t == 2^(MaxN - 1)
    <2>1. t \in Nat /\ job.index <= t
      BY <1>3, <1>4
    <2> HIDE DEF t
    <2>2. s4_cnt \in 0..(t - 1)
      BY <2>1, <1>3, <1>5
    <2> QED BY <2>2 DEF t
  <1>8. ControlTypeOK
    BY <1>1, <1>6, <1>7 DEF Registers, ControlTypeOK
  <1>9. /\ rd \in {"idle", "xfer", "halt"} /\ {wr, ap_idle} \subseteq BOOLEAN
        /\ starts \in 0..MaxStarts
    BY <1>1 DEF Registers
  <1>10. batches \in 0..data_size_batches
    BY <1>1, Zenon DEF Outcome
  <1>11. DOMAIN dp = {"axi", "ntt", "madd"} /\ DOMAIN pre = {"madd", "intt", "mext"}
         /\ DOMAIN pp1 = {"a", "b", "c"} /\ DOMAIN pp2 = {"a", "b", "c"}
    BY <1>1, Zenon DEF Shaped
  <1>12. \A u \in DOMAIN pre : Cardinality(pre[u].prods) <= 4
    BY <1>1, <1>11, Zenon DEF Small
  <1>13. \A p \in {pp1, pp2} : \A u \in DOMAIN p : Cardinality(p[u].leaves) <= 2^(MaxN - 1)
    <2>1. /\ \A u \in DOMAIN pp1 : Cardinality(pp1[u].leaves) <= 2^(MaxN - 1)
          /\ \A u \in DOMAIN pp2 : Cardinality(pp2[u].leaves) <= 2^(MaxN - 1)
      BY <1>1, <1>11, Zenon DEF Small
    <2> QED BY <2>1, Zenon
  <1> QED BY <1>8, <1>9, <1>10, <1>11, <1>12, <1>13, Zenon DEF TypeOK

(* Stage 2 has the batch and the vector split that belong together.        *)
LEMMA OperandsFollow == DataInv => OperandsMatch
  <1> SUFFICES ASSUME DataInv PROVE OperandsMatch
    OBVIOUS
  <1>1. ControlInv /\ (~idle => Modes /\ EdgesRight /\ DpRight /\ UramRight)
    BY Zenon DEF DataInv
  <1> QED BY <1>1, OperandsRight

(* Every register of the controller keeps its width and every buffer holds *)
(* data of its kind, for any ring degree, any jobs and any number of runs. *)
THEOREM PipelineTypeOK == Spec => []TypeOK
  BY DataAlwaysRight, PipelineTyped, PTL

(* While stage 2 multiplies, the batch in front of it and the vector split *)
(* that o_idx_split selects belong together and both are transformed,      *)
(* however the stages' finishing times fall.                               *)
THEOREM OperandsAlwaysMatch == Spec => []OperandsMatch
  BY DataAlwaysRight, OperandsFollow, PTL

(* No leaf is lost, repeated or packed with a stranger, and no step or key *)
(* of the key switch is left out, at any level of a tree of any height.    *)
THEOREM BlocksAlwaysWhole == Spec => []BlocksWhole
  BY DataAlwaysRight, BlocksRight, PTL

(* A set bit of rb_status always means that the reduce buffer holds a      *)
(* block of that level, or that stage 9 is about to write it.              *)
THEOREM RbStatusAlwaysTrue == Spec => []RbStatusTrue
  BY DataAlwaysRight, RbStatusRight, PTL

(* Every run that ends has written the packing of all of its leaves after  *)
(* all MaxN trips, whatever the buffers held from the run before.          *)
THEOREM OutputAlwaysComplete == Spec => []OutputComplete
  BY DataAlwaysRight, OutputRight, PTL
=============================================================================
