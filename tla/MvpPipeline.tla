---------------------------- MODULE MvpPipeline -----------------------------
(***************************************************************************)
(* The controller with what it controls: the batch reader, the buffers     *)
(* that carry data from stage to stage, the reduce buffer and the writer.  *)
(*                                                                         *)
(* A run reads split batches of the vector and then the batches of the     *)
(* matrix, two rows of polynomials in each.  A row group is the sum over   *)
(* the splits of batch times vector split; index leaves are extracted from *)
(* it; 2^(level-1) leaves are packed in pairs, then pairs of pairs, up a   *)
(* binary tree whose levels share stages 5 to 9; the packed result then    *)
(* goes round MaxN - level more times (the trace).                         *)
(*                                                                         *)
(* Data are identities.  A batch is its number and how often it was        *)
(* transformed; a row group is a set of <<batch, vector split>> products   *)
(* and how often it was transformed back; a leaf is a group and the row    *)
(* extracted from it; what stages 5 to 9 carry is a block, a set of leaves,*)
(* the trips it made through them (the automorphism, the shift of its      *)
(* second half and the key of each) and the steps of the key switch of     *)
(* this trip.                                                              *)
(*                                                                         *)
(* Buffers change hands on the rising edge of a done signal, so the model  *)
(* is clock by clock: Tick is a clock edge, and between two edges any      *)
(* stage that works may become done.                                       *)
(***************************************************************************)
EXTENDS MvpControl, FiniteSets, Sequences

CONSTANT MaxStarts  \* bound: runs of one behaviour

ASSUME MaxStartsAssumption == MaxStarts \in Nat

VARIABLES
  rd,       \* state of axi_data_rd_top: "idle", "xfer" or "halt"
  batches,  \* count_batch
  dp,       \* the triple buffer of dp_top, by its present user
  uram,     \* the transformed vector, by split
  pre,      \* the triple buffer of preprocess_top, by its present user
  leaf,     \* the double buffer between stages 4 and 5
  edges,    \* the done signals that the three buffers saw one clock ago
  pp1,      \* pp_buffer_1: written by stage 5, in place 6, read by 7
  pp2,      \* pp_buffer_2: written by stage 7, in place 8, read by 9
  redbuf,   \* reduce_buffer
  wr,       \* axi_data_wr_top is sending
  out,      \* the result in device memory
  ap_idle,
  starts    \* runs begun

buffers == <<dp, uram, pre, leaf, pp1, pp2, redbuf>>
vars == <<job, done, control, rd, batches, buffers, edges, wr, out, ap_idle,
          starts>>

-----------------------------------------------------------------------------
Batch(b, t) == [batch |-> b, ntt |-> t]
Group(p, t) == [prods |-> p, intt |-> t]
Leaf(g, x)  == [group |-> g, row |-> x]
NoBatch == Batch(-1, 0)
NoGroup == Group({}, 0)
NoLeaf  == Leaf(NoGroup, 0)
Trip(a, x, k) == [aut |-> a, shift |-> x, key |-> k]
NoKey == -1
Block(ls, ts, t) == [leaves |-> ls, trips |-> ts, steps |-> t]
NoBlock == Block({}, <<>>, 0)

data_size_matrix ==   \* mutant: the batches of the vector are not counted
  (2^job.level * job.split) \div (2 * job.index)

(* data_size_batches, with mat_len as KernelRun computes it.               *)
data_size_batches == (2^job.level * job.split) \div (2 * job.index) + job.split

Init ==
  /\ job \in Jobs
  /\ done = [s \in Signals |-> TRUE]
  /\ ControlReset
  /\ rd = "idle"
  /\ batches = 0
  /\ dp   = [axi |-> NoBatch, ntt |-> NoBatch, madd |-> NoBatch]
  /\ uram = [v \in 0..3 |-> NoBatch]
  /\ pre  = [madd |-> NoGroup, intt |-> NoGroup, mext |-> NoGroup]
  /\ leaf = [mext |-> NoLeaf, mux |-> NoLeaf]
  /\ edges = [dp |-> FALSE, pre |-> FALSE, leaf |-> FALSE]
  /\ pp1 = [a |-> NoBlock, b |-> NoBlock, c |-> NoBlock]
  /\ pp2 = [a |-> NoBlock, b |-> NoBlock, c |-> NoBlock]
  /\ redbuf = [k \in 0..(MaxN - 1) |-> NoBlock]
  /\ wr = FALSE
  /\ out = NoBlock
  /\ ap_idle = TRUE
  /\ starts = 0

-----------------------------------------------------------------------------
(* What a stage has done to the data when it raises its done.  The         *)
(* shortest stage takes hundreds of clocks, far more than the three that   *)
(* the controller waits for the dones to fall.                             *)

StageDone(s) ==
  /\ ~done[s]
  /\ delay = 3
  /\ done' = [done EXCEPT ![s] = TRUE]
  /\ UNCHANGED <<job, control, rd, batches, edges, wr, out, ap_idle, starts>>

DpNtt ==
  /\ StageDone(1)
  /\ dp' = [dp EXCEPT !.ntt.ntt = @ + 1]
  /\ UNCHANGED <<uram, pre, leaf, pp1, pp2, redbuf>>

DpWrUram ==
  /\ StageDone(WrUram)
  /\ uram' = [uram EXCEPT ![o_idx_split] = dp.madd]
  /\ UNCHANGED <<dp, pre, leaf, pp1, pp2, redbuf>>

(* madd adds to the partial sum unless the split index is 0.               *)
DpMulAdd ==
  /\ StageDone(2)
  /\ pre' = [pre EXCEPT !.madd =
               Group((IF o_idx_split = 0 THEN {} ELSE @.prods)
                       \cup {<<dp.madd, uram[o_idx_split]>>}, 0)]
  /\ UNCHANGED <<dp, uram, leaf, pp1, pp2, redbuf>>

PreIntt ==
  /\ StageDone(3)
  /\ pre' = [pre EXCEPT !.intt.intt = @ + 1]
  /\ UNCHANGED <<dp, uram, leaf, pp1, pp2, redbuf>>

MExt ==
  /\ StageDone(4)
  /\ leaf' = [leaf EXCEPT !.mext = Leaf(pre.mext, o_coeff_index)]
  /\ UNCHANGED <<dp, uram, pre, pp1, pp2, redbuf>>

(* Mode 0 takes the new leaf and shifts half of it by N / 2.  Mode 1 takes *)
(* what stage 9 streams out in the same round, with its sibling from the   *)
(* reduce buffer unless it is the trace that is being computed.            *)
mux_seq ==
  IF ~o_mux_s5_mode
  THEN Block({leaf.mux}, <<Trip(o_mux_monox_s5_n, 1, NoKey)>>, 0)
  ELSE Block(pp2.c.leaves \cup (IF reduce_trace THEN {}
                                ELSE redbuf[o_uram_index].leaves),
             Append(pp2.c.trips, Trip(o_mux_monox_s5_n, o_ms_addx_s9_n, NoKey)),
             0)

MuxMonox ==
  /\ StageDone(5)
  /\ pp1' = [pp1 EXCEPT !.a = mux_seq]
  /\ UNCHANGED <<dp, uram, pre, leaf, pp2, redbuf>>

(* The key switch: transform in place, multiply from one buffer into the   *)
(* other, transform back in place.                                         *)
NttS6 ==
  /\ StageDone(6)
  /\ pp1' = [pp1 EXCEPT !.b.steps = @ + 1]
  /\ UNCHANGED <<dp, uram, pre, leaf, pp2, redbuf>>

MulAccS7 ==
  /\ StageDone(7)
  /\ pp2' = [pp2 EXCEPT !.a =
               [pp1.c EXCEPT !.steps = @ + 1,
                             !.trips[Len(pp1.c.trips)].key = o_mulacc_s7_n]]
  /\ UNCHANGED <<dp, uram, pre, leaf, pp1, redbuf>>

InttS8 ==
  /\ StageDone(8)
  /\ pp2' = [pp2 EXCEPT !.b.steps = @ + 1]
  /\ UNCHANGED <<dp, uram, pre, leaf, pp1, redbuf>>

(* Stage 9 writes the reduce buffer unless it streams into stage 5.        *)
s7_mode == o_mux_s5_mode /\ ~o_last_write

MsAddx ==
  /\ StageDone(9)
  /\ redbuf' = IF s7_mode THEN redbuf
               ELSE [redbuf EXCEPT ![o_uram_index] = pp2.c]
  /\ UNCHANGED <<dp, uram, pre, leaf, pp1, pp2>>

(* The reader has filled its buffer.  A batch takes 2048 clocks, the first *)
(* round begins within a few clocks of the start.                          *)
BatchRead ==
  /\ rd = "xfer"
  /\ status[0] /\ delay = 3
  /\ rd' = "halt"
  /\ dp' = [dp EXCEPT !.axi = Batch(batches, 0)]
  /\ batches' = batches + 1
  /\ UNCHANGED <<job, done, control, uram, pre, leaf, edges, pp1, pp2,
                 redbuf, wr, out, ap_idle, starts>>

(* The writer has sent the reduce buffer's entry 0 to device memory.       *)
WriteDone ==
  /\ wr
  /\ wr' = FALSE
  /\ out' = redbuf[o_uram_index]
  /\ ap_idle' = TRUE
  /\ UNCHANGED <<job, done, control, rd, batches, buffers, edges, starts>>

Work ==
  \/ DpNtt \/ DpWrUram \/ DpMulAdd \/ PreIntt \/ MExt \/ MuxMonox
  \/ NttS6 \/ MulAccS7 \/ InttS8 \/ MsAddx \/ BatchRead \/ WriteDone

-----------------------------------------------------------------------------
(* A clock edge *)

(* The done signals of the three rotating buffers; o_dp_mode selects       *)
(* whether stage 2 stores the vector or multiplies.                        *)
BufferDone ==
  [dp   |-> done[0] /\ done[1] /\ (IF write_uram THEN done[WrUram] ELSE done[2]),
   pre  |-> o_pre_tpp_switch,
   leaf |-> done[4] /\ (done[5] \/ o_mux_s5_mode)]

Rising(b) == BufferDone[b] /\ ~edges[b]

dp_tripple_pp_buffer ==
  dp' = IF Rising("dp")
        THEN [axi |-> dp.madd, ntt |-> dp.axi, madd |-> dp.ntt] ELSE dp

triple_pp_buffer ==
  pre' = IF Rising("pre")
         THEN [madd |-> pre.mext, intt |-> pre.madd, mext |-> pre.intt] ELSE pre

double_pp_buffer ==
  leaf' = IF Rising("leaf")
          THEN [mext |-> leaf.mux, mux |-> leaf.mext] ELSE leaf

(* Buffer a becomes b, b becomes c, c becomes a.                           *)
pp_buffer(pp) ==
  IF o_switch_mode THEN [a |-> pp.c, b |-> pp.a, c |-> pp.b] ELSE pp

ClockBuffers ==
  /\ edges' = BufferDone
  /\ dp_tripple_pp_buffer
  /\ triple_pp_buffer
  /\ double_pp_buffer
  /\ pp1' = pp_buffer(pp1)
  /\ pp2' = pp_buffer(pp2)
  /\ UNCHANGED <<uram, redbuf>>

(* axi_data_rd_top.  The start pulse of the first round finds the reader   *)
(* transferring since the start of the run, and only lowers its done.      *)
ClockReader(start) ==
  /\ rd' = CASE rd = "idle" -> IF start THEN "xfer" ELSE "idle"
             [] rd = "xfer" -> "xfer"
             [] rd = "halt" -> IF batches = data_size_batches THEN "idle"
                               ELSE IF o_start(0) THEN "xfer" ELSE "halt"
  /\ batches' = IF rd = "idle" THEN 0 ELSE batches

ClockDone(start) ==
  done' = [s \in Signals |->
             IF s = 0 THEN ~(o_start(0) \/ start) /\ (done[0] \/ rd # "xfer")
             ELSE done[s] /\ ~o_start(s)]

Clock(start) ==
  /\ ControlClock(start, rd = "idle")
  /\ ClockBuffers
  /\ ClockReader(start)
  /\ ClockDone(start)
  /\ wr' = (wr \/ o_mvp_done)

Tick ==
  /\ Clock(FALSE)
  /\ UNCHANGED <<job, out, ap_idle, starts>>

(* The clock edge at which mvp_start_w is high: the driver has written the *)
(* registers and waits for ap_done before it starts again.                 *)
Start(j) ==
  /\ ap_idle
  /\ starts < MaxStarts
  /\ Clock(TRUE)
  /\ job' = j
  /\ ap_idle' = FALSE
  /\ starts' = starts + 1
  /\ UNCHANGED out

Next == Work \/ Tick \/ \E j \in Jobs : Start(j)

Spec == Init /\ [][Next]_vars

(* The clock runs, and every stage, the reader and the writer finish what  *)
(* they were given.  Nothing forces the driver to start a run.             *)
FairSpec ==
  /\ Spec
  /\ WF_vars(Tick)
  /\ WF_vars(DpNtt) /\ WF_vars(DpWrUram) /\ WF_vars(DpMulAdd)
  /\ WF_vars(PreIntt) /\ WF_vars(MExt) /\ WF_vars(MuxMonox)
  /\ WF_vars(NttS6) /\ WF_vars(MulAccS7) /\ WF_vars(InttS8)
  /\ WF_vars(MsAddx) /\ WF_vars(BatchRead) /\ WF_vars(WriteDone)

-----------------------------------------------------------------------------
(* PROPERTIES *)

Leaves == 0..(2^(job.level - 1) - 1)

(* Leaf l of the run: row l % index of group l \div index, the sum over    *)
(* the splits of that group's batches times the vector, transformed once   *)
(* each way.                                                               *)
TheLeaf(l) ==
  LET g == l \div job.index
      p == {<<Batch(job.split + g * job.split + v, 1), Batch(v, 1)>> :
              v \in 0..(job.split - 1)}
  IN Leaf(Group(p, 1), l % job.index)

(* The blocks of 2^(k-1) neighbouring leaves that level k of the tree packs.*)
Packed(k) ==
  LET size == 2^(k - 1)
  IN {{TheLeaf(b * size + i) : i \in 0..(size - 1)} :
        b \in 0..((2^(job.level - 1) \div size) - 1)}

Level(k) == IF k > job.level THEN job.level ELSE k

(* Trip k: level k of the tree packs with the shift and automorphism k, a   *)
(* trip of the trace applies one of the remaining automorphisms, the       *)
(* largest first; the keys are numbered from 0.                            *)
TheTrip(k) ==
  LET a == IF k <= job.level THEN k ELSE MaxN + 1 - (k - job.level)
  IN Trip(a, IF k <= job.level THEN k ELSE 0, a - 1)

(* Every register of the controller has the width that it needs, and every *)
(* buffer holds data of its kind.                                          *)
TypeOK ==
  /\ ControlTypeOK
  /\ rd \in {"idle", "xfer", "halt"}
  /\ batches \in 0..data_size_batches
  /\ DOMAIN dp = {"axi", "ntt", "madd"}
  /\ DOMAIN pre = {"madd", "intt", "mext"}
  /\ \A u \in DOMAIN pre : Cardinality(pre[u].prods) <= 4
  /\ \A p \in {pp1, pp2} : \A u \in DOMAIN p :
        Cardinality(p[u].leaves) <= 2^(MaxN - 1)
  /\ {wr, ap_idle} \subseteq BOOLEAN
  /\ starts \in 0..MaxStarts

(* No start pulse reaches a stage that still works, where it would be      *)
(* ignored; the reader's first one is the documented exception.            *)
NoStartIsLost ==
  \A s \in Signals :
    o_start(s) => done[s] \/ (s = 0 /\ rd = "xfer" /\ batches = 0)

(* While stage 2 works, the split index selects the vector split that      *)
(* belongs to the batch in front of it, and both are transformed.          *)
OperandsMatch ==
  LET b == dp.madd
  IN /\ ~done[WrUram] => b = Batch(o_idx_split, 1)
     /\ ~done[2] => /\ b.ntt = 1
                    /\ b.batch >= job.split
                    /\ b.batch % job.split = o_idx_split
                    /\ uram[o_idx_split] = Batch(o_idx_split, 1)

(* The block that stage s works on; during the start pulse the buffers     *)
(* have yet to switch.                                                     *)
Held(s) ==
  IF start_pulse
  THEN CASE s = 6 -> pp1.a [] s = 7 -> pp1.b [] s = 8 -> pp2.a [] s = 9 -> pp2.b
  ELSE CASE s = 6 -> pp1.b [] s = 7 -> pp1.c [] s = 8 -> pp2.b [] s = 9 -> pp2.c

(* What travels through stages 6 to 9 with level k is a whole block of     *)
(* that level, every trip of it had its automorphism and the key that goes *)
(* with it, and the stages before have each done their step of the key     *)
(* switch once: no leaf was lost, repeated or packed with a stranger, at   *)
(* any level of the tree, however the stages' finishing times fall.        *)
BlocksWhole ==
  \A s \in 6..9 : status[s] =>
    /\ Held(s).leaves \in Packed(Level(n[s]))
    /\ Held(s).trips =
         [k \in 1..n[s] |-> IF k = n[s] /\ s <= 7
                            THEN [TheTrip(k) EXCEPT !.key = NoKey]
                            ELSE TheTrip(k)]
    /\ Held(s).steps = s - 6 + (IF s \in {6, 8} /\ done[s] /\ ~start_pulse
                                THEN 1 ELSE 0)

(* A set bit of rb_status means that the reduce buffer holds a block of    *)
(* that level, which will not be lost: it is written by the round in which *)
(* stage 9 has the block and nothing overwrites it.                        *)
RbStatusTrue ==
  ~reduce_trace =>
    \A k \in 1..(job.level - 1) :
      rb_status[k] => \/ redbuf[k - 1].leaves \in Packed(k)
                      \/ status[9] /\ n[9] = k

(* The trace begins only when the tree is complete: every leaf has been    *)
(* packed and no other block is on its way.                                *)
TraceAfterTree ==
  reduce_trace =>
    /\ rd = "idle"
    /\ \A s \in 0..4 : ~status[s]
    /\ \A s, t \in 5..9 : status[s] /\ status[t] => s = t \/ {s, t} = {5, 9}

(* When the controller reports the end of the run no stage has work left,  *)
(* so the next start finds an empty pipeline.                              *)
DrainedAtDone ==
  o_mvp_done => rd = "idle" /\ \A s \in 0..8 : ~status[s]

(* A finished run has written the packing of all its leaves, after all of  *)
(* its MaxN trips, whatever the buffers held from the run before.          *)
OutputComplete ==
  ap_idle /\ starts > 0 =>
    out = Block({TheLeaf(l) : l \in Leaves}, [k \in 1..MaxN |-> TheTrip(k)], 3)

(* Every run that is started finishes.                                     *)
EveryRunEnds == ~ap_idle ~> ap_idle

(* The blocks of a run that is under way: what stage 5 is making, what is  *)
(* in stages 6 to 9, what waits in the reduce buffer, and at the end the   *)
(* result in its entry 0.                                                  *)
Numbers(b) == {l \in Leaves : TheLeaf(l) \in b.leaves}

Packing == status[5] /\ stall /\ ~reduce_trace

InStage5 ==
  IF status[5] /\ done[5] /\ ~start_pulse THEN {pp1.a}
  ELSE IF Packing THEN {redbuf[n[9] - 1]} ELSE {}

InStages6To9 ==
  {Held(s) : s \in {t \in 6..9 :
     /\ status[t]
     /\ ~(t = 9 /\ Packing /\ done[5] /\ ~start_pulse)}}

Waiting ==
  {redbuf[k - 1] : k \in {i \in 1..(job.level - 1) :
                            rb_status[i] /\ ~(status[9] /\ n[9] = i)}}

Forest ==
  IF ap_idle THEN {}
  ELSE {Numbers(b) : b \in InStage5 \cup InStages6To9 \cup Waiting
                             \cup (IF wr THEN {redbuf[0]} ELSE {})}

Tree == INSTANCE PackTree WITH
  MaxLevel <- MaxN,
  running  <- ~ap_idle,
  level    <- job.level,
  forest   <- Forest,
  result   <- IF ap_idle THEN Numbers(out) ELSE {}

(* The pipeline computes the packing tree: each round of stage 5 brings in *)
(* the next leaf, packs two siblings or does nothing to the tree, and the  *)
(* run delivers the complete block.                                        *)
ImplementsTree == Tree!Spec
=============================================================================
