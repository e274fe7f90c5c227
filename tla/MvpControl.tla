----------------------------- MODULE MvpControl -----------------------------
(***************************************************************************)
(* control.v: the controller of the ten-stage pipeline.                    *)
(*                                                                         *)
(*   0 read a batch     1 NTT       2 multiply-add    3 inverse NTT        *)
(*   4 extract a leaf   5 mux/monox 6 NTT             7 key switch         *)
(*   8 inverse NTT      9 mod-switch/add                                   *)
(*                                                                         *)
(* All stages work in rounds.  A round ends when every stage that takes    *)
(* part is done (all_stage_done); the controller then moves the status     *)
(* bits one stage on and pulses the starts of the next round.  Three       *)
(* things hold stages back: a vector of more than one split is accumulated *)
(* over several rounds of stage 2 (s2_cnt), a row group of more than one   *)
(* index is extracted over several rounds of stage 4 (s4_cnt), and a block *)
(* that leaves stage 8 and finds its sibling in the reduce buffer takes    *)
(* stage 5 before the next leaf does (stall_nxt).                          *)
(*                                                                         *)
(* The registers are variables, the wires are operators.  o_stage_cnt is a *)
(* debug counter and is left out; i_command[1] (skip_trace) is 0, as in    *)
(* every command that the driver writes.                                   *)
(***************************************************************************)
EXTENDS Integers

CONSTANTS
  MaxN,  \* log2 of the ring degree, 12 in the code
  Jobs   \* the register settings of the runs

(* What the driver computes from a shape and the card accepts: either the  *)
(* row is split over several polynomials or several rows share one.        *)
ASSUME JobsAssumption ==
  /\ MaxN \in Nat \ {0}
  /\ Jobs \subseteq [level : 1..MaxN, split : 1..4, index : Nat \ {0}]
  /\ \A j \in Jobs : /\ j.split = 1 \/ j.index = 1
                     /\ \E k \in 0..(j.level - 1) : j.index = 2^k

VARIABLES
  job,             \* i_reduce_level, i_split, i_index
  done,            \* the done inputs of the stages
  idle,            \* o_mvp_idle
  delay, start_pulse, reduce_trace,
  stall, stall_s2, stall_s4, stall_s0s1s2, stall_s3s4,
  status,          \* mvp_status_r
  n,               \* n_s5_r .. n_s9_r
  rb_status,
  s2_cnt, s4_cnt,
  write_uram, write_uram_cnt

stalls  == <<stall, stall_s2, stall_s4, stall_s0s1s2, stall_s3s4>>
counts  == <<s2_cnt, s4_cnt, write_uram, write_uram_cnt>>
control == <<idle, delay, start_pulse, reduce_trace, stalls, status, n,
             rb_status, counts>>

Stages == 0..9
WrUram == 10                   \* the other use of stage 2: i_wruram_done
Signals == Stages \cup {WrUram}

-----------------------------------------------------------------------------
(* Wires *)

all_stage_done_early ==   \* mutant: the dones are read before they fall
  /\ \A s \in Stages : done[s] \/ ~status[s]
  /\ done[WrUram] \/ ~status[2]

all_stage_done ==
  /\ \A s \in Stages : done[s] \/ ~status[s]
  /\ done[WrUram] \/ ~status[2]
  /\ delay = 3

stall_nxt    == n[8] < MaxN /\ rb_status[n[8]]
stall_for_s2 == s2_cnt # 0 /\ status[2]
stall_for_s4 == s4_cnt # job.index - 1 /\ status[3]

hold_s0s1s2 == stall_nxt /\ status[4] /\ ~stall_for_s2
hold_s3s4_never == FALSE   \* mutant: a stalled stage 4 moves on
hold_s3s4   == stall_nxt /\ status[4]

status_nxt(alldone) ==
  [s \in Stages |->
     CASE s = 0 -> IF hold_s0s1s2 \/ stall_for_s4 THEN status[0] ELSE ~alldone
       [] s \in {1, 2} ->
            IF hold_s0s1s2 \/ stall_for_s4 THEN status[s] ELSE status[s - 1]
       [] s = 3 -> IF hold_s3s4 \/ stall_for_s4 \/ stall_for_s2
                   THEN status[3] ELSE status[2] /\ ~write_uram
       [] s = 4 -> IF hold_s3s4 \/ stall_for_s2
                   THEN stall_nxt /\ status[4] ELSE status[3]
       [] s = 5 -> /\ IF reduce_trace THEN status[8]
                      ELSE status[4] \/ stall_nxt
                   /\ n[8] < MaxN
       [] OTHER -> status[s - 1]]

n_nxt(alldone) ==
  [s \in 5..9 |->
     IF s # 5 THEN n[s - 1]
     ELSE IF ~status_nxt(alldone)[5] THEN 0
     ELSE IF stall_nxt \/ reduce_trace THEN n[8] + 1 ELSE 1]

(* The start pulse of a stage.                                             *)
o_start(s) ==
  /\ start_pulse
  /\ CASE s = 0 -> status[0] /\ ~stall_s0s1s2 /\ ~stall_s4
       [] s = 1 -> status[1] /\ ~stall_s0s1s2 /\ ~stall_s4 /\ ~idle
       [] s = 2 -> status[2] /\ ~stall_s0s1s2 /\ ~stall_s4 /\ ~write_uram
       [] s = WrUram -> status[2] /\ write_uram
       [] s = 3 -> status[3] /\ ~stall_s3s4 /\ ~stall_s4 /\ ~stall_s2
       [] s = 4 -> status[4] /\ ~stall_s3s4 /\ ~stall_s2
       [] OTHER -> status[s]

o_mvp_done_early == n[9] = job.level /\ status[9] /\ all_stage_done \* mutant: no trace

o_mvp_done    == n[9] = MaxN /\ status[9] /\ all_stage_done
o_last_write_root == n[9] = job.level   \* mutant: the untraced block is kept

o_last_write  == n[9] = MaxN
o_mux_s5_mode_trace == reduce_trace   \* mutant: a stall takes the new leaf
o_mux_s5_mode == stall \/ reduce_trace
o_switch_mode == start_pulse /\ \E s \in 5..9 : status[s]
o_uram_index  == IF reduce_trace \/ idle THEN 0 ELSE n[9] - 1

(* The automorphism of stage 5 (X -> X^(2^n + 1)), the key of stage 7 and   *)
(* the shift by X^(N / 2^n) with which stage 9 streams out.                *)
o_mux_monox_s5_n == IF n[5] > job.level THEN MaxN + 1 + job.level - n[5] ELSE n[5]
o_mulacc_s7_n    == IF n[7] > job.level THEN MaxN + job.level - n[7] ELSE n[7] - 1
o_ms_addx_s9_n   == IF n[9] >= job.level THEN 0 ELSE n[5]

o_idx_split_late ==   \* mutant: the count that o_start(2) has already moved
  IF write_uram THEN write_uram_cnt ELSE s2_cnt

o_idx_split   == IF write_uram THEN write_uram_cnt
                 ELSE IF s2_cnt = 0 THEN job.split - 1 ELSE s2_cnt - 1

(* o_coeff_index is the last coefficient of row x of the group; the model  *)
(* keeps x.                                                                *)
o_coeff_index == IF s4_cnt = 0 THEN job.index - 1 ELSE s4_cnt - 1

o_pre_tpp_switch ==
  /\ done[2] /\ (s2_cnt = 0 \/ ~status[2])
  /\ done[3]
  /\ ~o_start(2) /\ ~o_start(3) /\ ~o_start(4)
  /\ done[4] /\ (s4_cnt = 0 \/ ~status[4])

-----------------------------------------------------------------------------
(* One clock edge, with the wires mvp_real_start and i_axi_s0_alldone.     *)

CountPast(c, start, last, step) ==   \* mutant: wraps one step late
  IF start \/ (step /\ c = last + 1) THEN 0 ELSE IF step THEN c + 1 ELSE c

CountTo(c, start, last, step) ==
  IF start \/ (step /\ c = last) THEN 0 ELSE IF step THEN c + 1 ELSE c

ClockStalls ==
  IF all_stage_done
  THEN /\ stall' = stall_nxt
       /\ stall_s2' = stall_for_s2
       /\ stall_s4' = stall_for_s4
       /\ stall_s0s1s2' = hold_s0s1s2
       /\ stall_s3s4' = hold_s3s4
  ELSE UNCHANGED stalls

ClockRbSet(start) ==   \* mutant: the bit of a packed block stays set
  rb_status' =
    IF start THEN [k \in 0..MaxN |-> FALSE]
    ELSE IF all_stage_done /\ status[8] /\ n[8] # 0
    THEN [rb_status EXCEPT ![n[8]] = TRUE]
    ELSE rb_status

ClockRbStatus(start) ==
  rb_status' =
    IF start THEN [k \in 0..MaxN |-> FALSE]
    ELSE IF all_stage_done /\ (stall_nxt \/ (status[8] /\ n[8] # 0))
    THEN [rb_status EXCEPT ![n[8]] = ~stall_nxt]
    ELSE rb_status

ClockCounts(start) ==
  LET stored == all_stage_done /\ done[WrUram] /\ status[2]
  IN /\ s2_cnt' = CountTo(s2_cnt, start, job.split - 1, o_start(2))
     /\ s4_cnt' = CountTo(s4_cnt, start, job.index - 1, o_start(4))
     /\ write_uram_cnt' = CountTo(write_uram_cnt, start, job.split - 1,
                                  write_uram /\ stored)
     /\ write_uram' =
          (start \/ (write_uram /\ ~(stored /\ write_uram_cnt = job.split - 1)))

trace_one_early(start) ==   \* mutant: the trace begins below the root
  ~start /\ (reduce_trace \/ n[8] = job.level - 1)

reduce_trace_nxt(start) == ~start /\ (reduce_trace \/ n[8] = job.level)

ControlClock(start, alldone) ==
  /\ idle'  = (~start /\ (o_mvp_done \/ idle))
  /\ delay' = IF all_stage_done THEN 0 ELSE IF delay < 3 THEN delay + 1 ELSE 3
  /\ start_pulse'  = (all_stage_done /\ ~idle)
  /\ reduce_trace' = reduce_trace_nxt(start)
  /\ ClockStalls
  /\ status' = IF start THEN [s \in Stages |-> FALSE]
               ELSE IF all_stage_done THEN status_nxt(alldone) ELSE status
  /\ n' = IF start THEN [s \in 5..9 |-> 0]
          ELSE IF all_stage_done THEN n_nxt(alldone) ELSE n
  /\ ClockRbStatus(start)
  /\ ClockCounts(start)

ControlReset ==
  /\ idle = TRUE
  /\ delay = 0
  /\ start_pulse = FALSE
  /\ reduce_trace = FALSE
  /\ stall = FALSE /\ stall_s2 = FALSE /\ stall_s4 = FALSE
  /\ stall_s0s1s2 = FALSE /\ stall_s3s4 = FALSE
  /\ status = [s \in Stages |-> FALSE]
  /\ n = [s \in 5..9 |-> 0]
  /\ rb_status = [k \in 0..MaxN |-> FALSE]
  /\ s2_cnt = 0 /\ s4_cnt = 0
  /\ write_uram = FALSE /\ write_uram_cnt = 0

ControlTypeOK ==
  /\ job \in Jobs
  /\ done \in [Signals -> BOOLEAN]
  /\ {idle, start_pulse, reduce_trace, stall, stall_s2, stall_s4,
      stall_s0s1s2, stall_s3s4, write_uram} \subseteq BOOLEAN
  /\ delay \in 0..3
  /\ status \in [Stages -> BOOLEAN]
  /\ n \in [5..9 -> 0..MaxN]
  /\ rb_status \in [0..MaxN -> BOOLEAN]
  /\ s2_cnt \in 0..3
  /\ s4_cnt \in 0..(2^(MaxN - 1) - 1)
  /\ write_uram_cnt \in 0..3
=============================================================================
