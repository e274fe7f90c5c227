----------------------------- MODULE FpgaDriver -----------------------------
(***************************************************************************)
(* KernelInit and KernelRun of mvp_fpga_lib.h, run by any number of        *)
(* threads and processes over one card.  The three named POSIX semaphores  *)
(* are shared by all of them and outlive every one of them:                *)
(*                                                                         *)
(*   fpga_mutex           "mvp_fpga",        1: registers and computation  *)
(*   fpga_buffer_mutex    "mvp_fpga_buffer", 2: the two memory slots       *)
(*   double_buffer_select "mvp_fpga_index",  1: which slot                 *)
(*                                                                         *)
(* One action is one call that another caller or the card can observe.     *)
(***************************************************************************)
EXTENDS FpgaCard

CONSTANTS
  MaxTry,    \* bound: DONE reads of one poll loop (10^5 and 10^7 in the code)
  MaxCrash,  \* bound: callers that die inside a call
  Faults     \* what may go wrong, a subset of FaultKinds

FaultKinds ==
  {"dev",    \* obtain_fpga_dev_name fails
   "mem",    \* fpga_memory_operate fails, its result is ignored
   "reg",    \* fpga_reg_read / fpga_reg_write_array fail, likewise
   "slow"}   \* the card is not done when the last DONE read is made

ASSUME DriverAssumption ==
  /\ MaxTry \in Nat \ {0}
  /\ MaxCrash \in Nat
  /\ Faults \subseteq FaultKinds

VARIABLES
  fpga_mutex, fpga_buffer_mutex, double_buffer_select,
  pc,            \* where each caller is
  buffer_index,  \* KernelRun's buffer_index
  bad,           \* the job's shape is one that the card refuses
  tries,         \* trycount
  status,        \* KernelRun's status: 0, 1 (done) or 2 (done with error bits)
  runs,          \* KernelRun calls begun
  ready,         \* FPGAHandler::is_initialized_ of the caller's context
  result,        \* h_result
  ret,           \* what the last call returned
  crashes

sems == <<fpga_mutex, fpga_buffer_mutex, double_buffer_select>>
locals == <<buffer_index, bad, tries, status, runs, ready, result, ret>>
vars == <<card, sems, pc, locals, crashes>>

-----------------------------------------------------------------------------
InitPcs == {"i_wait", "i_dev", "i_upload", "i_start", "i_poll", "i_post"}
RunPcs  == {"r_dev", "r_buf", "r_sel", "r_vec", "r_mat", "r_fpga", "r_start",
            "r_poll", "r_post", "r_read", "r_postbuf", "r_postsel", "r_ret"}
Pcs     == {"idle"} \cup InitPcs \cup RunPcs
Returns == {"none", "ok", "config", "failed"}

Job(p)    == <<p, runs[p]>>
SlotOf(i) == IF i = 0 THEN 2 ELSE 1   \* SECOND_* for index 0, FIRST_* for 1
Slot(p)   == SlotOf(buffer_index[p])
Own(p)    == Product(Job(p), Job(p), KeyOf[p])

Init ==
  /\ CardInit
  /\ fpga_mutex = 1
  /\ fpga_buffer_mutex = 2
  /\ double_buffer_select = 1
  /\ pc           = [p \in Callers |-> "idle"]
  /\ buffer_index = [p \in Callers |-> 0]
  /\ bad          = [p \in Callers |-> FALSE]
  /\ tries        = [p \in Callers |-> 0]
  /\ status       = [p \in Callers |-> 0]
  /\ runs         = [p \in Callers |-> 0]
  /\ ready        = [p \in Callers |-> FALSE]
  /\ result       = [p \in Callers |-> NoProduct]
  /\ ret          = [p \in Callers |-> "none"]
  /\ crashes      = 0

Goto(p, from, to) ==
  /\ pc[p] = from
  /\ pc' = [pc EXCEPT ![p] = to]
  /\ UNCHANGED crashes

(* KernelRun's variables end with the call.                                *)
LocalsGone(p) ==
  /\ buffer_index' = [buffer_index EXCEPT ![p] = 0]
  /\ bad'    = [bad EXCEPT ![p] = FALSE]
  /\ tries'  = [tries EXCEPT ![p] = 0]
  /\ status' = [status EXCEPT ![p] = 0]

(* One of the DMA transfers: it happens, or it fails and nobody looks.     *)
Transfer(happens, kept) ==
  \/ happens
  \/ "mem" \in Faults /\ UNCHANGED kept

-----------------------------------------------------------------------------
(* KernelInit *)

CallInit(p) ==
  /\ ~ready[p]
  /\ Goto(p, "idle", "i_wait")
  /\ ret' = [ret EXCEPT ![p] = "none"]
  /\ UNCHANGED <<card, sems, buffer_index, bad, tries, status, runs, ready,
                 result>>

InitWait(p) ==
  /\ Goto(p, "i_wait", "i_dev")
  /\ fpga_mutex > 0
  /\ fpga_mutex' = fpga_mutex - 1
  /\ UNCHANGED <<card, fpga_buffer_mutex, double_buffer_select, locals>>

InitDev(p) ==
  /\ Goto(p, "i_dev", "i_upload")
  /\ UNCHANGED <<card, sems, locals>>

(* The early return -1 leaves the semaphore taken.                         *)
InitDevFail(p) ==
  /\ "dev" \in Faults
  /\ Goto(p, "i_dev", "idle")
  /\ ret' = [ret EXCEPT ![p] = "failed"]
  /\ UNCHANGED <<card, sems, buffer_index, bad, tries, status, runs, ready,
                 result>>

InitUpload(p) ==
  /\ Goto(p, "i_upload", "i_start")
  /\ Transfer(dramKsk' = KeyOf[p], dramKsk)
  /\ UNCHANGED <<input, output, ksk, outPtr, run, late, done, err, sems,
                 locals>>

InitStart(p) ==
  /\ Goto(p, "i_start", "i_poll")
  /\ \/ StartKsk
     \/ "reg" \in Faults /\ UNCHANGED <<outPtr, run, late, done, err>>
  /\ tries' = [tries EXCEPT ![p] = 0]
  /\ UNCHANGED <<input, output, dramKsk, ksk, sems, buffer_index, bad, status,
                 runs, ready, result, ret>>

(* The loop ends on an odd value, which a failed read may have left in     *)
(* data_u32, or after its last try; either way nothing is reported.        *)
InitPoll(p) ==
  /\ done \/ "reg" \in Faults \/ (tries[p] + 1 = MaxTry /\ "slow" \in Faults)
  /\ Goto(p, "i_poll", "i_post")
  /\ UNCHANGED <<card, sems, locals>>

InitPost(p) ==
  /\ Goto(p, "i_post", "idle")
  /\ fpga_mutex' = fpga_mutex + 1
  /\ ready' = [ready EXCEPT ![p] = TRUE]
  /\ ret'   = [ret EXCEPT ![p] = "ok"]
  /\ UNCHANGED <<card, fpga_buffer_mutex, double_buffer_select, buffer_index,
                 bad, tries, status, runs, result>>

(* A DONE read that finds the card busy, in either poll loop.              *)
PollMiss(p) ==
  /\ pc[p] \in {"i_poll", "r_poll"}
  /\ ~done \/ "reg" \in Faults
  /\ tries[p] + 1 < MaxTry
  /\ tries' = [tries EXCEPT ![p] = @ + 1]
  /\ UNCHANGED <<card, sems, pc, buffer_index, bad, status, runs, ready,
                 result, ret, crashes>>

-----------------------------------------------------------------------------
(* KernelRun *)

CallRun(p, b) ==
  /\ ready[p]
  /\ runs[p] < MaxRuns
  /\ Goto(p, "idle", "r_dev")
  /\ runs'   = [runs EXCEPT ![p] = @ + 1]
  /\ bad'    = [bad EXCEPT ![p] = b]
  /\ status' = [status EXCEPT ![p] = 0]
  /\ result' = [result EXCEPT ![p] = NoProduct]
  /\ ret'    = [ret EXCEPT ![p] = "none"]
  /\ UNCHANGED <<card, sems, buffer_index, tries, ready>>

RunDev(p) ==
  /\ Goto(p, "r_dev", "r_buf")
  /\ UNCHANGED <<card, sems, locals>>

RunDevFail(p) ==
  /\ "dev" \in Faults
  /\ Goto(p, "r_dev", "idle")
  /\ ret' = [ret EXCEPT ![p] = "failed"]
  /\ LocalsGone(p)
  /\ UNCHANGED <<card, sems, runs, ready, result>>

RunWaitBuf(p) ==
  /\ Goto(p, "r_buf", "r_sel")
  /\ fpga_buffer_mutex > 0
  /\ fpga_buffer_mutex' = fpga_buffer_mutex - 1
  /\ UNCHANGED <<card, fpga_mutex, double_buffer_select, locals>>

RunPeek(p) ==   \* mutant: sem_getvalue instead of sem_trywait
  /\ Goto(p, "r_sel", "r_vec")
  /\ buffer_index' =
       [buffer_index EXCEPT ![p] = IF double_buffer_select > 0 THEN 0 ELSE 1]
  /\ UNCHANGED <<card, sems, bad, tries, status, runs, ready, result, ret>>

(* sem_trywait decides the slot.                                           *)
RunSelect(p) ==
  /\ Goto(p, "r_sel", "r_vec")
  /\ IF double_buffer_select > 0
     THEN /\ double_buffer_select' = double_buffer_select - 1
          /\ buffer_index' = [buffer_index EXCEPT ![p] = 0]
     ELSE /\ buffer_index' = [buffer_index EXCEPT ![p] = 1]
          /\ UNCHANGED double_buffer_select
  /\ UNCHANGED <<card, fpga_mutex, fpga_buffer_mutex, bad, tries, status, runs,
                 ready, result, ret>>

RunVec(p) ==
  /\ Goto(p, "r_vec", "r_mat")
  /\ Transfer(PutVec(Slot(p), Job(p)), input)
  /\ UNCHANGED <<output, dramKsk, ksk, outPtr, run, late, done, err, sems,
                 locals>>

RunMat(p) ==
  /\ Goto(p, "r_mat", "r_fpga")
  /\ Transfer(PutMat(Slot(p), Job(p)), input)
  /\ UNCHANGED <<output, dramKsk, ksk, outPtr, run, late, done, err, sems,
                 locals>>

RunSkipsFpga(p) ==   \* mutant: the wait for fpga_mutex is missing
  /\ Goto(p, "r_fpga", "r_start")
  /\ UNCHANGED <<card, sems, locals>>

RunWaitFpga(p) ==
  /\ Goto(p, "r_fpga", "r_start")
  /\ fpga_mutex > 0
  /\ fpga_mutex' = fpga_mutex - 1
  /\ UNCHANGED <<card, fpga_buffer_mutex, double_buffer_select, locals>>

RunStart(p) ==
  /\ Goto(p, "r_start", "r_poll")
  /\ \/ StartRun(Slot(p), bad[p])
     \/ "reg" \in Faults /\ UNCHANGED <<outPtr, run, late, done, err>>
  /\ tries' = [tries EXCEPT ![p] = 0]
  /\ UNCHANGED <<input, output, dramKsk, ksk, sems, buffer_index, bad, status,
                 runs, ready, result, ret>>

(* A failed read leaves data_u32 as it was, at first uninitialised.        *)
RunPoll(p) ==
  /\ Goto(p, "r_poll", "r_post")
  /\ \/ done /\ status' = [status EXCEPT ![p] = IF err THEN 2 ELSE 1]
     \/ "reg" \in Faults /\ \E s \in {1, 2} : status' = [status EXCEPT ![p] = s]
  /\ UNCHANGED <<card, sems, buffer_index, bad, tries, runs, ready, result,
                 ret>>

RunTimeoutPosts(p) ==   \* mutant: a time-out releases the card by itself
  /\ "slow" \in Faults
  /\ ~done
  /\ tries[p] + 1 = MaxTry
  /\ Goto(p, "r_poll", "r_post")
  /\ fpga_mutex' = fpga_mutex + 1
  /\ UNCHANGED <<card, fpga_buffer_mutex, double_buffer_select, locals>>

(* The loop runs out; status keeps its initial 0.                          *)
RunTimeout(p) ==
  /\ "reg" \in Faults \/ ("slow" \in Faults /\ ~done)
  /\ tries[p] + 1 = MaxTry
  /\ Goto(p, "r_poll", "r_post")
  /\ UNCHANGED <<card, sems, locals>>

RunPost(p) ==
  /\ Goto(p, "r_post", "r_read")
  /\ fpga_mutex' = fpga_mutex + 1
  /\ UNCHANGED <<card, fpga_buffer_mutex, double_buffer_select, locals>>

RunReadsFirst(p) ==   \* mutant: output_addr does not follow buffer_index
  /\ Goto(p, "r_read", "r_postbuf")
  /\ Transfer(result' = [result EXCEPT ![p] = output[1]], result)
  /\ UNCHANGED <<card, sems, buffer_index, bad, tries, status, runs, ready,
                 ret>>

(* The result is read from the output slot after fpga_mutex is released.   *)
RunRead(p) ==
  /\ Goto(p, "r_read", "r_postbuf")
  /\ Transfer(result' = [result EXCEPT ![p] = output[Slot(p)]], result)
  /\ UNCHANGED <<card, sems, buffer_index, bad, tries, status, runs, ready,
                 ret>>

RunPostBufLeaks(p) ==   \* mutant: only the holder of index 0 posts
  /\ Goto(p, "r_postbuf", IF buffer_index[p] = 0 THEN "r_postsel" ELSE "r_ret")
  /\ fpga_buffer_mutex' = fpga_buffer_mutex + (1 - buffer_index[p])
  /\ UNCHANGED <<card, fpga_mutex, double_buffer_select, locals>>

RunPostsBoth(p) ==   \* mutant: the test of buffer_index is missing
  /\ Goto(p, "r_postbuf", "r_postsel")
  /\ fpga_buffer_mutex' = fpga_buffer_mutex + 1
  /\ UNCHANGED <<card, fpga_mutex, double_buffer_select, locals>>

RunPostBuf(p) ==
  /\ Goto(p, "r_postbuf", IF buffer_index[p] = 0 THEN "r_postsel" ELSE "r_ret")
  /\ fpga_buffer_mutex' = fpga_buffer_mutex + 1
  /\ UNCHANGED <<card, fpga_mutex, double_buffer_select, locals>>

RunPostSel(p) ==
  /\ Goto(p, "r_postsel", "r_ret")
  /\ double_buffer_select' = double_buffer_select + 1
  /\ UNCHANGED <<card, fpga_mutex, fpga_buffer_mutex, locals>>

RunReturn(p) ==
  /\ Goto(p, "r_ret", "idle")
  /\ ret' = [ret EXCEPT ![p] = IF status[p] > 1 THEN "config" ELSE "ok"]
  /\ LocalsGone(p)
  /\ UNCHANGED <<card, sems, runs, ready, result>>

-----------------------------------------------------------------------------
(* A caller dies inside a call (obtain_fpga_dev_name has an exit(1) of its *)
(* own) and is started again: the semaphores stay as they are, its context *)
(* and what it had read are gone.                                          *)
Crash(p) ==
  /\ pc[p] # "idle"
  /\ crashes < MaxCrash
  /\ crashes' = crashes + 1
  /\ pc'    = [pc EXCEPT ![p] = "idle"]
  /\ ready' = [ready EXCEPT ![p] = FALSE]
  /\ ret'   = [ret EXCEPT ![p] = "none"]
  /\ result' = [result EXCEPT ![p] = NoProduct]
  /\ LocalsGone(p)
  /\ UNCHANGED <<card, sems, runs>>

CardMoves == CardStep /\ UNCHANGED <<sems, pc, locals, crashes>>

InitStep(p) ==
  \/ InitWait(p) \/ InitDev(p) \/ InitDevFail(p) \/ InitUpload(p)
  \/ InitStart(p) \/ InitPoll(p) \/ InitPost(p)

RunStep(p) ==
  \/ RunDev(p) \/ RunDevFail(p) \/ RunWaitBuf(p) \/ RunSelect(p) \/ RunVec(p)
  \/ RunMat(p) \/ RunWaitFpga(p) \/ RunStart(p) \/ RunPoll(p) \/ RunTimeout(p)
  \/ RunPost(p) \/ RunRead(p) \/ RunPostBuf(p) \/ RunPostSel(p)
  \/ RunReturn(p)

Step(p) == InitStep(p) \/ RunStep(p) \/ PollMiss(p)

Next ==
  \/ CardMoves
  \/ \E p \in Callers : \/ CallInit(p)
                        \/ \E b \in BOOLEAN : CallRun(p, b)
                        \/ Step(p)
                        \/ Crash(p)

Spec == Init /\ [][Next]_vars

(* A caller that is inside a call keeps running, and a card that was       *)
(* started works until it is done.  Nothing forces a caller to call.       *)
FairSpec ==
  /\ Spec
  /\ WF_vars(CardMoves)
  /\ \A p \in Callers : WF_vars(Step(p))

-----------------------------------------------------------------------------
(* PROPERTIES *)

(* Every variable has a value of its type; the three counting semaphores   *)
(* never exceed the values they were opened with.                          *)
TypeOK ==
  /\ CardTypeOK
  /\ fpga_mutex \in 0..1
  /\ fpga_buffer_mutex \in 0..2
  /\ double_buffer_select \in 0..1
  /\ pc           \in [Callers -> Pcs]
  /\ buffer_index \in [Callers -> {0, 1}]
  /\ bad          \in [Callers -> BOOLEAN]
  /\ tries        \in [Callers -> 0..(MaxTry - 1)]
  /\ status       \in [Callers -> 0..2]
  /\ runs         \in [Callers -> 0..MaxRuns]
  /\ ready        \in [Callers -> BOOLEAN]
  /\ result       \in [Callers -> Products]
  /\ ret          \in [Callers -> Returns]
  /\ crashes      \in 0..MaxCrash

(* Between sem_wait(fpga_mutex) and sem_post(fpga_mutex).                  *)
FpgaPcs == {"i_dev", "i_upload", "i_start", "i_poll", "i_post",
            "r_start", "r_poll", "r_post"}
(* Between sem_wait(fpga_buffer_mutex) and sem_post(fpga_buffer_mutex).    *)
BufferPcs == {"r_sel", "r_vec", "r_mat", "r_fpga", "r_start", "r_poll",
              "r_post", "r_read", "r_postbuf"}
(* Between the choice of a slot and its release.                           *)
SlotPcs == BufferPcs \ {"r_sel"}

(* The registers, the key upload and the computation belong to one caller  *)
(* at a time, across KernelInit and KernelRun, whatever fails and whoever  *)
(* dies: no start can reach the card between a caller's start and its last *)
(* DONE read.                                                              *)
FpgaExclusive ==
  \A p, q \in Callers : pc[p] \in FpgaPcs /\ pc[q] \in FpgaPcs => p = q

(* Two callers that are in KernelRun with a slot have different slots, so  *)
(* neither overwrites the other's operands or result.                      *)
SlotsNotShared ==
  \A p, q \in Callers :
    pc[p] \in SlotPcs /\ pc[q] \in SlotPcs /\ p # q => Slot(p) # Slot(q)

(* KernelRun returns an error code exactly for a job that the card         *)
(* refuses, and otherwise the product of the vector, the matrix and the    *)
(* keys of its own caller.                                                 *)
AnswersRight ==
  \A p \in Callers :
    pc[p] = "r_ret" => IF bad[p] THEN status[p] > 1
                       ELSE status[p] <= 1 /\ result[p] = Own(p)

(* A return value of 0 ("success" in mvp_fpga_compute_result) means that   *)
(* h_result holds the caller's own product.                                *)
SuccessMeansResult ==
  \A p \in Callers : pc[p] = "r_ret" /\ status[p] <= 1 => result[p] = Own(p)

(* No caller waits forever in KernelInit or KernelRun.                     *)
EveryCallReturns ==
  \A p \in Callers : pc[p] # "idle" ~> pc[p] = "idle"

(* The driver with its card implements the service of MvpService: phase is *)
(* read off pc, the reply off KernelRun's return value and h_result.       *)
Phase(p) ==
  CASE pc[p] \in {"r_dev", "r_buf", "r_sel", "r_vec", "r_mat", "r_fpga"} -> "waiting"
    [] pc[p] \in {"r_start", "r_poll", "r_post"} -> "served"
    [] pc[p] \in {"r_read", "r_postbuf", "r_postsel", "r_ret"} -> "answered"
    [] OTHER -> "idle"

Reply(p) ==
  IF runs[p] = 0 \/ ret[p] = "none" THEN <<"none">>
  ELSE IF ret[p] = "ok" THEN <<"ok", result[p]>> ELSE <<ret[p]>>

Service == INSTANCE MvpService WITH
  phase   <- [p \in Callers |-> Phase(p)],
  calls   <- runs,
  refused <- bad,
  reply   <- [p \in Callers |-> Reply(p)]

(* KernelRun serves every job, one at a time, and answers each with its    *)
(* own product or with a refusal.                                          *)
ImplementsService == Service!Spec
=============================================================================
