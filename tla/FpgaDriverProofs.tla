-------------------------- MODULE FpgaDriverProofs --------------------------
(***************************************************************************)
(* Theorems about FpgaDriver, for any number of callers, runs, tries and   *)
(* crashes and any choice of faults.                                       *)
(*                                                                         *)
(* The argument is about semaphores: whoever is between a sem_wait and its *)
(* sem_post holds one unit, and the value plus the units held never        *)
(* exceeds the initial value.  It is an inequality because a failed        *)
(* KernelInit and a crash keep their units forever.                        *)
(***************************************************************************)
EXTENDS FpgaDriver, FiniteSetTheorems, TLAPS

(* The caller that won double_buffer_select gives it back last of all.     *)
SelectPcs == SlotPcs \cup {"r_postsel"}

HoldsFpga(p)   == pc[p] \in FpgaPcs
HoldsBuffer    == {p \in Callers : pc[p] \in BufferPcs}
HoldsSelect(p) == pc[p] \in SelectPcs /\ buffer_index[p] = 0

(* The types without the semaphores' upper bounds, and with what a job     *)
(* number needs to be one.                                                 *)
LocalTypes ==
  /\ pc           \in [Callers -> Pcs]
  /\ buffer_index \in [Callers -> {0, 1}]
  /\ bad          \in [Callers -> BOOLEAN]
  /\ tries        \in [Callers -> 0..(MaxTry - 1)]
  /\ status       \in [Callers -> 0..2]
  /\ runs         \in [Callers -> 0..MaxRuns]
  /\ ready        \in [Callers -> BOOLEAN]
  /\ result       \in [Callers -> Products]
  /\ ret          \in [Callers -> Returns]
  /\ crashes      \in 0..MaxCrash
  /\ \A p \in Callers : pc[p] \in RunPcs => runs[p] # 0

FpgaInv ==
  /\ fpga_mutex \in 0..1
  /\ fpga_mutex = 1 => \A p \in Callers : ~HoldsFpga(p)
  /\ \A p, q \in Callers : HoldsFpga(p) /\ HoldsFpga(q) => p = q

BufferInv ==
  /\ fpga_buffer_mutex \in Nat
  /\ fpga_buffer_mutex + Cardinality(HoldsBuffer) <= 2

SelectInv ==
  /\ double_buffer_select \in 0..1
  /\ double_buffer_select = 1 => \A p \in Callers : ~HoldsSelect(p)
  /\ \A p, q \in Callers : HoldsSelect(p) /\ HoldsSelect(q) => p = q
  /\ \A p \in Callers : pc[p] = "r_postsel" => HoldsSelect(p)

(* With no crash somebody holds a unit that is missing.                    *)
SelectHeld ==
  double_buffer_select = 0 => \E p \in Callers : HoldsSelect(p)

IInv == CardTypeOK /\ LocalTypes /\ FpgaInv /\ BufferInv /\ SelectInv

-----------------------------------------------------------------------------
(* The steps of KernelInit and KernelRun by what they do to fpga_mutex.    *)
TakesFpga(p)  == InitWait(p) \/ RunWaitFpga(p)
PostsFpga(p)  == InitPost(p) \/ RunPost(p)
InsideFpga(p) ==
  \/ InitDev(p) \/ InitDevFail(p) \/ InitUpload(p) \/ InitStart(p)
  \/ InitPoll(p) \/ RunStart(p) \/ RunPoll(p) \/ RunTimeout(p)
OutsideFpga(p) ==
  \/ CallInit(p) \/ (\E b \in BOOLEAN : CallRun(p, b))
  \/ RunDev(p) \/ RunDevFail(p) \/ RunWaitBuf(p) \/ RunSelect(p)
  \/ RunVec(p) \/ RunMat(p) \/ RunRead(p) \/ RunPostBuf(p)
  \/ RunPostSel(p) \/ RunReturn(p)

(* A step is the card's, or some caller's, and then one of these.          *)
LEMMA NextByFpga ==
  ASSUME Next
  PROVE  \/ CardMoves
         \/ \E p \in Callers : \/ TakesFpga(p) \/ PostsFpga(p) \/ InsideFpga(p)
                               \/ OutsideFpga(p) \/ PollMiss(p) \/ Crash(p)
BY DEF Next, Step, InitStep, RunStep, TakesFpga, PostsFpga, InsideFpga,
       OutsideFpga

(* Every step preserves the invariant of fpga_mutex: a caller enters the   *)
(* section of KernelInit or KernelRun only by taking the unit, posts it    *)
(* only from inside, and may leave without posting (an early return, a     *)
(* crash) but never post without leaving.                                  *)
LEMMA FpgaInvStep ==
  ASSUME LocalTypes, FpgaInv, Next
  PROVE  FpgaInv'
<1> USE DEF LocalTypes, FpgaInv, HoldsFpga, FpgaPcs
<1>1. CASE CardMoves
  BY <1>1 DEF CardMoves, sems
<1>2. ASSUME NEW p \in Callers, TakesFpga(p) PROVE FpgaInv'
  BY <1>2 DEF TakesFpga, InitWait, RunWaitFpga, Goto
<1>3. ASSUME NEW p \in Callers, PostsFpga(p) PROVE FpgaInv'
  BY <1>3 DEF PostsFpga, InitPost, RunPost, Goto
<1>4. ASSUME NEW p \in Callers, InsideFpga(p) PROVE FpgaInv'
  BY <1>4 DEF InsideFpga, InitDev, InitDevFail, InitUpload, InitStart,
              InitPoll, RunStart, RunPoll, RunTimeout, Goto, sems
<1>5. ASSUME NEW p \in Callers, OutsideFpga(p) PROVE FpgaInv'
  BY <1>5 DEF OutsideFpga, CallInit, CallRun, RunDev, RunDevFail, RunWaitBuf,
              RunSelect, RunVec, RunMat, RunRead, RunPostBuf, RunPostSel,
              RunReturn, Goto, sems
<1>6. ASSUME NEW p \in Callers, PollMiss(p) PROVE FpgaInv'
  BY <1>6 DEF PollMiss, sems
<1>7. ASSUME NEW p \in Callers, Crash(p) PROVE FpgaInv'
  BY <1>7 DEF Crash, sems
<1>8. QED BY <1>1, <1>2, <1>3, <1>4, <1>5, <1>6, <1>7, NextByFpga

-----------------------------------------------------------------------------
(* The same steps by what they do to the other two semaphores.             *)
InKernelInit(p) ==
  \/ CallInit(p) \/ InitWait(p) \/ InitDev(p) \/ InitDevFail(p)
  \/ InitUpload(p) \/ InitStart(p) \/ InitPoll(p) \/ InitPost(p)
BeforeBuffer(p) ==
  (\E b \in BOOLEAN : CallRun(p, b)) \/ RunDev(p) \/ RunDevFail(p)
WithSlot(p) ==
  \/ RunVec(p) \/ RunMat(p) \/ RunWaitFpga(p) \/ RunStart(p)
  \/ RunPoll(p) \/ RunTimeout(p) \/ RunPost(p) \/ RunRead(p)

(* The next-state relation by what it does to the buffers.                 *)
LEMMA NextByBuffer ==
  ASSUME Next
  PROVE  \/ CardMoves
         \/ \E p \in Callers :
              \/ InKernelInit(p) \/ BeforeBuffer(p) \/ RunWaitBuf(p)
              \/ RunSelect(p) \/ WithSlot(p) \/ RunPostBuf(p) \/ RunPostSel(p)
              \/ RunReturn(p) \/ PollMiss(p) \/ Crash(p)
BY DEF Next, Step, InitStep, RunStep, InKernelInit, BeforeBuffer, WithSlot

(* Every step preserves the invariant of double_buffer_select, so at most  *)
(* one caller at a time has buffer_index 0.                                *)
LEMMA SelectInvStep ==
  ASSUME LocalTypes, SelectInv, Next
  PROVE  SelectInv'
<1> USE DEF LocalTypes, SelectInv, HoldsSelect, SelectPcs, SlotPcs, BufferPcs
<1>1. CASE CardMoves
  BY <1>1 DEF CardMoves, sems, locals
<1>2. ASSUME NEW p \in Callers, InKernelInit(p) PROVE SelectInv'
  BY <1>2 DEF InKernelInit, CallInit, InitWait, InitDev, InitDevFail,
              InitUpload, InitStart, InitPoll, InitPost, Goto, sems, locals
<1>3. ASSUME NEW p \in Callers, BeforeBuffer(p) PROVE SelectInv'
  BY <1>3 DEF LocalsGone, BeforeBuffer, CallRun, RunDev, RunDevFail, Goto,
              sems, locals
<1>4. ASSUME NEW p \in Callers, RunWaitBuf(p) PROVE SelectInv'
  BY <1>4 DEF RunWaitBuf, Goto, locals
<1>5. ASSUME NEW p \in Callers, RunSelect(p) PROVE SelectInv'
  BY <1>5 DEF RunSelect, Goto
<1>6. ASSUME NEW p \in Callers, WithSlot(p) PROVE SelectInv'
  BY <1>6 DEF WithSlot, RunVec, RunMat, RunWaitFpga, RunStart, RunPoll,
              RunTimeout, RunPost, RunRead, Goto, sems, locals
<1>7. ASSUME NEW p \in Callers, RunPostBuf(p) PROVE SelectInv'
  BY <1>7 DEF RunPostBuf, Goto, locals
<1>8. ASSUME NEW p \in Callers, RunPostSel(p) PROVE SelectInv'
  BY <1>8 DEF RunPostSel, Goto, locals
<1>9. ASSUME NEW p \in Callers, RunReturn(p) PROVE SelectInv'
  BY <1>9 DEF LocalsGone, RunReturn, Goto, sems
<1>10. ASSUME NEW p \in Callers, PollMiss(p) PROVE SelectInv'
  BY <1>10 DEF PollMiss, sems
<1>11. ASSUME NEW p \in Callers, Crash(p) PROVE SelectInv'
  BY <1>11 DEF LocalsGone, Crash, sems
<1>12. QED BY <1>1, <1>2, <1>3, <1>4, <1>5, <1>6, <1>7, <1>8, <1>9, <1>10,
              <1>11, NextByBuffer

MovesTo(p, to) == pc' = [pc EXCEPT ![p] = to] /\ to \in Pcs

(* What a caller's step from one label to another does to the set of those *)
(* who hold a slot: nothing, one more or one less.                         *)
LEMMA HoldersMove ==
  ASSUME NEW p \in Callers, NEW to, MovesTo(p, to), pc \in [Callers -> Pcs]
  PROVE  /\ IsFiniteSet(HoldsBuffer) /\ Cardinality(HoldsBuffer) \in Nat
         /\ (pc[p] \in BufferPcs <=> to \in BufferPcs) =>
               Cardinality(HoldsBuffer') = Cardinality(HoldsBuffer)
         /\ pc[p] \notin BufferPcs /\ to \in BufferPcs =>
               Cardinality(HoldsBuffer') = Cardinality(HoldsBuffer) + 1
         /\ pc[p] \in BufferPcs /\ to \notin BufferPcs =>
               Cardinality(HoldsBuffer') = Cardinality(HoldsBuffer) - 1
<1>1. IsFiniteSet(HoldsBuffer) /\ Cardinality(HoldsBuffer) \in Nat
  BY CallersAssumption, FS_Subset, FS_CardinalityType DEF HoldsBuffer
<1>2. HoldsBuffer' = IF to \in BufferPcs THEN HoldsBuffer \cup {p}
                     ELSE HoldsBuffer \ {p}
  BY DEF HoldsBuffer, MovesTo
<1>3. p \in HoldsBuffer <=> pc[p] \in BufferPcs
  BY DEF HoldsBuffer
<1>4. p \in HoldsBuffer => HoldsBuffer \cup {p} = HoldsBuffer
  OBVIOUS
<1>5. p \notin HoldsBuffer => HoldsBuffer \ {p} = HoldsBuffer
  OBVIOUS
<1>6. p \notin HoldsBuffer =>
        Cardinality(HoldsBuffer \cup {p}) = Cardinality(HoldsBuffer) + 1
  BY <1>1, FS_AddElement
<1>7. p \in HoldsBuffer =>
        Cardinality(HoldsBuffer \ {p}) = Cardinality(HoldsBuffer) - 1
  BY <1>1, FS_RemoveElement
<1>8. QED BY <1>1, <1>2, <1>3, <1>4, <1>5, <1>6, <1>7

(* Every step preserves the invariant of fpga_buffer_mutex.                *)
LEMMA BufferInvStep ==
  ASSUME LocalTypes, BufferInv, Next
  PROVE  BufferInv'
<1> USE DEF LocalTypes, BufferInv
<1>0. CASE UNCHANGED <<pc, fpga_buffer_mutex>>
  BY <1>0 DEF HoldsBuffer
<1>1. CASE CardMoves
  BY <1>1, <1>0 DEF CardMoves, sems
<1> DEFINE Kept(p, to) == MovesTo(p, to) /\ UNCHANGED fpga_buffer_mutex
<1>a. ASSUME NEW p \in Callers, NEW to, Kept(p, to),
             pc[p] \in BufferPcs \/ to \notin BufferPcs
      PROVE  BufferInv'
  BY <1>a, HoldersMove
<1>2. ASSUME NEW p \in Callers, InKernelInit(p) PROVE BufferInv'
  <2>1. \E to \in Pcs : Kept(p, to) /\ to \notin BufferPcs
    BY <1>2 DEF InKernelInit, CallInit, InitWait, InitDev, InitDevFail,
                InitUpload, InitStart, InitPoll, InitPost, Goto, MovesTo, sems, Pcs,
                InitPcs, BufferPcs
  <2>2. QED BY <2>1, <1>a
<1>3. ASSUME NEW p \in Callers, BeforeBuffer(p) PROVE BufferInv'
  <2>1. \E to \in Pcs : Kept(p, to) /\ to \notin BufferPcs
    BY <1>3 DEF BeforeBuffer, CallRun, RunDev, RunDevFail, Goto, MovesTo, sems, Pcs,
                RunPcs, BufferPcs
  <2>2. QED BY <2>1, <1>a
<1>4. ASSUME NEW p \in Callers, RunWaitBuf(p) PROVE BufferInv'
  <2>1. /\ MovesTo(p, "r_sel")
        /\ pc[p] \notin BufferPcs /\ "r_sel" \in BufferPcs
    BY <1>4 DEF RunWaitBuf, Goto, MovesTo, BufferPcs, Pcs, RunPcs
  <2>2. QED BY <1>4, <2>1, HoldersMove DEF RunWaitBuf
<1>5. ASSUME NEW p \in Callers, RunSelect(p) PROVE BufferInv'
  <2>1. Kept(p, "r_vec") /\ pc[p] \in BufferPcs
    BY <1>5 DEF RunSelect, Goto, MovesTo, BufferPcs, Pcs, RunPcs
  <2>2. QED BY <2>1, <1>a
<1>6. ASSUME NEW p \in Callers, WithSlot(p) PROVE BufferInv'
  <2>1. pc[p] \in BufferPcs /\ \E to \in Pcs : Kept(p, to)
    BY <1>6 DEF WithSlot, RunVec, RunMat, RunWaitFpga, RunStart, RunPoll,
                RunTimeout, RunPost, RunRead, Goto, MovesTo, sems, BufferPcs,
                Pcs, RunPcs
  <2>2. QED BY <2>1, <1>a
<1>7. ASSUME NEW p \in Callers, RunPostBuf(p) PROVE BufferInv'
  <2>1. PICK to \in {"r_postsel", "r_ret"} : MovesTo(p, to)
    BY <1>7 DEF RunPostBuf, Goto, MovesTo, Pcs, RunPcs
  <2>2. pc[p] \in BufferPcs /\ to \notin BufferPcs
    BY <1>7 DEF RunPostBuf, Goto, BufferPcs
  <2>3. QED BY <1>7, <2>1, <2>2, HoldersMove DEF RunPostBuf
<1>8. ASSUME NEW p \in Callers, RunPostSel(p) \/ RunReturn(p)
      PROVE  BufferInv'
  <2>1. \E to \in Pcs : Kept(p, to) /\ to \notin BufferPcs
    BY <1>8 DEF RunPostSel, RunReturn, Goto, MovesTo, sems, Pcs, RunPcs, BufferPcs
  <2>2. QED BY <2>1, <1>a
<1>9. ASSUME NEW p \in Callers, PollMiss(p) PROVE BufferInv'
  BY <1>9, <1>0 DEF PollMiss, sems
<1>10. ASSUME NEW p \in Callers, Crash(p) PROVE BufferInv'
  <2>1. Kept(p, "idle") /\ "idle" \notin BufferPcs
    BY <1>10 DEF Crash, MovesTo, sems, Pcs, BufferPcs
  <2>2. QED BY <2>1, <1>a
<1>11. QED BY <1>1, <1>2, <1>3, <1>4, <1>5, <1>6, <1>7, <1>8, <1>9, <1>10,
              NextByBuffer

-----------------------------------------------------------------------------
(* What goes into device memory and into a result is of its type.          *)
LEMMA ProductType ==
  ASSUME NEW v \in Jobs \cup {NoJob}, NEW m \in Jobs \cup {NoJob},
         NEW k \in Keys \cup {NoKey}
  PROVE  Product(v, m, k) \in Products
BY DEF Product, Products

(* The fields of a job.                                                    *)
LEMMA JobType ==
  ASSUME LocalTypes, NEW p \in Callers, pc[p] \in RunPcs
  PROVE  Job(p) \in Jobs
BY CallersAssumption DEF LocalTypes, Job, Jobs

(* The fields of a slot.                                                   *)
LEMMA SlotType ==
  ASSUME NEW p \in Callers
  PROVE  Slot(p) \in Slots
BY DEF Slot, SlotOf, Slots

(* No product is a product, too.                                           *)
LEMMA NoProductType == NoProduct \in Products
BY ProductType DEF NoProduct

(* A start leaves the run and the late transfers of their types.           *)
LEMMA RestartType ==
  ASSUME CardTypeOK, NEW st \in RunStates, NEW s \in Slots,
         Restart(Run(st, s, NoProduct))
  PROVE  /\ run' \in [state : RunStates, slot : Slots, data : Products]
         /\ late' \in SUBSET [slot : Slots, data : Products]
BY NoProductType DEF CardTypeOK, Restart, Run, RunStates

(* The card by itself keeps its state well typed.                          *)
LEMMA CardStepType ==
  ASSUME CardTypeOK, CardStep
  PROVE  CardTypeOK'
<1> USE DEF CardTypeOK
<1>0. /\ Idle \in [state : RunStates, slot : Slots, data : Products]
      /\ \A s \in Slots, d \in Products, st \in RunStates :
           Run(st, s, d) \in [state : RunStates, slot : Slots, data : Products]
  BY NoProductType DEF Idle, Run, RunStates, Slots
<1>1. CASE LoadKsk
  BY <1>0, <1>1 DEF LoadKsk
<1>2. CASE Fetch
  <2>1. Product(input[run.slot].vec, input[run.slot].mat, ksk) \in Products
    BY ProductType
  <2>2. "compute" \in RunStates
    BY DEF RunStates
  <2>3. QED BY <1>0, <1>2, <2>1, <2>2 DEF Fetch
<1>3. CASE Compute
  <2>1. "write" \in RunStates
    BY DEF RunStates
  <2>2. QED BY <1>0, <1>3, <2>1 DEF Compute
<1>4. CASE WriteOut
  BY <1>0, <1>4 DEF WriteOut
<1>5. CASE WriteLate
  BY <1>5 DEF WriteLate
<1>6. QED BY <1>1, <1>2, <1>3, <1>4, <1>5 DEF CardStep

(* The steps of a caller that reach the card.                              *)
TouchesCard(p) ==
  InitUpload(p) \/ InitStart(p) \/ RunVec(p) \/ RunMat(p) \/ RunStart(p)

(* Every step keeps the types of the card.                                 *)
LEMMA CardTypeStep ==
  ASSUME CardTypeOK, LocalTypes, Next
  PROVE  CardTypeOK'
<1>0. CASE UNCHANGED card
  BY <1>0 DEF card, CardTypeOK
<1>1. CASE CardMoves
  BY <1>1, CardStepType DEF CardMoves
<1>2. ASSUME NEW p \in Callers, InitUpload(p) PROVE CardTypeOK'
  BY <1>2 DEF InitUpload, Transfer, CardTypeOK, Keys
<1>3. ASSUME NEW p \in Callers, InitStart(p) PROVE CardTypeOK'
  <2>1. "ksk" \in RunStates /\ 1 \in Slots
    BY DEF RunStates, Slots
  <2>2. CASE StartKsk
    <3>1. Restart(Run("ksk", 1, NoProduct)) BY <2>2 DEF StartKsk
    <3>2. QED BY <1>3, <2>1, <2>2, <3>1, RestartType
              DEF InitStart, StartKsk, CardTypeOK
  <2>3. QED BY <1>0, <1>3, <2>2 DEF InitStart, card
<1>4. ASSUME NEW p \in Callers, RunVec(p) PROVE CardTypeOK'
  <2>1. Job(p) \in Jobs
    BY <1>4, JobType DEF RunVec, Goto, RunPcs
  <2>2. QED BY <1>4, <2>1, SlotType DEF RunVec, Transfer, PutVec, CardTypeOK
<1>5. ASSUME NEW p \in Callers, RunMat(p) PROVE CardTypeOK'
  <2>1. Job(p) \in Jobs
    BY <1>5, JobType DEF RunMat, Goto, RunPcs
  <2>2. QED BY <1>5, <2>1, SlotType DEF RunMat, Transfer, PutMat, CardTypeOK
<1>6. ASSUME NEW p \in Callers, RunStart(p) PROVE CardTypeOK'
  <2>1. "fetch" \in RunStates /\ Slot(p) \in Slots /\ bad[p] \in BOOLEAN
    BY SlotType DEF RunStates, LocalTypes
  <2>2. CASE StartRun(Slot(p), bad[p]) /\ bad[p]
    BY <1>6, <2>1, <2>2 DEF RunStart, StartRun, CardTypeOK
  <2>3. CASE StartRun(Slot(p), bad[p]) /\ ~bad[p]
    <3>1. Restart(Run("fetch", Slot(p), NoProduct)) BY <2>3 DEF StartRun
    <3>2. QED BY <1>6, <2>1, <2>3, <3>1, RestartType
              DEF RunStart, StartRun, CardTypeOK
  <2>4. QED BY <1>0, <1>6, <2>2, <2>3 DEF RunStart, card
<1>7. ASSUME ~CardMoves, \A q \in Callers : ~TouchesCard(q)
      PROVE  UNCHANGED card
  BY <1>7 DEF TouchesCard, Next, Step, InitStep, RunStep, CallInit, CallRun,
     InitWait, InitDev, InitDevFail, InitPoll, InitPost, RunDev, RunDevFail,
     RunWaitBuf, RunSelect, RunWaitFpga, RunPoll, RunTimeout, RunPost,
     RunRead, RunPostBuf, RunPostSel, RunReturn, PollMiss, Crash
<1>8. QED BY <1>0, <1>1, <1>2, <1>3, <1>4, <1>5, <1>6, <1>7
          DEF TouchesCard, Next

-----------------------------------------------------------------------------
(* The end of a call leaves KernelRun's variables well typed.              *)
LEMMA LocalsGoneTypes ==
  ASSUME LocalTypes, NEW p \in Callers, LocalsGone(p)
  PROVE  /\ buffer_index' \in [Callers -> {0, 1}]
         /\ bad'    \in [Callers -> BOOLEAN]
         /\ tries'  \in [Callers -> 0..(MaxTry - 1)]
         /\ status' \in [Callers -> 0..2]
<1>1. bad' \in [Callers -> BOOLEAN]
  BY Zenon DEF LocalTypes, LocalsGone
<1>2. QED BY <1>1, DriverAssumption DEF LocalTypes, LocalsGone

(* Every step keeps the callers' own variables well typed.                 *)
LEMMA LocalTypesStep ==
  ASSUME CardTypeOK, LocalTypes, Next
  PROVE  LocalTypes'
<1> USE CallersAssumption, DriverAssumption
    DEF LocalTypes, Pcs, InitPcs, RunPcs, Returns
<1>1. CASE CardMoves
  BY <1>1 DEF CardMoves, locals
<1>2. ASSUME NEW p \in Callers, InKernelInit(p) PROVE LocalTypes'
  <2>1. CASE CallInit(p) \/ InitDevFail(p)
    BY <2>1 DEF CallInit, InitDevFail, Goto
  <2>2. CASE InitWait(p) \/ InitDev(p) \/ InitUpload(p) \/ InitPoll(p)
    BY <2>2 DEF InitWait, InitDev, InitUpload, InitPoll, Goto, locals
  <2>3. CASE InitStart(p)
    BY <2>3 DEF InitStart, Goto
  <2>4. CASE InitPost(p)
    BY <2>4 DEF InitPost, Goto
  <2>5. QED BY <1>2, <2>1, <2>2, <2>3, <2>4 DEF InKernelInit
<1>3. ASSUME NEW p \in Callers, BeforeBuffer(p) PROVE LocalTypes'
  <2>1. CASE RunDevFail(p)
    BY <2>1, LocalsGoneTypes DEF RunDevFail, Goto
  <2>2. CASE RunDev(p) \/ \E b \in BOOLEAN : CallRun(p, b)
    BY <2>2, NoProductType DEF CallRun, RunDev, Goto, locals
  <2>3. QED BY <1>3, <2>1, <2>2 DEF BeforeBuffer
<1>4. ASSUME NEW p \in Callers, RunWaitBuf(p) \/ RunSelect(p)
      PROVE  LocalTypes'
  BY <1>4 DEF RunWaitBuf, RunSelect, Goto, locals
<1>5. ASSUME NEW p \in Callers, RunRead(p) PROVE LocalTypes'
  <2>1. output[Slot(p)] \in Products
    BY SlotType DEF CardTypeOK
  <2>2. QED BY <1>5, <2>1 DEF RunRead, Transfer, Goto
<1>6. ASSUME NEW p \in Callers, WithSlot(p), ~RunRead(p) PROVE LocalTypes'
  BY <1>6 DEF WithSlot, RunVec, RunMat, RunWaitFpga, RunStart, RunPoll,
              RunTimeout, RunPost, Goto, locals
<1>7. ASSUME NEW p \in Callers, RunPostBuf(p) \/ RunPostSel(p) \/ RunReturn(p)
      PROVE  LocalTypes'
  <2>1. CASE RunReturn(p)
    BY <2>1, LocalsGoneTypes DEF RunReturn, Goto
  <2>2. CASE RunPostBuf(p) \/ RunPostSel(p)
    BY <2>2 DEF RunPostBuf, RunPostSel, Goto, locals
  <2>3. QED BY <1>7, <2>1, <2>2
<1>8. ASSUME NEW p \in Callers, PollMiss(p) PROVE LocalTypes'
  BY <1>8 DEF PollMiss
<1>9. ASSUME NEW p \in Callers, Crash(p) PROVE LocalTypes'
  BY <1>9, LocalsGoneTypes, NoProductType DEF Crash
<1>10. QED BY <1>1, <1>2, <1>3, <1>4, <1>5, <1>6, <1>7, <1>8, <1>9,
              NextByBuffer

-----------------------------------------------------------------------------
(* The invariant holds initially.                                          *)
LEMMA IInvInit ==
  ASSUME Init
  PROVE  IInv
<1> USE CallersAssumption, DriverAssumption DEF Init
<1>1. CardTypeOK
  BY NoProductType DEF CardInit, CardTypeOK, Slots, Idle, Run, RunStates
<1>2. LocalTypes
  BY NoProductType DEF LocalTypes, Pcs, RunPcs, Returns
<1>3. FpgaInv
  BY DEF FpgaInv, HoldsFpga, FpgaPcs
<1>4. BufferInv
  <2>1. HoldsBuffer = {}
    BY DEF HoldsBuffer, BufferPcs
  <2>2. QED BY <2>1, FS_EmptySet DEF BufferInv
<1>5. SelectInv
  BY DEF SelectInv, HoldsSelect, SelectPcs, SlotPcs, BufferPcs
<1>6. QED BY <1>1, <1>2, <1>3, <1>4, <1>5 DEF IInv

(* And every step preserves it.                                            *)
LEMMA IInvStep ==
  ASSUME IInv, [Next]_vars
  PROVE  IInv'
<1>1. CASE Next
  BY <1>1, CardTypeStep, LocalTypesStep, FpgaInvStep, BufferInvStep,
     SelectInvStep DEF IInv
<1>2. CASE UNCHANGED vars
  BY <1>2 DEF vars, card, sems, locals, IInv, CardTypeOK, LocalTypes, FpgaInv,
     HoldsFpga, BufferInv, HoldsBuffer, SelectInv, HoldsSelect
<1>3. QED BY <1>1, <1>2

(* In every reachable state every variable has a value of its type, and no *)
(* semaphore of mvp_fpga_lib.h exceeds the value it was opened with: no    *)
(* unit is ever posted that was not taken.                                 *)
THEOREM TypeCorrect == Spec => []TypeOK
<1>1. ASSUME IInv PROVE TypeOK
  <2>1. fpga_buffer_mutex \in 0..2
    <3>1. Cardinality(HoldsBuffer) \in Nat
      BY CallersAssumption, FS_Subset, FS_CardinalityType DEF HoldsBuffer
    <3>2. QED BY <1>1, <3>1 DEF IInv, BufferInv
  <2>2. QED BY <1>1, <2>1 DEF IInv, LocalTypes, FpgaInv, SelectInv, TypeOK
<1>2. QED BY <1>1, IInvInit, IInvStep, PTL DEF Spec

(* KernelInit and KernelRun exclude each other on the card: for any number *)
(* of callers, whatever transfer or register access fails, whichever poll  *)
(* loop runs out and whoever dies, at most one caller is between its wait  *)
(* for fpga_mutex and its post.                                            *)
THEOREM Exclusion == Spec => []FpgaExclusive
<1>1. ASSUME IInv PROVE FpgaExclusive
  BY <1>1 DEF IInv, FpgaInv, HoldsFpga, FpgaExclusive
<1>2. QED BY <1>1, IInvInit, IInvStep, PTL DEF Spec

-----------------------------------------------------------------------------
(* With at most two callers and no crash the index semaphore is enough.    *)

(* The selecting semaphore stays with the one caller that selects.         *)
LEMMA SelectHeldStep ==
  ASSUME MaxCrash = 0, LocalTypes, SelectInv, SelectHeld, Next
  PROVE  SelectHeld'
<1> USE DEF LocalTypes, SelectInv, SelectHeld, HoldsSelect, SelectPcs, SlotPcs,
            BufferPcs
<1>1. CASE CardMoves
  BY <1>1 DEF CardMoves, sems, locals
<1>2. ASSUME NEW p \in Callers, InKernelInit(p) PROVE SelectHeld'
  BY <1>2 DEF InKernelInit, CallInit, InitWait, InitDev, InitDevFail,
              InitUpload, InitStart, InitPoll, InitPost, Goto, sems, locals
<1>3. ASSUME NEW p \in Callers, BeforeBuffer(p) PROVE SelectHeld'
  BY <1>3 DEF LocalsGone, BeforeBuffer, CallRun, RunDev, RunDevFail, Goto,
              sems, locals
<1>4. ASSUME NEW p \in Callers, RunWaitBuf(p) PROVE SelectHeld'
  BY <1>4 DEF RunWaitBuf, Goto, locals
<1>5. ASSUME NEW p \in Callers, RunSelect(p) PROVE SelectHeld'
  BY <1>5 DEF RunSelect, Goto
<1>6. ASSUME NEW p \in Callers, WithSlot(p) PROVE SelectHeld'
  BY <1>6 DEF WithSlot, RunVec, RunMat, RunWaitFpga, RunStart, RunPoll,
              RunTimeout, RunPost, RunRead, Goto, sems, locals
<1>7. ASSUME NEW p \in Callers, RunPostBuf(p) PROVE SelectHeld'
  BY <1>7 DEF RunPostBuf, Goto, locals
<1>8. ASSUME NEW p \in Callers, RunPostSel(p) PROVE SelectHeld'
  BY <1>8 DEF RunPostSel, Goto
<1>9. ASSUME NEW p \in Callers, RunReturn(p) PROVE SelectHeld'
  BY <1>9 DEF LocalsGone, RunReturn, Goto, sems
<1>10. ASSUME NEW p \in Callers, PollMiss(p) PROVE SelectHeld'
  BY <1>10 DEF PollMiss, sems
<1>11. ASSUME NEW p \in Callers, Crash(p) PROVE SelectHeld'
  BY <1>11 DEF LocalsGone, Crash
<1>12. QED BY <1>1, <1>2, <1>3, <1>4, <1>5, <1>6, <1>7, <1>8, <1>9, <1>10,
              <1>11, NextByBuffer

AtMostTwo == \A p, q, r \in Callers : p = q \/ q = r \/ p = r

(* A caller that finds the index semaphore taken gets index 1; the caller  *)
(* that took it is the only other one, and has index 0.                    *)
LEMMA SlotsStep ==
  ASSUME AtMostTwo, LocalTypes, SelectInv, SelectHeld, SlotsNotShared, Next
  PROVE  SlotsNotShared'
<1> USE DEF LocalTypes, SelectInv, HoldsSelect, SelectPcs, SlotPcs, BufferPcs,
            SlotsNotShared, Slot, SlotOf
<1>1. CASE CardMoves
  BY <1>1 DEF CardMoves, locals
<1>2. ASSUME NEW p \in Callers, InKernelInit(p) PROVE SlotsNotShared'
  BY <1>2 DEF InKernelInit, CallInit, InitWait, InitDev, InitDevFail,
              InitUpload, InitStart, InitPoll, InitPost, Goto, locals
<1>3. ASSUME NEW p \in Callers, BeforeBuffer(p) PROVE SlotsNotShared'
  BY <1>3 DEF LocalsGone, BeforeBuffer, CallRun, RunDev, RunDevFail, Goto,
              locals
<1>4. ASSUME NEW p \in Callers, RunWaitBuf(p) PROVE SlotsNotShared'
  BY <1>4 DEF RunWaitBuf, Goto, locals
<1>5. ASSUME NEW p \in Callers, RunSelect(p) PROVE SlotsNotShared'
  <2>1. CASE double_buffer_select > 0
    BY <1>5, <2>1 DEF RunSelect, Goto
  <2>2. CASE ~(double_buffer_select > 0)
    <3>1. PICK q \in Callers : HoldsSelect(q)
      BY <2>2 DEF SelectHeld
    <3>2. \A r \in Callers : r = p \/ r = q
      BY <1>5, <3>1 DEF AtMostTwo, RunSelect, Goto
    <3>3. QED BY <1>5, <2>2, <3>1, <3>2 DEF RunSelect, Goto
  <2>3. QED BY <2>1, <2>2
<1>6. ASSUME NEW p \in Callers, WithSlot(p) PROVE SlotsNotShared'
  BY <1>6 DEF WithSlot, RunVec, RunMat, RunWaitFpga, RunStart, RunPoll,
              RunTimeout, RunPost, RunRead, Goto, locals
<1>7. ASSUME NEW p \in Callers, RunPostBuf(p) \/ RunPostSel(p) \/ RunReturn(p)
      PROVE  SlotsNotShared'
  BY <1>7 DEF LocalsGone, RunPostBuf, RunPostSel, RunReturn, Goto, locals
<1>8. ASSUME NEW p \in Callers, PollMiss(p) PROVE SlotsNotShared'
  BY <1>8 DEF PollMiss
<1>9. ASSUME NEW p \in Callers, Crash(p) PROVE SlotsNotShared'
  BY <1>9 DEF LocalsGone, Crash
<1>10. QED BY <1>1, <1>2, <1>3, <1>4, <1>5, <1>6, <1>7, <1>8, <1>9,
              NextByBuffer

(* Two callers of KernelRun never use the same memory slot, however long   *)
(* they run and whatever transfers and polls fail.  With a third caller    *)
(* this is false: see the run driver_slots_bug.                            *)
THEOREM TwoCallersShareNoSlot ==
  ASSUME AtMostTwo, MaxCrash = 0
  PROVE  Spec => []SlotsNotShared
<1> DEFINE J == IInv /\ SelectHeld /\ SlotsNotShared
<1>1. ASSUME Init PROVE J
  <2>1. SelectHeld
    BY <1>1 DEF Init, SelectHeld
  <2>2. SlotsNotShared
    BY <1>1 DEF Init, SlotsNotShared, SlotPcs, BufferPcs
  <2>3. QED BY <1>1, <2>1, <2>2, IInvInit
<1>2. ASSUME J, [Next]_vars PROVE J'
  <2>1. CASE Next
    BY <1>2, <2>1, IInvStep, SelectHeldStep, SlotsStep DEF IInv
  <2>2. CASE UNCHANGED vars
    BY <1>2, <2>2, IInvStep DEF vars, sems, locals, SelectHeld, HoldsSelect,
       SlotsNotShared, Slot
  <2>3. QED BY <1>2, <2>1, <2>2
<1>3. J => SlotsNotShared
  OBVIOUS
<1>4. QED BY <1>1, <1>2, <1>3, PTL DEF Spec

-----------------------------------------------------------------------------
(* What KernelRun gives back, for two callers of any number of runs, on a  *)
(* card that answers in time and transfers that arrive, and the refinement *)
(* of MvpService.                                                          *)
(*                                                                         *)
(* The argument follows a job through the card.  The caller that holds     *)
(* fpga_mutex is the only one that starts the card, so the card is busy    *)
(* exactly while that caller polls; what it computes is read from the slot *)
(* of that caller, which no other caller writes.                           *)

(* All callers have the same evaluation keys, as contexts of one machine   *)
(* must: the card has one key buffer.                                      *)
OneKeyForAll == \A p, q \in Callers : KeyOf[p] = KeyOf[q]

Polls(p) == pc[p] \in {"i_poll", "r_poll"}

(* The card is busy only while somebody waits for it, and is never         *)
(* restarted, so no transfer outlives its run.                             *)
CardBusy ==
  /\ late = {}
  /\ run.state # "idle" => \E p \in Callers : Polls(p)
  /\ run.state # "wedged"

(* The keys of the machine are in device memory when a caller starts their *)
(* load, and in the card when it is ready.                                 *)
KeysLoaded ==
  \A p \in Callers :
    /\ pc[p] \in {"i_start", "i_poll", "i_post"} => dramKsk = KeyOf[p]
    /\ pc[p] = "i_poll" => \/ run.state = "ksk" /\ ~done
                           \/ run.state = "idle" /\ ksk = KeyOf[p]
    /\ pc[p] = "i_post" => ksk = KeyOf[p]
    /\ ready[p] => ksk = KeyOf[p]
    /\ pc[p] \in RunPcs => ready[p]
    /\ pc[p] \in InitPcs => ~ready[p]

(* The operands of a job are in the slot of its caller.                    *)
OperandsIn ==
  \A p \in Callers :
    /\ pc[p] \in {"r_mat", "r_fpga", "r_start", "r_poll"} =>
         input[Slot(p)].vec = Job(p)
    /\ pc[p] \in {"r_fpga", "r_start", "r_poll"} =>
         input[Slot(p)].mat = Job(p)

(* What the card has made of the job of a caller that polls for it.        *)
JobOnCard ==
  \A p \in Callers : pc[p] = "r_poll" =>
    /\ err = bad[p]
    /\ outPtr = Slot(p)
    /\ bad[p] => run.state = "idle"
    /\ ~bad[p] =>
         \/ run.state = "fetch" /\ run.slot = Slot(p) /\ ~done
         \/ run.state = "compute" /\ run.data = Own(p) /\ ~done
         \/ /\ run.state = "write" /\ ~done
            /\ run.slot = Slot(p) /\ run.data = Own(p)
         \/ run.state = "idle" /\ output[Slot(p)] = Own(p)

(* What the caller has of it afterwards.                                   *)
AnswerTaken ==
  \A p \in Callers :
    /\ pc[p] \in {"r_post", "r_read", "r_postbuf", "r_postsel", "r_ret"} =>
         status[p] = IF bad[p] THEN 2 ELSE 1
    /\ pc[p] \in {"r_post", "r_read"} /\ ~bad[p] => output[Slot(p)] = Own(p)
    /\ pc[p] \in {"r_postbuf", "r_postsel", "r_ret"} /\ ~bad[p] =>
         result[p] = Own(p)

JobInv ==
  CardBusy /\ KeysLoaded /\ OperandsIn /\ JobOnCard /\ AnswerTaken

AInv == IInv /\ SelectHeld /\ SlotsNotShared /\ JobInv
-----------------------------------------------------------------------------
(* The hypotheses of the theorems: at most two callers, no crash, and no   *)
(* fault but a device that is not found.                                   *)
Calm ==
  AtMostTwo /\ MaxCrash = 0 /\ Faults \subseteq {"dev"} /\ OneKeyForAll

(* The caller that polls holds fpga_mutex, and is the only one.            *)
LEMMA OnePolls ==
  ASSUME FpgaInv, NEW p \in Callers, pc[p] \in FpgaPcs
  PROVE  \A q \in Callers : q # p => pc[q] \notin FpgaPcs
BY DEF FpgaInv, HoldsFpga

(* The card by itself moves the job of the caller that polls.              *)
LEMMA CardMovesJob ==
  ASSUME Calm, AInv, CardMoves
  PROVE  JobInv'
<1> USE DEF AInv, JobInv, IInv
<1>0. /\ UNCHANGED <<pc, buffer_index, bad, status, runs, ready, result>>
      /\ UNCHANGED <<input, dramKsk, outPtr, err>>
      /\ \A q \in Callers : /\ Slot(q)' = Slot(q) /\ Job(q)' = Job(q)
                            /\ Own(q)' = Own(q)
  BY DEF CardMoves, locals, CardStep, LoadKsk, Fetch, Compute, WriteOut,
         WriteLate, Slot, SlotOf, Job, Own, CardBusy
<1>1. PICK p \in Callers : Polls(p)
  BY DEF CardMoves, CardStep, LoadKsk, Fetch, Compute, WriteOut, WriteLate,
         CardBusy
<1>2. \A q \in Callers : q # p => pc[q] \notin FpgaPcs
  BY <1>1, OnePolls DEF Polls, FpgaPcs
<1>3. OperandsIn'
  BY <1>0 DEF OperandsIn
<1>4. CASE LoadKsk
  <2>1. pc[p] = "i_poll"
    BY <1>1, <1>4 DEF Polls, LoadKsk, JobOnCard
  <2>2. CardBusy'
    BY <1>4 DEF CardBusy, LoadKsk, Idle, Run
  <2>3. KeysLoaded'
    BY <1>0, <1>2, <1>4, <2>1 DEF KeysLoaded, LoadKsk, Idle, Run, Calm,
       OneKeyForAll, FpgaPcs
  <2>4. JobOnCard' /\ AnswerTaken'
    BY <1>0, <1>2, <1>4, <2>1 DEF LoadKsk, JobOnCard, AnswerTaken, FpgaPcs
  <2>5. QED BY <1>3, <2>2, <2>3, <2>4
<1>5. ASSUME Fetch \/ Compute \/ WriteOut PROVE JobInv'
  <2>1. pc[p] = "r_poll" /\ ~bad[p] /\ ~done
    BY <1>1, <1>5 DEF Polls, Fetch, Compute, WriteOut, KeysLoaded, JobOnCard
  <2>2. CardBusy'
    BY <1>0, <1>1, <1>5 DEF CardBusy, Fetch, Compute, WriteOut, Idle, Run, Polls
  <2>3. KeysLoaded'
    BY <1>0, <1>2, <1>5, <2>1 DEF KeysLoaded, Fetch, Compute, WriteOut,
       FpgaPcs
  <2>4. JobOnCard'
    <3>1. CASE Fetch
      <4>1. run.data' = Own(p)
        BY <1>1, <3>1, <2>1 DEF Fetch, Run, OperandsIn, KeysLoaded, JobOnCard,
           Own, RunPcs
      <4>2. QED BY <1>0, <1>2, <2>1, <3>1, <4>1 DEF JobOnCard, Fetch, Run, FpgaPcs
    <3>2. CASE Compute
      BY <1>0, <1>2, <2>1, <3>2 DEF JobOnCard, Compute, Run, FpgaPcs
    <3>3. CASE WriteOut
      <4>1. output'[Slot(p)] = Own(p)
        BY <2>1, <3>3, SlotType DEF JobOnCard, WriteOut, CardTypeOK
      <4>2. QED BY <1>0, <1>2, <2>1, <3>3, <4>1
                DEF JobOnCard, WriteOut, Idle, Run, FpgaPcs
    <3>4. QED BY <1>5, <3>1, <3>2, <3>3
  <2>5. AnswerTaken'
    <3>1. ASSUME NEW q \in Callers, pc[q] \in {"r_post", "r_read"}
          PROVE  output'[Slot(q)] = output[Slot(q)]
      <4>1. q # p /\ Slot(q) # Slot(p)
        BY <2>1, <3>1 DEF SlotsNotShared, SlotPcs, BufferPcs
      <4>2. QED BY <1>5, <2>1, <4>1, SlotType
                DEF Fetch, Compute, WriteOut, JobOnCard, CardTypeOK
    <3>2. QED BY <1>0, <3>1 DEF AnswerTaken
  <2>6. QED BY <1>3, <2>2, <2>3, <2>4, <2>5
<1>6. ~WriteLate
  BY DEF WriteLate, CardBusy
<1>7. QED BY <1>4, <1>5, <1>6 DEF CardMoves, CardStep

-----------------------------------------------------------------------------
(* The steps of a caller that leave the card alone, in KernelInit.         *)
LEMMA InitKeepsJob ==
  ASSUME Calm, AInv, NEW p \in Callers,
         \/ CallInit(p) \/ InitWait(p) \/ InitDev(p) \/ InitDevFail(p)
         \/ InitPoll(p) \/ InitPost(p)
  PROVE  JobInv'
<1> USE DEF AInv, JobInv, IInv, LocalTypes
<1>1. /\ UNCHANGED <<card, buffer_index, bad, status, runs, result>>
      /\ \A q \in Callers : /\ Slot(q)' = Slot(q) /\ Job(q)' = Job(q)
                            /\ Own(q)' = Own(q)
                            /\ q # p => pc'[q] = pc[q] /\ ready'[q] = ready[q]
      /\ pc[p] \in InitPcs \cup {"idle"}
      /\ pc'[p] \in InitPcs \cup {"idle"}
  BY DEF CallInit, InitWait, InitDev, InitDevFail, InitPoll, InitPost, Goto,
         card, locals, Slot, Job, Own, InitPcs
<1>2. OperandsIn' /\ JobOnCard' /\ AnswerTaken'
  BY <1>1 DEF OperandsIn, JobOnCard, AnswerTaken, InitPcs, card
<1>3. CardBusy'
  <2>1. InitPoll(p) => run.state = "idle"
    BY DEF InitPoll, Goto, KeysLoaded, Calm
  <2>2. ~InitPoll(p) => pc[p] # "i_poll"
    BY DEF CallInit, InitWait, InitDev, InitDevFail, InitPost, Goto
  <2>3. QED BY <1>1, <2>1, <2>2 DEF CardBusy, Polls, card, InitPcs
<1>4. KeysLoaded'
  <2>1. ASSUME NEW q \in Callers, q # p PROVE KeysLoaded!(q)'
    BY <1>1, <2>1 DEF KeysLoaded, card
  <2>2. KeysLoaded!(p)'
    <3> USE <1>1 DEF KeysLoaded, card, Goto, InitPcs, RunPcs
    <3>1. CASE CallInit(p)
      BY <3>1 DEF CallInit
    <3>2. CASE InitWait(p) \/ InitDev(p) \/ InitDevFail(p)
      BY <3>2 DEF InitWait, InitDev, InitDevFail, locals
    <3>3. CASE InitPoll(p)
      BY <3>3 DEF InitPoll, Calm, locals
    <3>4. CASE InitPost(p)
      BY <3>4 DEF InitPost
    <3>5. QED BY <3>1, <3>2, <3>3, <3>4
  <2>3. QED BY <2>1, <2>2 DEF KeysLoaded
<1>5. QED BY <1>2, <1>3, <1>4

(* The steps of KernelRun that leave the card alone.                       *)
QuietRun(p) ==
  \/ (\E b \in BOOLEAN : CallRun(p, b)) \/ RunDev(p) \/ RunDevFail(p)
  \/ RunWaitBuf(p) \/ RunSelect(p) \/ RunWaitFpga(p) \/ RunPoll(p)
  \/ RunPost(p) \/ RunRead(p) \/ RunPostBuf(p) \/ RunPostSel(p)
  \/ RunReturn(p)

(* They change nothing of the other caller, and no keys.                   *)
LEMMA QuietRunFrame ==
  ASSUME LocalTypes, NEW p \in Callers, QuietRun(p)
  PROVE  /\ UNCHANGED <<card, ready>>
         /\ pc' \in [Callers -> Pcs]
         /\ pc'[p] \in RunPcs \cup {"idle"}
         /\ \A q \in Callers : q # p =>
              /\ pc'[q] = pc[q] /\ bad'[q] = bad[q] /\ status'[q] = status[q]
              /\ result'[q] = result[q]
              /\ Slot(q)' = Slot(q) /\ Job(q)' = Job(q) /\ Own(q)' = Own(q)
         /\ pc[p] \in {"r_vec", "r_mat", "r_fpga", "r_start", "r_poll",
                       "r_post", "r_read", "r_postbuf", "r_postsel"} =>
              bad'[p] = bad[p] /\ Slot(p)' = Slot(p)
         /\ pc[p] # "idle" => Job(p)' = Job(p) /\ Own(p)' = Own(p)
<1> USE DEF LocalTypes, Goto, Slot, SlotOf, Job, Own, Pcs, RunPcs
<1>1. CASE \E b \in BOOLEAN : CallRun(p, b)
  BY <1>1 DEF CallRun
<1>2. CASE RunDevFail(p) \/ RunReturn(p)
  BY <1>2 DEF RunDevFail, RunReturn, LocalsGone
<1>3. CASE RunSelect(p)
  BY <1>3 DEF RunSelect
<1>4. CASE RunPoll(p) \/ RunRead(p)
  BY <1>4 DEF RunPoll, RunRead, Transfer
<1>5. CASE \/ RunDev(p) \/ RunWaitBuf(p) \/ RunWaitFpga(p) \/ RunPost(p)
           \/ RunPostBuf(p) \/ RunPostSel(p)
  BY <1>5 DEF RunDev, RunWaitBuf, RunWaitFpga, RunPost, RunPostBuf,
              RunPostSel, locals
<1>6. QED BY <1>1, <1>2, <1>3, <1>4, <1>5 DEF QuietRun

(* When DONE is read the answer is in the output slot; from there it goes  *)
(* to the caller.                                                          *)
LEMMA RunKeepsJob ==
  ASSUME Calm, AInv, NEW p \in Callers, QuietRun(p)
  PROVE  JobInv'
<1> USE QuietRunFrame DEF AInv, JobInv, IInv, LocalTypes
<1>1. CardBusy'
  <2>1. RunPoll(p) => run.state = "idle"
    BY DEF RunPoll, Goto, JobOnCard, Calm
  <2>2. ~RunPoll(p) => pc[p] \notin {"i_poll", "r_poll"}
    BY DEF QuietRun, CallRun, RunDev, RunDevFail, RunWaitBuf, RunSelect,
           RunWaitFpga, RunPost, RunRead, RunPostBuf, RunPostSel, RunReturn,
           Goto
  <2>3. QED BY <2>1, <2>2 DEF CardBusy, Polls, card
<1>2. KeysLoaded'
  <2>1. ready[p] /\ pc'[p] \notin InitPcs
    BY DEF QuietRun, CallRun, RunDev, RunDevFail, RunWaitBuf, RunSelect,
           RunWaitFpga, RunPoll, RunPost, RunRead, RunPostBuf, RunPostSel,
           RunReturn, Goto, KeysLoaded, RunPcs, InitPcs
  <2>2. QED BY <2>1 DEF KeysLoaded, InitPcs, card
<1>3. OperandsIn'
  <2>1. ASSUME NEW q \in Callers, q # p PROVE OperandsIn!(q)'
    BY <2>1 DEF OperandsIn, card
  <2>2. pc'[p] \in {"r_mat", "r_fpga", "r_start", "r_poll"} => RunWaitFpga(p)
    BY DEF QuietRun, CallRun, RunDev, RunDevFail, RunWaitBuf, RunSelect,
           RunPoll, RunPost, RunRead, RunPostBuf, RunPostSel, RunReturn, Goto
  <2>3. OperandsIn!(p)'
    BY <2>2 DEF OperandsIn, card, RunWaitFpga, Goto
  <2>4. QED BY <2>1, <2>3 DEF OperandsIn
<1>4. JobOnCard'
  <2>1. pc'[p] # "r_poll"
    BY DEF QuietRun, CallRun, RunDev, RunDevFail, RunWaitBuf, RunSelect,
           RunWaitFpga, RunPoll, RunPost, RunRead, RunPostBuf, RunPostSel,
           RunReturn, Goto
  <2>2. QED BY <2>1 DEF JobOnCard, card
<1>5. AnswerTaken'
  <2>1. ASSUME NEW q \in Callers, q # p PROVE AnswerTaken!(q)'
    BY <2>1 DEF AnswerTaken, card
  <2>2. AnswerTaken!(p)'
    <3>1. CASE RunPoll(p)
      <4>1. status'[p] = IF bad[p] THEN 2 ELSE 1
        BY <3>1 DEF RunPoll, JobOnCard, Calm, Goto
      <4>2. ~bad[p] => output[Slot(p)] = Own(p)
        BY <3>1 DEF RunPoll, JobOnCard, Calm, Goto
      <4>3. QED BY <3>1, <4>1, <4>2 DEF RunPoll, Goto, AnswerTaken, card
    <3>2. CASE RunPost(p)
      BY <3>2 DEF RunPost, Goto, AnswerTaken, card, locals
    <3>3. CASE RunRead(p)
      BY <3>3 DEF RunRead, Goto, AnswerTaken, card, Transfer, Calm
    <3>4. CASE RunPostBuf(p) \/ RunPostSel(p)
      BY <3>4 DEF RunPostBuf, RunPostSel, Goto, AnswerTaken, locals
    <3>5. CASE /\ ~RunPoll(p) /\ ~RunPost(p) /\ ~RunRead(p)
               /\ ~RunPostBuf(p) /\ ~RunPostSel(p)
      BY <3>5 DEF QuietRun, CallRun, RunDev, RunDevFail, RunWaitBuf, RunSelect,
         RunWaitFpga, RunReturn, Goto, AnswerTaken
    <3>6. QED BY <3>1, <3>2, <3>3, <3>4, <3>5
  <2>3. QED BY <2>1, <2>2 DEF AnswerTaken
<1>6. QED BY <1>1, <1>2, <1>3, <1>4, <1>5

(* A caller that is about to start the card finds it idle.                 *)
LEMMA IdleForStarter ==
  ASSUME AInv, NEW p \in Callers,
         pc[p] \in {"i_dev", "i_upload", "i_start", "r_start"}
  PROVE  run.state = "idle"
BY OnePolls DEF AInv, IInv, JobInv, CardBusy, Polls, FpgaPcs

(* The keys go to device memory, and a start loads them.                   *)
LEMMA KeyStepsKeepJob ==
  ASSUME Calm, AInv, NEW p \in Callers, InitUpload(p) \/ InitStart(p)
  PROVE  JobInv'
<1> USE DEF AInv, JobInv, IInv, LocalTypes, Goto
<1>1. /\ UNCHANGED <<input, output, ksk, outPtr, buffer_index, bad, status,
                     runs, ready, result>>
      /\ \A q \in Callers : /\ Slot(q)' = Slot(q) /\ Job(q)' = Job(q)
                            /\ Own(q)' = Own(q)
                            /\ q # p => pc'[q] = pc[q]
      /\ pc[p] \in FpgaPcs /\ pc'[p] \in {"i_start", "i_poll"}
      /\ run.state = "idle"
  BY IdleForStarter DEF InitUpload, InitStart, StartKsk, Calm, locals, Slot,
     Job, Own, FpgaPcs
<1>2. \A q \in Callers : q # p => pc[q] \notin FpgaPcs
  BY <1>1, OnePolls
<1>3. OperandsIn' /\ JobOnCard' /\ AnswerTaken'
  BY <1>1, <1>2 DEF OperandsIn, JobOnCard, AnswerTaken, FpgaPcs
<1>4. CASE InitUpload(p)
  <2>1. CardBusy'
    BY <1>1, <1>4 DEF InitUpload, CardBusy
  <2>2. KeysLoaded'
    BY <1>1, <1>2, <1>4 DEF InitUpload, Transfer, KeysLoaded, Calm, FpgaPcs,
       RunPcs, InitPcs
  <2>3. QED BY <1>3, <2>1, <2>2
<1>5. CASE InitStart(p)
  <2>1. /\ run'.state = "ksk" /\ ~done' /\ UNCHANGED <<late, dramKsk>>
        /\ pc'[p] = "i_poll"
    BY <1>1, <1>5 DEF InitStart, StartKsk, Restart, Run, Calm
  <2>2. CardBusy'
    BY <1>1, <2>1 DEF CardBusy, Polls
  <2>3. KeysLoaded'
    BY <1>1, <1>2, <1>5, <2>1 DEF InitStart, KeysLoaded, FpgaPcs, RunPcs,
       InitPcs
  <2>4. QED BY <1>3, <2>2, <2>3
<1>6. QED BY <1>4, <1>5

(* An operand goes to the slot of its caller and to no other.              *)
LEMMA OperandStepsKeepJob ==
  ASSUME Calm, AInv, NEW p \in Callers, RunVec(p) \/ RunMat(p)
  PROVE  JobInv'
<1> USE DEF AInv, JobInv, IInv, LocalTypes, Goto
<1>1. /\ UNCHANGED <<output, dramKsk, ksk, outPtr, run, late, done, err,
                     buffer_index, bad, status, runs, ready, result>>
      /\ \A q \in Callers : /\ Slot(q)' = Slot(q) /\ Job(q)' = Job(q)
                            /\ Own(q)' = Own(q)
                            /\ q # p => pc'[q] = pc[q]
      /\ pc[p] \in {"r_vec", "r_mat"} /\ pc'[p] \in {"r_mat", "r_fpga"}
  BY DEF RunVec, RunMat, locals, Slot, Job, Own
<1>2. JobOnCard' /\ AnswerTaken'
  BY <1>1 DEF JobOnCard, AnswerTaken
<1>3. CardBusy' /\ KeysLoaded'
  BY <1>1 DEF CardBusy, Polls, KeysLoaded, RunPcs, InitPcs
<1>4. OperandsIn'
  <2>1. ASSUME NEW q \in Callers, q # p, pc[q] \in SlotPcs
        PROVE  input'[Slot(q)] = input[Slot(q)]
    <3>1. Slot(q) # Slot(p)
      BY <1>1, <2>1 DEF SlotsNotShared, SlotPcs, BufferPcs
    <3>2. QED BY <3>1, SlotType DEF RunVec, RunMat, Transfer, PutVec, PutMat,
                 Calm, CardTypeOK
  <2>2. ASSUME NEW q \in Callers, q # p PROVE OperandsIn!(q)'
    BY <1>1, <2>1, <2>2 DEF OperandsIn, SlotPcs, BufferPcs
  <2>3. OperandsIn!(p)'
    BY <1>1, SlotType, SMTT(60) DEF OperandsIn, RunVec, RunMat, Transfer, PutVec,
       PutMat, Calm, CardTypeOK
  <2>4. QED BY <2>2, <2>3 DEF OperandsIn
<1>5. QED BY <1>2, <1>3, <1>4

(* A start finds the card idle and begins the job of its caller.           *)
LEMMA StartKeepsJob ==
  ASSUME Calm, AInv, NEW p \in Callers, RunStart(p)
  PROVE  JobInv'
<1> USE DEF AInv, JobInv, IInv, LocalTypes, Goto
<1>1. /\ UNCHANGED <<input, output, dramKsk, ksk, late, buffer_index, bad,
                     status, runs, ready, result>>
      /\ \A q \in Callers : /\ Slot(q)' = Slot(q) /\ Job(q)' = Job(q)
                            /\ Own(q)' = Own(q)
                            /\ q # p => pc'[q] = pc[q]
      /\ pc[p] = "r_start" /\ pc'[p] = "r_poll"
      /\ outPtr' = Slot(p) /\ err' = bad[p]
      /\ bad[p] => run' = run
      /\ ~bad[p] => run' = Run("fetch", Slot(p), NoProduct) /\ ~done'
      /\ run.state = "idle"
  BY IdleForStarter DEF RunStart, StartRun, Restart, Calm, Slot, Job, Own
<1>2. \A q \in Callers : q # p => pc[q] \notin FpgaPcs
  BY <1>1, OnePolls DEF FpgaPcs
<1>3. OperandsIn' /\ AnswerTaken'
  BY <1>1 DEF OperandsIn, AnswerTaken
<1>4. CardBusy'
  BY <1>1 DEF CardBusy, Polls, Run
<1>5. KeysLoaded'
  BY <1>1, <1>2 DEF KeysLoaded, FpgaPcs, RunPcs, InitPcs
<1>6. JobOnCard'
  BY <1>1, <1>2 DEF JobOnCard, FpgaPcs, Run
<1>7. QED BY <1>3, <1>4, <1>5, <1>6

(* Every step preserves the invariant about jobs.                          *)
LEMMA JobInvStep ==
  ASSUME Calm, AInv, Next
  PROVE  JobInv'
<1>1. ASSUME NEW p \in Callers, PollMiss(p) PROVE JobInv'
  BY <1>1 DEF PollMiss, card, AInv, JobInv, CardBusy, Polls, KeysLoaded,
     OperandsIn, JobOnCard, AnswerTaken, Slot, Job, Own
<1>2. ASSUME NEW p \in Callers PROVE ~RunTimeout(p) /\ ~Crash(p)
  BY DEF RunTimeout, Crash, Calm, AInv, IInv, LocalTypes
<1>3. QED BY <1>1, <1>2, CardMovesJob, InitKeepsJob, RunKeepsJob,
             KeyStepsKeepJob, OperandStepsKeepJob, StartKeepsJob
          DEF Next, Step, InitStep, RunStep, QuietRun

(* The initial state: no call, no job.                                     *)
LEMMA AInvInit ==
  ASSUME Init
  PROVE  AInv
<1>1. JobInv
  BY DEF Init, CardInit, Idle, Run, JobInv, CardBusy, KeysLoaded, OperandsIn,
         JobOnCard, AnswerTaken, RunPcs, InitPcs
<1>2. SelectHeld /\ SlotsNotShared
  BY DEF Init, SelectHeld, SlotsNotShared, SlotPcs, BufferPcs
<1>3. QED BY <1>1, <1>2, IInvInit DEF AInv

(* AInv is inductive.                                                      *)
LEMMA AInvStep ==
  ASSUME Calm, AInv, [Next]_vars
  PROVE  AInv'
<1>1. CASE Next
  BY <1>1, JobInvStep, IInvStep, SelectHeldStep, SlotsStep DEF AInv, IInv, Calm
<1>2. CASE UNCHANGED vars
  BY <1>2, IInvStep DEF vars, sems, card, locals, AInv, SelectHeld,
     HoldsSelect, SlotsNotShared, JobInv, CardBusy, Polls, KeysLoaded,
     OperandsIn, JobOnCard, AnswerTaken, Slot, Job, Own
<1>3. QED BY <1>1, <1>2

(* KernelRun of two callers gives each the product of its own vector and   *)
(* matrix under the keys of the machine, or the error code of the card if  *)
(* and only if the card refuses the shape: for any number of runs, with    *)
(* both slots in use, and whatever calls find no device.                   *)
THEOREM TwoCallersAnsweredRight ==
  ASSUME Calm
  PROVE  Spec => []AnswersRight
<1>1. ASSUME AInv PROVE AnswersRight
  BY <1>1 DEF AInv, JobInv, AnswerTaken, AnswersRight
<1>2. QED BY <1>1, AInvInit, AInvStep, PTL DEF Spec

-----------------------------------------------------------------------------
(* Refinement *)

(* Who has called KernelRun is initialized for good, and during a call     *)
(* there is no return value yet.                                           *)
Replies ==
  \A p \in Callers : /\ runs[p] # 0 => ready[p]
                     /\ pc[p] \in RunPcs => ret[p] = "none"

(* What was answered stays answered.                                       *)
LEMMA RepliesStep ==
  ASSUME Calm, AInv, Replies, [Next]_vars
  PROVE  Replies'
<1> USE DEF Replies, Goto, AInv, IInv, LocalTypes, RunPcs
<1>1. CASE CardMoves \/ UNCHANGED vars
  BY <1>1 DEF CardMoves, vars, locals
<1>2. ASSUME NEW p \in Callers, InKernelInit(p) PROVE Replies'
  <2>1. CASE CallInit(p) \/ InitDevFail(p) \/ InitPost(p)
    BY <2>1 DEF CallInit, InitDevFail, InitPost
  <2>2. CASE InitWait(p) \/ InitDev(p) \/ InitUpload(p) \/ InitPoll(p)
    BY <2>2 DEF InitWait, InitDev, InitUpload, InitPoll, locals
  <2>3. CASE InitStart(p)
    BY <2>3 DEF InitStart
  <2>4. QED BY <1>2, <2>1, <2>2, <2>3 DEF InKernelInit
<1>3. ASSUME NEW p \in Callers, BeforeBuffer(p) \/ RunWaitBuf(p) \/ RunSelect(p)
      PROVE  Replies'
  BY <1>3 DEF BeforeBuffer, CallRun, RunDev, RunDevFail, RunWaitBuf,
     RunSelect, locals
<1>4. ASSUME NEW p \in Callers, WithSlot(p) PROVE Replies'
  BY <1>4 DEF WithSlot, RunVec, RunMat, RunWaitFpga, RunStart, RunPoll,
              RunTimeout, RunPost, RunRead, locals
<1>5. ASSUME NEW p \in Callers, RunPostBuf(p) \/ RunPostSel(p) \/ RunReturn(p)
      PROVE  Replies'
  BY <1>5 DEF RunPostBuf, RunPostSel, RunReturn, locals
<1>6. ASSUME NEW p \in Callers, PollMiss(p) PROVE Replies'
  BY <1>6 DEF PollMiss
<1>7. ASSUME NEW p \in Callers PROVE ~Crash(p)
  BY DEF Crash, Calm
<1>8. QED BY <1>1, <1>2, <1>3, <1>4, <1>5, <1>6, <1>7, NextByBuffer

(* The phase of a caller follows its pc alone; a step of one caller that   *)
(* stays in its phase, and gives no reply, is not seen.                    *)
LEMMA CardUnseen ==
  ASSUME CardMoves \/ UNCHANGED vars
  PROVE  UNCHANGED Service!vars
BY DEF CardMoves, vars, locals, Service!vars, Phase, Reply

(* The steps of a caller that are not seen: all of KernelInit, and those   *)
(* of KernelRun inside one phase.                                          *)
InPhase(p) ==
  \/ RunDev(p) \/ RunWaitBuf(p) \/ RunSelect(p) \/ RunVec(p) \/ RunMat(p)
  \/ RunStart(p) \/ RunPoll(p)
  \/ RunRead(p) \/ RunPostBuf(p) \/ RunPostSel(p) \/ PollMiss(p)

(* A KernelInit changes nothing that the service shows.                    *)
LEMMA InitUnseen ==
  ASSUME Calm, AInv, Replies, NEW p \in Callers, InKernelInit(p)
  PROVE  UNCHANGED Service!vars
<1> USE DEF AInv, IInv, LocalTypes
<1>1. UNCHANGED <<runs, bad, result>>
  BY DEF InKernelInit, CallInit, InitWait, InitDev, InitDevFail, InitUpload,
         InitStart, InitPoll, InitPost, locals
<1>2. /\ \A q \in Callers : q # p => pc'[q] = pc[q] /\ ret'[q] = ret[q]
      /\ pc[p] \in InitPcs \cup {"idle"} /\ pc'[p] \in InitPcs \cup {"idle"}
      /\ pc[p] = "idle" => ~ready[p]
  BY DEF InKernelInit, CallInit, InitWait, InitDev, InitDevFail, InitUpload,
         InitStart, InitPoll, InitPost, locals, Goto, InitPcs
<1>3. runs[p] = 0
  BY <1>2 DEF Replies, JobInv, KeysLoaded
<1>4. \A q \in Callers : Phase(q)' = Phase(q)
  BY <1>2 DEF Phase, InitPcs
<1>5. \A q \in Callers : Reply(q)' = Reply(q)
  BY <1>1, <1>2, <1>3 DEF Reply
<1>6. QED BY <1>1, <1>4, <1>5 DEF Service!vars

(* The steps of a run between its phases are stutters of the service.      *)
LEMMA PhaseUnseen ==
  ASSUME Calm, AInv, Replies, NEW p \in Callers, InPhase(p)
  PROVE  UNCHANGED Service!vars
<1> USE DEF AInv, IInv, LocalTypes
<1>1. UNCHANGED <<runs, bad, ret>>
  BY DEF InPhase, RunDev, RunWaitBuf, RunSelect, RunVec, RunMat, RunStart,
         RunPoll, RunRead, RunPostBuf, RunPostSel, PollMiss, locals
<1>2. \A q \in Callers : q # p => pc'[q] = pc[q] /\ result'[q] = result[q]
  BY DEF InPhase, RunDev, RunWaitBuf, RunSelect, RunVec, RunMat, RunStart,
         RunPoll, RunRead, RunPostBuf, RunPostSel, PollMiss, locals, Goto,
         Transfer
<1>3. result'[p] = result[p] \/ ret[p] = "none"
  BY DEF InPhase, RunDev, RunWaitBuf, RunSelect, RunVec, RunMat, RunStart,
         RunPoll, RunRead, RunPostBuf, RunPostSel, PollMiss, locals, Goto,
         Replies, RunPcs
<1>4. Phase(p)' = Phase(p)
  BY DEF InPhase, RunDev, RunWaitBuf, RunSelect, RunVec, RunMat, RunStart,
         RunPoll, RunRead, RunPostBuf, RunPostSel, PollMiss, Goto, Phase
<1>5. \A q \in Callers : Phase(q)' = Phase(q)
  BY <1>2, <1>4 DEF Phase
<1>6. \A q \in Callers : Reply(q)' = Reply(q)
  BY <1>1, <1>2, <1>3 DEF Reply
<1>7. QED BY <1>1, <1>5, <1>6 DEF Service!vars

(* The call, the wait for fpga_mutex, its post and the return are the four *)
(* steps of the service.                                                   *)
LEMMA CallSubmits ==
  ASSUME Calm, AInv, NEW p \in Callers, NEW b \in BOOLEAN, CallRun(p, b)
  PROVE  Service!Submit(p, b)
<1> USE DEF AInv, IInv, LocalTypes, CallRun, Goto
<1>1. \A q \in Callers : Phase(q)' = IF q = p THEN "waiting" ELSE Phase(q)
  BY DEF Phase
<1>2. \A q \in Callers : Reply(q)' = IF q = p THEN <<"none">> ELSE Reply(q)
  BY DEF Reply
<1>3. Phase(p) = "idle"
  BY DEF Phase
<1>4. QED BY <1>1, <1>2, <1>3
          DEF Service!Submit, Service!Move, Service!Nothing

(* The end of the wait is where the service serves.                        *)
LEMMA WaitServes ==
  ASSUME Calm, AInv, NEW p \in Callers, RunWaitFpga(p)
  PROVE  Service!Serve(p)
<1> USE DEF AInv, IInv, LocalTypes, RunWaitFpga, Goto, locals
<1>1. \A q \in Callers : Phase(q)' = IF q = p THEN "served" ELSE Phase(q)
  BY DEF Phase
<1>2. \A q \in Callers : Reply(q)' = Reply(q)
  BY DEF Reply
<1>3. Phase(p) = "waiting"
  BY DEF Phase
<1>4. \A q \in Callers : Phase(q) # "served"
  <2>1. \A q \in Callers : pc[q] \notin FpgaPcs
    BY DEF FpgaInv, HoldsFpga
  <2>2. QED BY <2>1 DEF Phase, FpgaPcs
<1>5. QED BY <1>1, <1>2, <1>3, <1>4 DEF Service!Serve, Service!Move

(* The post-processing finishes the call.                                  *)
LEMMA PostFinishes ==
  ASSUME Calm, AInv, NEW p \in Callers, RunPost(p)
  PROVE  Service!Finish(p)
<1> USE DEF AInv, IInv, LocalTypes, RunPost, Goto, locals
<1>1. \A q \in Callers : Phase(q)' = IF q = p THEN "answered" ELSE Phase(q)
  BY DEF Phase
<1>2. \A q \in Callers : Reply(q)' = Reply(q)
  BY DEF Reply
<1>3. Phase(p) = "served"
  BY DEF Phase
<1>4. QED BY <1>1, <1>2, <1>3 DEF Service!Finish, Service!Move

(* A return is a return of the service.                                    *)
LEMMA ReturnReturns ==
  ASSUME Calm, AInv, NEW p \in Callers, RunReturn(p)
  PROVE  Service!Return(p)
<1> USE DEF AInv, IInv, LocalTypes, RunReturn, Goto, LocalsGone
<1>1. \A q \in Callers : Phase(q)' = IF q = p THEN "idle" ELSE Phase(q)
  BY DEF Phase
<1>2. Phase(p) = "answered"
  BY DEF Phase
<1>3. runs[p] # 0
  BY DEF RunPcs
<1>4. Reply(p)' = IF bad[p] THEN <<"config">> ELSE <<"ok", Own(p)>>
  BY <1>3 DEF JobInv, AnswerTaken, Reply
<1>5. \A q \in Callers : q # p => Reply(q)' = Reply(q)
  BY DEF Reply
<1>6. Own(p) = [vec |-> <<p, runs[p]>>, mat |-> <<p, runs[p]>>, key |-> KeyOf[p]]
  BY DEF Own, Product, Job
<1>7. QED BY <1>1, <1>2, <1>4, <1>5, <1>6
          DEF Service!Return, Service!Move, Service!Refusal, Service!Answer

(* Each step of the driver is a step of the service or none.               *)
LEMMA StepSimulated ==
  ASSUME Calm, Faults = {}, AInv, Replies, [Next]_vars
  PROVE  [Service!Next]_(Service!vars)
<1>1. ASSUME NEW p \in Callers
      PROVE  ~RunDevFail(p) /\ ~RunTimeout(p) /\ ~Crash(p)
  BY DEF RunDevFail, RunTimeout, Crash, Calm, AInv, IInv, LocalTypes
<1>2. CASE \E p \in Callers : \E b \in BOOLEAN : CallRun(p, b)
  BY <1>2, CallSubmits DEF Service!Next
<1>3. CASE \E p \in Callers : RunWaitFpga(p) \/ RunPost(p) \/ RunReturn(p)
  BY <1>3, WaitServes, PostFinishes, ReturnReturns DEF Service!Next
<1>4. CASE \E p \in Callers : InKernelInit(p) \/ InPhase(p)
  BY <1>4, InitUnseen, PhaseUnseen
<1>5. CASE CardMoves \/ UNCHANGED vars
  BY <1>5, CardUnseen
<1>6. QED BY <1>1, <1>2, <1>3, <1>4, <1>5
          DEF Next, Step, InitStep, RunStep, InKernelInit, InPhase

(* KernelRun over the card behaves like the service of MvpService (without *)
(* its fairness): jobs wait, one at a time is served, and each caller is   *)
(* answered with its own product or a refusal.                             *)
THEOREM TwoCallersImplementService ==
  ASSUME Calm, Faults = {}
  PROVE  Spec => Service!Init /\ [][Service!Next]_(Service!vars)
<1>1. ASSUME Init PROVE Service!Init
  BY <1>1 DEF Init, Service!Init, Service!Nothing, Phase, Reply
<1>2. Init => Replies
  BY DEF Init, Replies, RunPcs
<1>3. AInv /\ Replies /\ [Next]_vars => AInv' /\ Replies'
  BY AInvStep, RepliesStep
<1>4. AInv /\ Replies /\ [Next]_vars => [Service!Next]_(Service!vars)
  BY StepSimulated
<1>5. QED BY <1>1, <1>2, <1>3, <1>4, AInvInit, PTL DEF Spec
=============================================================================
