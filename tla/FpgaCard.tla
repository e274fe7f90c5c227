------------------------------ MODULE FpgaCard ------------------------------
(***************************************************************************)
(* The accelerator card as a caller of KernelInit / KernelRun sees it: the *)
(* device memory with its two input/output slots and its key-switching     *)
(* keys, the registers that a start samples, and the DONE register that    *)
(* mvp_top.v builds from ap_done_r and config_error.                       *)
(*                                                                         *)
(* A payload is the identity of the job that produced it; a product names  *)
(* the vector, the matrix and the keys it was computed from.               *)
(***************************************************************************)
EXTENDS Naturals, FiniteSets

CONSTANTS
  Callers,   \* the threads and processes that use the card
  MaxRuns,   \* bound: KernelRun calls of one caller
  KeyOf      \* KeyOf[p]: the evaluation keys that caller p uploads

ASSUME CallersAssumption ==
  /\ IsFiniteSet(Callers)
  /\ MaxRuns \in Nat
  /\ DOMAIN KeyOf = Callers

VARIABLES
  input,    \* input[s].vec, input[s].mat: the job whose data input slot s holds
  output,   \* output[s]: the product that output slot s holds
  dramKsk,  \* the keys in device memory at KSK_DEV_BASE_ADDR
  ksk,      \* the keys that the card has loaded
  outPtr,   \* output pointer register
  run,      \* what the card is doing
  late,     \* an output transfer that outlived the run it belongs to
  done,     \* ap_done_r
  err       \* config_error # 0

card == <<input, output, dramKsk, ksk, outPtr, run, late, done, err>>

-----------------------------------------------------------------------------
Slots == {1, 2}
Jobs  == Callers \X (1..MaxRuns)
NoJob == <<>>
Keys  == {KeyOf[p] : p \in Callers}
NoKey == "no key"

Product(v, m, k) == [vec |-> v, mat |-> m, key |-> k]
NoProduct        == Product(NoJob, NoJob, NoKey)
Products         == [vec : Jobs \cup {NoJob}, mat : Jobs \cup {NoJob},
                     key : Keys \cup {NoKey}]

(* ap_idle_r, the read FSM, the pipeline and the write FSM of one run.     *)
RunStates == {"idle", "ksk", "fetch", "compute", "write", "wedged"}
Run(st, s, d) == [state |-> st, slot |-> s, data |-> d]
Idle == Run("idle", 1, NoProduct)

CardInit ==
  /\ input   = [s \in Slots |-> [vec |-> NoJob, mat |-> NoJob]]
  /\ output  = [s \in Slots |-> NoProduct]
  /\ dramKsk = NoKey
  /\ ksk     = NoKey
  /\ outPtr  = 1
  /\ run     = Idle
  /\ late    = {}
  /\ done    = FALSE
  /\ err     = FALSE

-----------------------------------------------------------------------------
(* Device memory, written over XDMA.                                       *)
PutVec(s, j) == input' = [input EXCEPT ![s].vec = j]
PutMat(s, j) == input' = [input EXCEPT ![s].mat = j]

(* A start that finds the read FSM in the middle of a transfer is ignored  *)
(* by it (it leaves S_IDLE only from S_IDLE) while the pipeline controller *)
(* restarts, so the new run never gets its rows.  A start that finds only  *)
(* the write FSM busy begins cleanly; the old transfer goes on.            *)
Restart(new) ==
  /\ run'  = IF run.state \in {"ksk", "fetch", "wedged"}
             THEN [run EXCEPT !.state = "wedged"] ELSE new
  /\ late' = IF run.state = "write"
             THEN {[slot |-> run.slot, data |-> run.data]} ELSE late

(* The register array of KernelInit: command 0, rising edge of start.      *)
StartKsk ==
  /\ Restart(Run("ksk", 1, NoProduct))
  /\ done' = FALSE
  /\ err'  = FALSE
  /\ UNCHANGED outPtr

(* The register array of KernelRun: command 1, pointers, rising edge of    *)
(* start.  A refused configuration raises DONE at once and starts nothing. *)
StartRun(s, bad) ==
  /\ outPtr' = s
  /\ err'    = bad
  /\ IF bad
     THEN done' = TRUE /\ UNCHANGED <<run, late>>
     ELSE done' = FALSE /\ Restart(Run("fetch", s, NoProduct))

-----------------------------------------------------------------------------
(* What the card does by itself.                                           *)
LoadKsk ==
  /\ run.state = "ksk"
  /\ ksk'  = dramKsk
  /\ run'  = Idle
  /\ done' = TRUE
  /\ UNCHANGED <<input, output, dramKsk, outPtr, late, err>>

Fetch ==
  /\ run.state = "fetch"
  /\ run' = Run("compute", run.slot,
                Product(input[run.slot].vec, input[run.slot].mat, ksk))
  /\ UNCHANGED <<input, output, dramKsk, ksk, outPtr, late, done, err>>

(* o_mvp_done starts the write FSM, which samples the output pointer.      *)
Compute ==
  /\ run.state = "compute"
  /\ run' = Run("write", outPtr, run.data)
  /\ UNCHANGED <<input, output, dramKsk, ksk, outPtr, late, done, err>>

WriteOut ==
  /\ run.state = "write"
  /\ output' = [output EXCEPT ![run.slot] = run.data]
  /\ run'    = Idle
  /\ done'   = TRUE
  /\ UNCHANGED <<input, dramKsk, ksk, outPtr, late, err>>

WriteLate ==
  \E w \in late :
    /\ output' = [output EXCEPT ![w.slot] = w.data]
    /\ late'   = late \ {w}
    /\ done'   = TRUE
    /\ UNCHANGED <<input, dramKsk, ksk, outPtr, run, err>>

CardStep == LoadKsk \/ Fetch \/ Compute \/ WriteOut \/ WriteLate

CardTypeOK ==
  /\ input   \in [Slots -> [vec : Jobs \cup {NoJob}, mat : Jobs \cup {NoJob}]]
  /\ output  \in [Slots -> Products]
  /\ dramKsk \in Keys \cup {NoKey}
  /\ ksk     \in Keys \cup {NoKey}
  /\ outPtr  \in Slots
  /\ run     \in [state : RunStates, slot : Slots, data : Products]
  /\ late    \in SUBSET [slot : Slots, data : Products]
  /\ done    \in BOOLEAN
  /\ err     \in BOOLEAN
=============================================================================
