# CHAM matrix-vector product: TLA+ models and proofs

CHAM multiplies a plaintext matrix with an encrypted vector on an FPGA card.
This directory holds TLA+ modules for the parts of the repository whose
correctness depends on the order in which things happen, the TLC configurations
that check them on small instances, and proofs that TLAPS checks for every value
of the constants. `PROJECT.json` maps every definition to the source lines it
stands for, and lists the runs, the hazards, the findings and the theorems.

## 1. The system

| part | where | state | operations | hard about it |
|---|---|---|---|---|
| Python protocol | `mvp_sdk/python/wrapper.cc` | the blocks of a call, their futures | `EncryptVector`, `MatVec`, `UpdateVector`, `Decrypt`, `AddVector`, `MatVecFMA` | block tasks on a thread pool; three functions that must cut the rows alike |
| SDK implementation | `mvp_priv_impl.cc`, `mvp_impl.cc`, `util/` | `config_`, encoded polynomials | `check_config`, `MatVec`, `MatVecCore`, `AddMatVec`, `UpdateMatVec`, `Decrypt` | sizes padded to powers of two, three permutations that must cancel |
| contexts and keys | `api_impl.cc`, `mvp_context.h`, `fpga_handler.cc` | public key, `is_initialized_`; the one key buffer of the card | `Create`, `DeriveEvalKey`, `SetupEvalKey` | several steps that may each fail, some of them unnoticed; all programs of a machine share the key buffer |
| numbers of a product | `util/mod_switch.cc`, `mvp_priv_impl.cc`, `mvp_impl.cc` | none | lift to Q, mask, bring back to t | rounding at the edges; masks that must meet their rows |
| command line | `cli/mvp_cli.cc` | the files `mvp_key`, `mvp_key.pub` | `gen`, `matvec` | overlapping and killed runs between two files; reads and writes whose failures nobody sees |
| end-to-end demo | `api_examples/demo_end_to_end.cc`, `demo_common.h` | a socket, one stdio stream at each end | connect, send, flush, receive | one buffer for both directions; two processes that wait for each other |
| thread pool | `util/ThreadPool.h`, `mvp_context.h` | queue, `stop`, sleeping workers | `enqueue`, worker loop, destructor | lost wake-ups, tasks that outlive the call that made them |
| card driver | `F3/mvp_fpga_lib.h`, `fpga_handler.cc` | three named semaphores, device memory | `KernelInit`, `KernelRun` | callers in several threads *and processes*, time-outs, failed calls, a process that dies |
| card front end | `src/mvp_top.v`, `src/mvp_axil.v`, `src/axi/` | registers, read and write FSM, DONE | start, config check, DONE | a start while the card is still busy |
| pipeline controller | `src/control.v` | status bits, levels, stall bits, counters | one clock edge | ten stages, three reasons to stall, one tree folded into five stages |
| stages and buffers | `src/DP`, `src/mux`, `src/monox`, `src/vpu2`, `src/reduce_trace`, `chisel/.../Buffer.scala` | rotating buffers, reduce buffer | NTT, multiply-add, extract, pack, key switch | buffers that change hands on the edge of a done signal |
| arithmetic | `src/ntt`, `src/intt`, `src/common`, `util/seal.cc`, ... | none of its own | modular arithmetic, encryption | numbers, not order |

How they interact: the wrapper cuts a matrix into blocks of 4096 x 8192 and runs
each as a pool task (or, for one block, runs the encoding as pool tasks). Each
block goes through `MVPPrivImpl::MatVec`, which encodes the matrix and calls
`MatVecCore`, which calls `KernelRun`. `KernelRun` takes one of the two memory slots
of the card, uploads, takes the card, writes the registers, polls DONE, releases the
card, reads the result and releases the slot. On the card, a start makes the
reader fetch batches, the controller moves them through the stages, and the writer
sends the packed result back; DONE is raised when it is out.

Above that, a client and a server are two Python objects (or the two processes of the
demo) that pass evaluation keys, encrypted vectors and products as pickled strings; the
command line program plays both and keeps its keys in two files. `SetupEvalKey` loads
the key-switching keys into the card, where they serve every program of the machine
until the next setup.

What makes each part correct, and which property says so, is in section 3; what
could go wrong, at which line, is the list `hazards` in `PROJECT.json`.

## 2. The modules

### FpgaCard, FpgaDriver, MvpService

`FpgaCard` is the card as a caller sees it. `input`, `output` and `dramKsk` are
device memory; `run` is the read FSM, the pipeline and the write FSM of a run;
`done` and `err` are the two parts of the DONE register. `StartRun` and `StartKsk`
are the register writes. A start that finds the reader busy is ignored by its FSM
while the controller restarts, so the run gets no data (`wedged`); a start that
finds only the writer busy begins cleanly while the old transfer goes on, and its end
raises DONE (`late`). Payloads are the identity of the job they belong to.

`FpgaDriver` adds the callers. Each call in `KernelInit` and `KernelRun` that
another caller or the card can observe is one action; `pc[p]` names the next one.
`Faults` selects what may fail. `"dev"` is `obtain_fpga_dev_name`, `"mem"` and
`"reg"` are transfers and register accesses whose results the code ignores (an
unread `data_u32` is then an arbitrary value), `"slow"` is a card that is not done
after the last try. `Crash` is a caller that dies and is restarted; the named
semaphores keep their values.

`MvpService` is the abstract specification: jobs wait, one at a time is served, each
is answered with its own product or refused. `FpgaDriver` is shown to implement it
(`ImplementsService`, by reading the phase off `pc`).

### MvpControl, MvpPipeline, PackTree

`MvpControl` is `control.v`: registers are variables, wires are operators with the
names of the source, and `ControlClock` is the clock edge. `MaxN` is the 12 of the
code. `MvpPipeline` adds what the controller controls. One action per stage says
what it has done to its buffers when it raises its done; `Tick` is a clock edge; between
two edges any working stage may finish, so every order of finishing times is
covered. Data are identities: a batch knows its number and whether it was
transformed, a row group knows the products summed in it, a leaf knows its group and
row, and a block knows its leaves and, for each trip through stages 5 to 9, the
automorphism, the shift and the key that were applied. A "leaf" is what stage 4
extracts in one round, a pair of rows (mux mode 0 reads both halves), so a run of
2^level rows has 2^(level-1) leaves.

`PackTree` is the abstract specification: leaves arrive in order, aligned neighbours
are packed, the run delivers the one block with all leaves. `ImplementsTree`
reads the forest off the buffers and the status bits.

The models follow `control.v` and the module files. In this commit `mvp_top.v` is in
the middle of a change: `done_w[4]` is tied to 1, `dp_top` ties `o_wruram_done` to 1
and has its `dp_ctxt_polyvec` commented out, and some instances (reader, writer)
live in `sim/top_tb/current_tb_top.sv` instead. The models have the stages connected
as the controller expects them; `data_size_batches` is mapped to the testbench that
instantiates the reader.

### ThreadPool, BlockMatVec

`ThreadPool` is `util/ThreadPool.h`. Going to sleep is atomic with the test because the
worker holds the mutex; `enqueue` and `notify_one` are separate steps because the
code notifies after releasing it. Spurious wake-ups may happen.

`BlockMatVec` is `MVPProtocol::MatVec`, `UpdateVector` and `Decrypt` over that pool,
with both threading modes (`MT_in_subblock`). A ciphertext is what each coefficient
stands for, a set of cells `<<row, column>>`. `frame` says whether the variables
of the present call, which its tasks refer to, exist. A call that throws unwinds them while tasks of
it are queued or running, and context and pool live on, so `Call` may follow: a task carries
the number of its call (`HasFrame`), and one that is left over (`StrayEnds`) does what undefined
behaviour can do here: nothing, spoil a block product or a polynomial of the call that
runs now, or end the process. `threw` and `spoiled` are history. The `py::list` and `py::array_t` overloads have the same control; one
definition stands for both, and the map names one or the other.

### SdkShape, SdkConfig, KernelShape

`SdkShape` holds the arithmetic of shapes (`NextPow2`, `GetSubmatrixShape`) and `SdkConfig` the
ring degree and `check_config`; several components use them. `KernelShape` is the path of a shape:
those, the encoder, `MatVecCore`, the registers of `KernelRun`, and `config_error` of the card, with the
polynomials as functions from coefficients to matrix cells. `ecd_program` uses one buffer for all the
polynomials of a task and passes over rows that the matrix has not, so their slots keep what was
there: `rblk_bgn` is where the task of a row block began, and `kept` the row it put
there last. Widths of the card's comparisons are
kept (`% 16`, `% (8 * N)`), and all sizes and addresses scale with `N`.

### MvpApi, MvpRecords, MvpSession, MvpCli, MvpHost

`MvpApi` is the layer of `mvp_public`. A ciphertext is the key that decrypts it, its level
(`"key"` with the special prime, `"data"` after the card has divided by it) and the
set of terms it is the sum of. Whatever is added under another key, or multiplied while the
card holds other keys, becomes `Junk`: no call notices. `XOk` says when call `X`
returns `Status::OK`. `SetupEvalKey` has one outcome for each place where it can stop before
`KernelInit`; in particular the new public key is in place before the Galois keys are checked.
`KernelInit` is three steps with the semaphore taken (`KernelUpload`, `KernelStart`, `KernelPost`), and
the card reads its keys at a time of its own (`CardLoads`). Keys are in the card's memory (`dram`), being
read (`fetch`) or in use (`cardKey`), and each may be `Mixed`. A transfer, a register access or a poll that
fails (`Faults`, counted in `faults`) changes what the card has and nothing that the caller sees. A
program may be killed at each step; the semaphore stays taken (`Lost`), as it does when no device is found.

`MvpRecords` is the strings of `wrapper.cc` as sequences of cells. The header of a record
is decimal digits with a high bit set, so that their number does not vary;
`substr(ptr, ptr + 10)` is modelled as written, with a length for its second
argument, and so is `atoi`, which stops at the first cell that is no digit. SEAL compresses what it saves,
so every record has a length of its own (`CtSize`, from a list that repeats). The row blocks
come from `WrapperBlocks`, which `BlockMatVec` uses too. Scaled: 2 digits for 10, bit 4
for bit 30, mask `7` for `0xfffff`.

`MvpSession` is the `MVPProtocol` objects: each has a context and perhaps a secret key;
the latest vector and the latest product pass between them. `MatVec` is one step for
each block, so that other programs use the card in between (`BlockMatVec` has the
order of the blocks and the pool). `GenEvalKey` changes no state, so it is no action: a
derived key can be set up by anyone as long as its secret key was generated.

`MvpCli` is `gen` and `matvec`, one step for each file operation. A file is absent, torn
or holds a key; two overlapping writers may leave a mixture (torn), and a write may fail, which
`save_eval_key` does not notice. `load_eval_key` checks no read either: a torn public key may end
the run at a length that makes no sense, or be carried on until `DecodeEvalKey` refuses it
(`decodes`). A run may be killed at each step. `trusted` and `solo` are history: the last `gen` ended,
lost no write and overlapped nothing.

`MvpHost` puts objects and command line runs on one machine with one card.

### MvpMasking, LoopDemo

`MvpMasking` is the numbers of a masked product: `ModulusUpAt` lifts a share to each
prime, the card multiplies and divides by the special prime, `RandomVector` masks,
`DropUnusedCoeffs` clears, and both sides go back to `t` with `ModulusDownRNS`. It keeps
the roundings, signs and positions of the code, and leaves out encryption (a ciphertext
is what it decrypts to, with noise) and the change to NTT form. `SumMod` is the sum of a row, reduced
after each step.

`LoopDemo` is `demo_end_to_end.cc` on top of it: `ClientProgram` and `ServerProgram` are
the two branches as tables of steps, the actions are those of `LocalLoopIO`. A stream has
one buffer, which holds what was written and not flushed or what was read ahead;
writing while something is read ahead loses it. At the end of the stream `fread` returns
0, which `recv_data` takes for progress, so it loops (`Spins`). Faults: a port that cannot
be bound, a card that fails, a killed process, SIGPIPE.

### Proof modules

`FpgaDriverProofs`, `MvpPipelineProofs`, `BlockProofs`, `SdkShapeProofs`, `KernelShapeProofs`,
`MvpHostProofs` and `LoopDemoProofs` extend the modules they are named after and hold
the theorems of section 4 with their lemmas and inductive invariants. `PackTreeProofs` extends
`MvpPipelineProofs` and shows that the pipeline implements `PackTree`. `SdkShapeProofs` has no
constants: its lemmas about powers of two, division and blocks of rows serve the others too.

### MC modules

`MCDriver`, `MCPipeline`, `MCBlock`, `MCShape`, `MCHost` and `MCDemo` give values to constants. Operators
marked `mutant` in the other modules are wrong forms of the definition that follows
them; nothing uses them, and each is the form under which one property was seen to
fail.

## 3. The runs

| run | instance | checks |
|---|---|---|
| `driver_two` | 2 callers x 2 jobs, no faults, fair | `SlotsNotShared`, `AnswersRight`, `EveryCallReturns`, `ImplementsService` |
| `driver_faults` | 2 callers, all faults and one crash | `TypeOK` (semaphores never exceed their initial values), `FpgaExclusive` |
| `driver_timeout` | 2 callers, a slow card | `SuccessMeansResult`: **violated** |
| `driver_slots_bug` | 3 callers, no faults | `SlotsNotShared`: **violated** |
| `pipeline_tree` | every register setting, up to 5 levels | `TypeOK`, `NoStartIsLost`, `OperandsMatch`, `BlocksWhole`, `RbStatusTrue`, `TraceAfterTree`, `DrainedAtDone` |
| `pipeline_runs` | any two runs in a row, up to 3 levels, fair | `OutputComplete`, `EveryRunEnds`, `ImplementsTree` |
| `block_threads` | 2 workers, 2 calls, both modes, faults, fair | `TypeOK`, `ReturnLeavesNoTask`, `EveryCallEnds`, `DestructorJoins` |
| `block_shapes` | 2 workers, 2 calls, a failing card; matrices 1..13 x 2 and 1..5 x 1..5, blocks of 4 x 2 | `ProductRight` |
| `shape_layout` | all shapes 0..17 x 0..65 for N = 16; 1, 3 or 8 encoding tasks | `CardAccepts`, `RegistersTrue`, `RowsPlaced`, `BlocksApart` |
| `session` | 2 objects or 2 command line runs; 2 keys, 2 row blocks; kills, one failure of the card's input or output | `TypeOK`, `SingleOwnerRight`, `ProductsReadable`, `EnabledHasKeys`, `CardFollowsSetup`, `KeyFilesMatch`, `CliRight` |
| `demo` | N = 16, t = 2^6, 1 to 3 rows, one failure, fair | `TypeOK`, `SharesReconstruct`, `NothingLostInTurn`, `NothingUnflushedAtEnd`, `SpinsOnlyAlone`, `BothEnd` |
| `shape_slots_bug` | the widest shape, N = 64 | `SlotsHoldJob`: **violated** |

What they show:

- With two callers and a card that answers in time the driver is right: slots are
  not shared, answers are the caller's own, no call hangs.
- Exclusion on the card survives every fault and a crash. Other things do not: a
  `KernelInit` that finds no device keeps its semaphore, and so does a process that
  dies, so later callers wait forever (which is why `EveryCallReturns` is a property of
  the faultless run).
- The controller packs whole blocks with the right keys for every order of
  finishing times, starts the trace only when the tree is complete, and leaves an empty
  pipeline to the next run.
- The pool loses no wake-up and drains before it joins. A call that *returns* leaves
  no task of its own; one that throws does, and what these do to a later call is undefined. A later
  call beside which none of them ran is right.
- Every shape that the constructor takes is taken by the card, and each row ends at the
  coefficient where `Decrypt` looks for it. The stale rows which the encoder leaves beyond the
  matrix end at coefficients that nobody reads.
- Whoever has the only key that was ever set up on the machine decrypts the right
  product, through failed setups, killed programs, renewed contexts, pickling, `UpdateVector` and the
  cutting of records. The condition is needed: the card has one key buffer, and a setup of
  any other program turns later products of the first one into noise, with status OK.
- Every product of `MatVec` and `UpdateVector` can be read although `substr` is given an
  end for a length: a piece is too long, never too short, and `load` ignores the rest.
- As long as the card's input and output worked, the keys with which the card is found when the
  semaphore is free are those of the last setup that returned OK, and an enabled context has a public
  key and a card with whole keys. After a transfer, a register access or a poll that failed neither
  is true: `KernelInit` does not look, and the context is enabled (see the observations).
- After an undisturbed `gen` that lost no write the two key files belong together, whatever was
  killed or torn before, and an undisturbed `matvec` on them prints the right product. A `gen` that
  lost a write says that the key is saved all the same.
- The shares of the demo add up but for rounding, for masks on both sides of the
  wrap-around and row counts that are no power of two; the sync byte keeps the stream of the
  server from losing the query; both processes end, whichever is started first, and the
  endless loop of `recv_data` is reached only when the other process has failed.

### Findings

1. `driver_timeout`: when the poll loop of `KernelRun` runs out, `status` is still 0,
   and 0 is `success` (`mvp_fpga_lib.h:23`, `:265`, `:337-344`, `:362`).
2. `driver_slots_bug`: `fpga_buffer_mutex` is posted before `double_buffer_select`
   (`mvp_fpga_lib.h:353-356`), so with three callers two can get the same slot. With two
   callers it cannot happen; that is proved.
3. `shape_slots_bug`: the comment at `mvp_fpga_lib.h:247-249` gives each slot 1.75 GB;
   the addresses in `mvp_fpga_reg.h:29-32` are 1 GB apart, and the largest accepted
   job is larger than that. Jobs of the wrapper (at most 4096 x 8192) stay clear
   of the other input slot (`BlocksApart`).

### Observations

Noticed while modelling; no run is about them.

- `KernelInit` ignores what `fpga_memory_operate` returns
  (`mvp_fpga_lib.h:201`, and the register write and the poll after it) and returns 0, so
  `SetupEvalKey` returns OK and enables the context with no keys in the card, where `api_def.h:35`
  says that it transfers them. The properties about the card's keys have the condition `faults = 0`
  for this reason, and are false without it.
- The comments at `mvp_priv_impl.cc:751-753` and `:567-569` say that a submatrix is
  padded with zeros to as many rows as a polynomial takes. The buffer is never cleared for rows that
  the matrix has not (`:779-781`), so they keep the row of an earlier polynomial. `Decrypt` does not
  read them, which `RowsPlaced` includes.
- The string that `MatVecFMA` returns has no record header and the number of columns for
  its length, so `Decrypt` refuses it (`wrapper.cc:507-553`; `ProductsReadable`
  includes this).
- `Decrypt` of an `MVPEncryptedVec` is always refused: SEAL's checked load does not
  take the level of a fresh encryption.
- `gen` prints "Public key is saved" whatever became of its writes: `save_eval_key`
  (`mvp_cli.cc:26-34`) and the saving of the secret key (`:84-87`) ask for no result. `load_eval_key`
  (`:43-52`) checks no read, so a file that was cut off is refused by `SetupEvalKey` at the earliest.
- A block-wise `MatVec` that throws (`wrapper.cc:690-692`) leaves tasks that refer to its variables in a
  pool that lives on, and so does an encoding that fails (`mvp_priv_impl.cc:817-820`).
- A `SetupEvalKey` that fails after the public key is stored leaves a context with the new
  public key and, if it was enabled before, still enabled with the old card keys
  (`api_impl.cc:151`).
- `mvp_cli.cc` says that the rows have to be at least 2 and lets 1 pass, which `MatVec`
  refuses; negative precisions and column counts pass its guards as well. Two overlapping
  `matvec` runs write the same three result files and may mix them.
- `CenteralizeAt` builds its mask for 64 bits only and needs entries smaller than the
  prime; other values of `base_mod_nbits` would not work.
- `RandomVector` draws from a range that is not a multiple of Q, where its comment
  speaks of a uniform distribution. A comment in `ModulusUpAt` says `Q mod t` where the
  code has `Q div t`.
- In `MVPPrivImpl::EncodeVector` the precedence of `==` and `?:` makes one guard always
  true.

### Bounds

- `Callers`: two is what the two slots are made for; three is the smallest number
  that shows the slot window. `MaxRuns = 2` lets a second run of a caller meet leftovers of
  the first. `MaxTry` is 1 or 2: a loop that runs out is the same after one miss as after
  10^7. The proofs have none of these bounds.
- `MaxN`: 5 gives 16 leaves, so the reduce buffer is in use at four levels at once
  and all stalls coincide; all splits (1 to 4) and row counts per polynomial occur. 3 levels
  are enough for a second run to start on every kind of leftover.
- `BLK_NROWS = 4`, `BLK_NCOLS = 2`: up to four row and three column blocks with
  every remainder, including the one row too many. `RowBlks` is a number that the
  workers do not divide. `MaxCalls` is 2: one call that throws, and one beside the tasks that it
  left.
- `N = 16`: every shape is enumerated, including 0, 1, powers of two and their
  neighbours, and one more than the maximum. `PoolSizes`: one task for all polynomials, one for
  each block of rows, and three, which does not divide their number.
- `Teams`: two programs use the machine at a time, which is enough for one to disturb the
  other. Two `Keys` are two key generations. One `MatVec` is under way at a time
  (`NobodyMultiplies`); the other program still sets up keys between its blocks.
  `AddVector` and `UpdateVector` once for each vector and product. With 5 rows
  there are two row blocks (of 3 and 2) and two records; one column block, as the sum over
  several is in `block_shapes` and in the theorems. `CtSizes` alternates the longest length that a
  header can tell with the shortest that is longer than a header. `MaxFaults = 1`: after the
  first failure only the properties of types, files and records promise anything. An object and a run together are left to the theorems, which
  have any teams.
  Symmetry in keys, objects and runs: they are interchangeable, nothing names one of them,
  and the run has no liveness property.
- `MCCases`: entries of both signs, shares that wrap around and that do not, masks at 0,
  near Q/2 and near Q, noise of both signs. With `t = 2^6` and `Q = 899` the ratio of
  `Q` to `t` is small, so the error bound of `SharesReconstruct` is tight. `MaxFaults = 1` in `demo`:
  one failure is enough to leave the other process alone.
- `updated` bounds `UpdateVector` to once for each result.

### Fairness

`driver_two`: weak fairness of each caller inside a call (the scheduler runs threads,
and `sem_wait` is released by posts; the semaphores are contended by two callers with a
bounded number of runs, so weak fairness suffices) and of the card (clocked logic).
Nothing forces a caller to call. `pipeline_runs`: the clock ticks and each stage
finishes; each stage is a counter that runs to its end. `block_threads`: threads run; no
fairness on spurious wake-ups, on calls or on the destructor. `CHECK_DEADLOCK FALSE`
stands only in the driver and block configurations, where callers may stop calling or wait
for a semaphore that a failed call has kept, in `session`, where the keys run out,
programs may stop and a semaphore may be lost, and in `demo`, where processes end. `demo`: each process takes its next
step (the scheduler runs it, and the socket delivers what was flushed); no fairness on
failures. A message larger than the stream's buffer goes out in part before the flush,
which the reader cannot tell from waiting for the rest.

## 4. The proofs

TLAPS checks them for every value of the constants that satisfies the assumptions
named below. TLC evaluates each assumption in the runs of that component, and has
checked each inductive invariant on the instances of section 3 before it was proved.

| module | theorem | statement |
|---|---|---|
| `FpgaDriverProofs` | `TypeCorrect` | `Spec => []TypeOK` |
| | `Exclusion` | `Spec => []FpgaExclusive`, crashes included |
| | `TwoCallersShareNoSlot` | at most two callers and no crash: `Spec => []SlotsNotShared` |
| | `TwoCallersAnsweredRight` | under `Calm`: `Spec => []AnswersRight` |
| | `TwoCallersImplementService` | under `Calm` and without faults: `Spec` implies `Init` and `[][Next]` of `MvpService` |
| `MvpPipelineProofs` | `ControlAlwaysRight` | `Spec => []ControlInv` |
| | `NoStartIsEverLost` | `Spec => []NoStartIsLost` |
| | `TraceAlwaysAfterTree` | `Spec => []TraceAfterTree` |
| | `AlwaysDrainedAtDone` | `Spec => []DrainedAtDone` |
| | `DataAlwaysRight` | `Spec => []DataInv` |
| | `PipelineTypeOK` | `Spec => []TypeOK` |
| | `OperandsAlwaysMatch` | `Spec => []OperandsMatch` |
| | `BlocksAlwaysWhole` | `Spec => []BlocksWhole` |
| | `RbStatusAlwaysTrue` | `Spec => []RbStatusTrue` |
| | `OutputAlwaysComplete` | `Spec => []OutputComplete` |
| `PackTreeProofs` | `PipelineIsTree` | `Spec` implies `Init` and `[][Next]` of `PackTree` |
| `BlockProofs` | `BlockTypeCorrect` | `Spec => []TypeOK` |
| | `ReturnsLeaveNoTask` | `Spec => []ReturnLeavesNoTask`, all faults |
| | `ProductAlwaysRight` | without the fault `"ecd"`: `Spec => []ProductRight` |
| `SdkShapeProofs` | `SubmatrixFillsPolynomial` | what `GetSubmatrixShape` gives for an accepted shape |
| `KernelShapeProofs` | `CardAlwaysAccepts` | `Spec => []CardAccepts` |
| | `RegistersAlwaysTrue` | `Spec => []RegistersTrue` |
| | `BlocksStayApart` | `Spec => []BlocksApart` |
| | `RowsAlwaysPlaced` | `Spec => []RowsPlaced` |
| `MvpHostProofs` | `KeyFilesAlwaysMatch` | `Spec => []KeyFilesMatch` |
| | `EnabledAlwaysHasKeys` | `Spec => []EnabledHasKeys` |
| | `CliAlwaysRight` | `Spec => []CliRight` |
| | `CardAlwaysFollowsSetup` | `Spec => CardFollowsSetup` |
| | `HostTypeCorrect` | `Spec => []TypeOK` of the machine |
| | `ProductsAlwaysReadable` | `Spec => []ProductsReadable` |
| | `SingleOwnerAlwaysRight` | `Spec => []SingleOwnerRight` |
| `LoopDemoProofs` | `DemoTypeCorrect` | `Spec => []TypeOK` |
| | `NothingEverLostInTurn` | `Spec => []NothingLostInTurn` |
| | `NothingEverUnflushedAtEnd` | `Spec => []NothingUnflushedAtEnd` |
| | `SpinsAlwaysAlone` | `Spec => []SpinsOnlyAlone` |
| | `SharesAlwaysReconstruct` | `Spec => []SharesReconstruct` |

### The driver

Assumptions: `CallersAssumption` (the set of callers is finite, `MaxRuns` is a number,
`KeyOf` is a function on the callers) and `DriverAssumption` (bounds are numbers,
`Faults` are known faults).

The argument is accounting of semaphores. Neither `TypeOK` nor `FpgaExclusive` is inductive:
that `fpga_mutex` stays below 2 depends on who posts, and who posts depends on who
waited. The invariant

    IInv == CardTypeOK /\ LocalTypes /\ FpgaInv /\ BufferInv /\ SelectInv

says for each semaphore that its value plus the units held by callers between a wait and
its post is at most the initial value. It is an inequality, because an early return
of `KernelInit` and a crash lose units. For `fpga_mutex` and `double_buffer_select` a unit
has at most one holder; for `fpga_buffer_mutex` the holders are counted (`HoldersMove`
says how the count changes when one caller moves). Each part has a lemma that every
step preserves it, with the steps grouped by what they do to that semaphore.

`TwoCallersShareNoSlot` needs more: a caller gets the first slot when
`double_buffer_select` is 0, and that must mean that the *other* caller holds the second
(`SelectHeld`). This is where at most two callers and no crash are used; the run
`driver_slots_bug` shows that three callers break it.

The second half of the module follows a job through the card. The hypothesis is

    Calm == AtMostTwo /\ MaxCrash = 0 /\ Faults \subseteq {"dev"} /\ OneKeyForAll

and each part is needed: a third caller may be given a slot in use, a crash keeps a
semaphore, a lost transfer or a time-out is answered as a success, and a second key
replaces the first one in the card. Calls that find no device are allowed. The
invariant adds to `IInv`, `SelectHeld` and `SlotsNotShared` that the card is busy only
while a caller polls (`CardBusy`), where the keys are (`KeysLoaded`), that the operands stay in the
slot of their caller (`OperandsIn`), what the card has made of them so far (`JobOnCard`) and
what the caller took (`AnswerTaken`). From it each step maps to a step of
`MvpService` or leaves it unchanged; the fairness of `MvpService` is left to TLC.

### The pipeline

Assumptions: `JobsAssumption` (the register values the driver can write, for any `MaxN`) and
`MaxStartsAssumption` (a number). Which stage finishes when is open, as in the model.

The three properties of the control (`NoStartIsLost`, `TraceAfterTree`, `DrainedAtDone`) are not
inductive, because the controller counts neither leaves nor
blocks: that the tree is complete it concludes from a level number which reaches stage
8, and that the run is over from one which reaches stage 9. The proof does the counting.

    ControlInv == /\ Registers /\ RoundsApart /\ Levels /\ Ends
                  /\ idle => Quiet
                  /\ ~idle => ReaderRight /\ NoBubble /\ RunInOrder

`RoundsApart` says which stages may still work between two clock edges, `Levels` that a stage of the
tree has a level exactly while it has work. `RunInOrder` says that some number of
row groups `g`, batches `q` and blocks `c[k]` of each level `k` account for the registers: the
counters of stages 2 and 4 stand where `q` batches leave them (`GroupsInOrder`), the leaves that
entered the tree are those of the groups that passed less those still due (`Taken`), and each block of
level `k` travels, waits in the reduce buffer, or is half of a block of level `k + 1`
(`Tally`). Three facts carry the step of a round:

- `RoundFront`: the three holds and the two counters of the front agree, so no batch or leaf is skipped
  or repeated, whichever stalls meet in one round;
- `RootAlone`: at most `2^(level - 1)` leaves give at most one block of the last level, and where
  it exists no block of a lower level is left;
- `FrontBound`: then all leaves have been taken, so the stages before the tree are empty.

So the pipeline holds nothing but the root when the trace begins, and the trace takes it to stage 9 alone.
TLC had checked `ControlInv` on both instances of the pipeline: any one run up to 5 levels (91 902
states), and any two runs in a row up to 3 levels (77 278 states).

The other properties are about what the buffers hold, and no buffer says which block it should
have. The counts of `ControlInv` do. A block is identified by its level `k` and its place among
the blocks of that level: the one in stage `s` has place `Index(c, s)`, which is `c[k]` less the blocks of
level `k` that entered the tree after it; the one that waits in the reduce buffer has place `2 * c[k + 1]`,
and the one it waits for the next. `Cluster(k, i)` is the set of leaves below such a node, numbered as
stage 4 extracts them. The invariant

    DataInv == /\ ControlInv /\ Outcome /\ Shaped /\ Small
               /\ ~idle => Modes /\ EdgesRight /\ DpRight /\ UramRight /\ StageModes /\ DataRight

says with the *same* counts `g`, `q` and `c` as `RunInOrder` (`DataAt`)

- which batches the double buffers of stages 0 to 2 have and how far each is transformed (`EdgesRight`,
  `PreRight`), which parts of the vector are stored (`UramRight`), what is summed in the product
  buffer (`DpRight`) and which group and rows the next leaf has (`LeafRight`);
- which block each stage of the tree has and how many steps of its key switch are done, before and after
  its done (`StagesRight`), with the mux and write modes that stages 4, 5 and 9 took at the last
  edge (`Modes`, `StageModes`);
- which blocks wait in the reduce buffer (`RedbufRight`).

`Outcome` carries the result from the last trip over the end of the run to `WriteDone`. `Shaped` and
`Small` bound the sets and sequences in the buffers also where a buffer holds something left from an
earlier run. That two blocks which meet in stage 5 are siblings is arithmetic of places
(`Sibling`): the waiting block has an even place and the new one the next. One lemma per stage
shows that the stage makes of its block what the next one expects, one per kind of
edge (batch, leaf, round, last) that the holds move blocks and places alike. TLC had checked the parts of
`DataInv` on both instances.

`PipelineIsTree` is the safety part of `ImplementsTree`. Stage 5 makes a block at its done, not when the
round begins, so the blocks made of level `k` are `Built(c)[k]`: `c[k]` less the one under way. The
argument has three parts.

- Intervals. Block `i` of level `k` has the leaf numbers of an aligned interval (`Span`), and
  from the numbers of blocks alone it follows which of them are not yet half of a larger one (`Standing`).
  These cover the leaves made so far (`Covered`). One more block of level 1 adds the next
  leaf (`LeafArrives`), one more of level `k + 1` replaces two siblings by their union (`PairPacked`).
- The forest. What is in stages 5 to 9 and in the reduce buffer is `Standing` for the numbers
  `Built(c)` (`ForestRunning`): every block in the pipeline stands, every block that stands is somewhere,
  and while two are packed neither is counted twice.
- The steps. Only the done of stage 5 changes `Built(c)` (`Stage5Tree`); the end of a round
  raises `c` and makes a block due at the same time, so the forest stays (`RoundQuiet`).

### The block-wise product

Assumptions: `BlockAssumption` (a finite, non-empty set of workers, as `MVPContext` has 1
to 8; shapes with a row and a column; known faults) and `BlockSizeAssumption`. Shapes,
block sizes, workers and calls are otherwise arbitrary.

`ReturnLeavesNoTask` is about what no variable says: that a future which is "ok" has
no task left. `BInv` says that no two tasks have the same future of the same call (`OneTaskEach`), that
the future of a task whose call still runs is pending (`Owed`), that the caller has gone past "ok"
futures only (`Waited`), and that a task without a frame belongs to a call that threw (`Frames`). A left-over
task may run, end or be queued beside any later call; it owes nothing to that call's
futures, which is why the invariant speaks of the number of the call. The
lemmas `Enqueued`, `Taken` and `Finished` say what a step of the pool does to the set
of tasks; the rest of the proof does not look into the queue.

`ProductAlwaysRight` adds `PInv`: tasks name the block of their future (`TasksRight`), the two
loops of the caller have enqueued the blocks up to `row_ite`, `col_ite` in order
(`Walk`), each finished block holds the cells of its rows and columns at the coefficients of
their rows (`Blocks`, `Multiplied`), and the merged rows begin where `UpdateVector` and
`Decrypt` compute them (`Merged`). The three loops over the row blocks are recursive;
`RowAt` is their closed form (blocks of `BLK_NROWS`, and a last but one of one row less where one
row would be left), and `RowWalk`, `RowEnds` and `OffsetsAre` show that they agree with
it. `PInv` holds until a left-over task runs during a call (`SInv`: `~spoiled => PInv`), and every call
establishes it anew. The hypothesis excludes the fault `"ecd"`: a block task drops the status of
`ecd_program` (`mvp_priv_impl.cc:814`) and stores a product of a partly encoded
matrix.

### Shapes

Assumptions: `DegreeAssumption` (the ring degree is 2^2 to 2^12; the card has 2^12) and
`ShapeAssumption` (at least 8, shapes are pairs of naturals, and there is an encoding task). All shapes that
`check_config` accepts are covered. The hard part is what the provers do not know about `2^k`,
`Log2`, `NextPow2` and `reverse_bits`: `SdkShapeProofs` derives it from the number of
subsets of `1..k` (a theorem of the library) and the well-foundedness of `<`, by least
counterexamples in place of induction. `KInv` says how far a call has come and that its
variables hold what the functions of `MVPPrivImpl`, `MatVecCore` and
`KernelRun` give for its shape; `Exponents` writes every size as a power of two. That
every polynomial is uploaded once (`RegistersAlwaysTrue`) is that bit reversal and the
transposition of pairs are bijections.

`RowsAlwaysPlaced` is about three permutations written in three places: the encoder puts
the rows of a polynomial in bit-reversed order, `MatVecCore` the polynomials, and the packing
tree of the card reverses all of them at once. `KInv` says that the polynomials are those of
`Polynomials`; `ReverseLowest` (the lowest bit becomes the highest) and from it `ReverseParts` (the high
and the low part of a number are reversed separately and change places) give that the first two together
are the third (`ReversalsMeet`), and `CellMeetsColumn` that each leaf has the cells which the vector
meets. The theorem is about the rows that the matrix has: what a slot beyond it keeps depends on the
number of encoding tasks, and is shown only to lie where no row of the result ends.

### The machine

The theorems of `MvpHostProofs` hold for any sets of keys, objects and command line runs,
any shapes, teams, failures and kills. `KeyFilesAlwaysMatch` uses no assumption. The others use
`KeysAssumption` (`NoKey`, `Mixed` and `NoFetch` are no keys), `FaultsAssumption` (known failures, a
number of them), `TeamsAssumption` (an object is no command line run), `DegreeAssumption` and
`CliShapesAssumption` (shapes are pairs of naturals); those about the session also
`FilesAssumption` (`Absent` and `Torn` are no keys).

`KeyFilesMatch` is not inductive: that the end of a
`gen` leaves equal files depends on what it wrote before, and on nobody else having
written since. The invariant adds that a run marked solo is alone (`SoloAlone`), that a
writer has a key and, once it has saved the private file and is solo, the file holds that
key (`WritersRight`), and that nobody writes while the files are trusted
(`TrustedQuiet`). A run whose write of the private file is lost is no longer solo, and a lost write of the public one leaves the files untrusted. Steps that leave one run outside
of the writing steps share a lemma (`OneRunMoves`); `Gen`, the saving steps and `OpenKeys` have their
own.

`CInv` adds three things.

- `MInv`, the card and its semaphore: what the card holds was set up or is a mixture
  (`MachineRight`), and whoever is in `KernelInit` has decoded its key (`KernelRight`). `CardRight`
  holds as long as nothing failed: the card has whole keys, it reads others only for the one who waits
  for it or for one that was killed, and it has read them by the time the semaphore is posted.
- `ContextsRight`: an enabled context has a public key, and as long as nothing failed a loaded card.
- `FilesRight`, and `RunOk`: what a `matvec` run has read, whole or torn, set up and computed at each
  of its steps.

That a failure ends the guarantee is part of the invariant, since the card then
keeps a mixture until the next setup: `faults` only grows, and so does `setups`, so a run that finds
only its own key there was undisturbed (`RunsStayOk`). `CardFollowsSetup` follows from
`CInv` step by step (`Follows`): the card reads keys only while the semaphore is taken or lost, and
only `KernelPost` frees it, when what was read is what its caller uploaded.

The theorems about the session add `SessionAssumption` (vectors and matrices are not empty),
`BlockSizeAssumption` (a block has at least 3 rows and at most what a ciphertext holds) and
`CtSizesAssumption` (the lengths of ciphertexts are any that the header can tell). Their proof has two
halves.

- The records. `RowBlocks`, `atoi` and the read pointer of `Cut` are recursive functions. Each
  lemma guesses a closed form, shows that it satisfies the recursion, and that two functions
  which do are equal (`Climb`, induction over the set of arguments where they agree). The records have
  different lengths, so where the next one begins is a recursive sum: `Joins` and `Laid` say that a string is
  its records laid end to end, and `JoinsExist` that `Merge` makes such a string. `CutMerge`
  combines them: whatever `Merge` wrote, the loop of `UpdateVector` and `Decrypt` finds every
  header (`HeaderRead`) and a piece that begins with the right ciphertext and is long enough
  (`PieceLoads`), although the second argument of `substr` is an end used as a length.
  `CutSerialized` shows that the first piece of the headerless string of `MatVecFMA` begins
  behind the head of the ciphertext, which SEAL refuses. `UnpicklePickle` is the way there and back for vector
  blocks, with the bound of four parts from `SubmatrixFillsPolynomial`.
- The session. `SInv` is `CInv` and `DInv`: every key in the card, a file or a run was generated
  (`KeysMade`), a context has a public key that was set up (`PartiesRight`), each part of the
  vector (`VecRight`), each block of a product under way (`CallsRight`) and each record of the
  product (`ProdRight`) has its key and level, and has the right terms *if no other key was
  ever set up and nothing failed* (`Only`). The condition is part of the invariant at each stage, because
  what a second key or a failed upload spoils is never repaired, and `setups` and `faults` only grow, so each
  stage passes it on (`VecStays`, `CallStays`, `ProdStays`). `RowSumIs` is the sum over the column blocks.

### The demo

Assumptions: `FaultsAssumption` (a number), `CasesAssumption` (inputs have their types, and
the entries of the matrix are below the primes in absolute value: they have 20 bits and a
sign, the primes 35) and, for the numbers only, `DegreeAssumption` and `ModuliAssumption`: `t`
is a power of two from 4 on, and the three primes have inverses modulo each other where the
code needs one (`Invertible`), which is all that is used of their being different primes.

The numbers of the cases do not matter to the stream. `DInv` counts messages: for each end, how many it has
`Taken` and `Put` at each step of its program, and that what waits in the socket and
in the read-ahead buffer is exactly what the other end has put and this one has not taken
(`WayRight`), with a limit on what the other end can have put by then (`Limit`, it
waits for an answer). At each send the limit equals what was taken, so nothing is read
ahead and nothing is lost. A failed end keeps the limit but not the equality, which
is why `SpinsOnlyAlone` is part of the invariant.

`SharesAlwaysReconstruct` is about the numbers: for every degree, modulus, matrix, vector,
share, mask and noise, not only those of `MCCases`. Its proof has three parts.

- The messages. `ContentRight` says that each message in a buffer, on the way or received holds
  the `Value` of its name, and that each end has what it has asked for so far. With `DInv` it
  is inductive; the response is right because the query was received before.
- The residues. `Cong` is congruence, with what it needs: sums, products, a factor that has an
  inverse can be cancelled (`CongCancel`), and numbers that agree modulo both primes agree modulo
  their product (`SameModQ`), so that `Compose` and `DivideByQk`, which are choices in the model, give
  what they should (`ComposeIs`, `DivideByQkIs`). The sums are recursive functions; that these exist,
  and what they add up to, is shown by least counterexamples (`SumIs`, `SumModCong`).
  `Strides` shows that the rows, the mask and `Decrypt` use the same coefficients: the two branches
  of `mask_size` agree because a divisor of a power of two is one (`PowerDivisor`).
- The errors, on integers. A lift is off by half a unit of `t` (`LiftNear`), so a column by at most
  `t * Mag` of its entry, whatever multiple of `t` the two shares wrap around by (`ColumnNear`), and
  a row by the sum (`SumNear`). Both results are rounded the same way (`DownNear`), so their
  errors differ by less than `Q`: together they make up the one unit that `SharesReconstruct`
  allows (`RowReconstructs`).

The proof gave a sharper bound than the one that had been checked: it is strict and has no
unit added to the noise, so that a row of zeros without noise comes out exact.

### Only model-checked

- Liveness: `EveryCallReturns`, `EveryRunEnds`, `EveryCallEnds`, `DestructorJoins`, `BothEnd`, and
  the fairness of `MvpService` and `PackTree` (so `ImplementsService` and `ImplementsTree` as a
  whole). Fairness and ENABLED are out of the prover's reach.

## 5. What is not modelled

- The arithmetic of the NTT, of modular multiplication and of encryption: numbers of 35
  to 64 bits over 4096 points, with no order of events to get wrong. Products of more than
  one polynomial are in `KernelShape` by position, not by number.
- AXI bursts and `mvp_axil.v`'s register file: planned.
- Failures of `KernelRun` on a machine with several programs: `MvpHost` has `MatVec` of a block as one
  step that gets its result; the polls and transfers of a run, and what fails in them, are in
  `FpgaDriver`. What a caller that waits for a lost semaphore does is not modelled further: it waits.
- A torn key file that decodes after all, such as a mixture of two key generations of the same
  length. `Torn` stands for what SEAL refuses.
- The lengths of SEAL's compressed records as they come out: they are a list that repeats (any list, in
  the theorems).
- `ConvertUserKey` and `ReleaseFPGA`, which one example each calls; `scale_down`.
- `skip_trace` (command bit 1), which no command of the driver sets, and the debug
  counter `o_stage_cnt`.
- The lock of the Python interpreter, which the workers that read a `py::list` do not
  take: what they would read is outside of the repository.
- `util/seal.cc` and `util/slotful_ntt.cc`, which no target builds; `argparse.hpp`, which
  is vendored; status, types and declarations; the other examples, which are straight-line
  calls of the same functions.
- Generated Verilog and testbenches.

## 6. Plan

1. Done, models: the driver with its card, the controller with its pipeline, the pool with
   the block protocol, the shapes; the session with its records, the command line program
   and the shared card; the masked product and the two processes of the demo.
2. Done, proofs: the driver and its service; the control of the pipeline and what its buffers
   hold, step by step the packing tree; the block-wise product over the pool; the shapes and registers; the key files, the card's keys and the command line
   program; the records, vectors and products of the session; the stream of the demo and its numbers.
3. Next, models: the register file and the ap handshake (`mvp_axil.v`, `mvp_top.v`); the
   AXI read and write masters with outstanding bursts; the NTT and inverse NTT address
   generators (every pair of points visited once in each layer); the pipeline as an
   implementation of `FpgaCard`.
