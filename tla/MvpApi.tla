------------------------------- MODULE MvpApi -------------------------------
(***************************************************************************)
(* The calls of mvp_public (api_impl.cc, mvp_impl.cc, mvp_priv_impl.cc) as *)
(* programs of one machine use them: contexts, keys, ciphertexts and the   *)
(* one key buffer of the card, which all of them share.                    *)
(*                                                                         *)
(* A ciphertext is the secret key that decrypts it, the level of its       *)
(* modulus ("key" with the special prime, "data" without) and the set of   *)
(* terms it is the sum of.  The term Junk stands for a sum that was made   *)
(* with the wrong key: no call notices, and decryption gives noise.        *)
(* XOk holds when call X returns Status::OK.                               *)
(***************************************************************************)
EXTENDS SdkConfig, Sequences, FiniteSets

CONSTANTS
  Keys,      \* secret keys; a name also stands for what is derived from it
  Faults,    \* what may go wrong, a subset of FaultKinds
  MaxFaults  \* bound: how often the card's input and output fail

FaultKinds ==
  {"mem",    \* fpga_memory_operate fails in KernelInit, which goes on
   "reg",    \* fpga_reg_write_array or fpga_reg_read fails, likewise
   "slow",   \* the card is not done when KernelInit's last DONE read is made
   "kill"}   \* a program is killed, or ends by a fault of its own

NoKey == "no key"
Mixed == "mixed keys"   \* a part of the keys is of another upload
NoFetch == "no fetch"
Junk  == <<"junk">>

ASSUME KeysAssumption   == {NoKey, Mixed, NoFetch} \cap Keys = {}
ASSUME FaultsAssumption == Faults \subseteq FaultKinds /\ MaxFaults \in Nat

VARIABLES
  cardKey,    \* the Galois keys that the card works with
  dram,       \* those in its memory
  fetch,      \* those that it is reading from there
  kernel,     \* who has the semaphore "mvp_fpga" for KernelInit, and where
  faults,     \* history: how often an upload, a register access or a poll failed
  generated,  \* the secret keys that exist
  setups      \* history: the keys that SetupEvalKey decoded

card    == <<cardKey, dram, fetch, kernel, faults>>
machine == <<card, generated, setups>>

Free == [by |-> "nobody", at |-> "free"]
Lost == [by |-> "nobody", at |-> "lost"]   \* nobody will ever post it
InKernel(q, at) == [by |-> q, at |-> at]
KernelPcs == {"upload", "start", "poll"}

MachineInit ==
  /\ cardKey = NoKey /\ dram = NoKey /\ fetch = NoFetch
  /\ kernel = Free /\ faults = 0
  /\ generated = {} /\ setups = {}

Fresh == Keys \ generated   \* bound: as many key generations as Keys has

-----------------------------------------------------------------------------
(* Contexts *)

NoContext == [pk |-> "no context", enabled |-> FALSE]
Contexts  == [pk : Keys \cup {NoKey}, enabled : BOOLEAN] \cup {NoContext}

(* MVPContext::Create *)
Create == [pk |-> NoKey, enabled |-> FALSE]

decodesAll(k) == TRUE   \* mutant: what was read of the file is taken as it is

(* DecodeEvalKey: one string, its version, and SEAL's checks on loading.   *)
decodes(k) == k \in Keys

(* What may stop SetupEvalKey: the string does not decode (another         *)
(* version, cut off); a Galois key is missing or zero; there is no device, *)
(* which is found with the semaphore taken, and returns with it.           *)
SetupFaults == {"decode", "galois", "device"}

SetupEvalKeyEager(q, c, k, fault) ==   \* mutant: enabled before KernelInit
  [ctx    |-> IF fault = "decode" THEN c ELSE [pk |-> k, enabled |-> TRUE],
   kernel |-> CASE fault = "none"   -> InKernel(q, "upload")
                [] fault = "device" -> Lost
                [] OTHER            -> kernel]

(* SetupEvalKey of program q on context c, as far as into KernelInit: the  *)
(* public key is in place before the checks of InitFPGAKernel, and stays   *)
(* when one of them or KernelInit fails.                                   *)
SetupEvalKey(q, c, k, fault) ==
  [ctx    |-> IF fault = "decode" THEN c ELSE [c EXCEPT !.pk = k],
   kernel |-> CASE fault = "none"   -> InKernel(q, "upload")
                [] fault = "device" -> Lost
                [] OTHER            -> kernel]

SetupGoes(k, fault) ==
  /\ fault # "decode" => decodes(k)
  /\ fault \in {"none", "device"} => kernel = Free

-----------------------------------------------------------------------------
(* KernelInit, which looks at no result: what it returns is 0.             *)

Fault(kinds) ==
  /\ kinds \cap Faults # {}
  /\ faults < MaxFaults
  /\ faults' = faults + 1

(* A transfer that fails leaves the memory as it is, or half written.  A   *)
(* card that still reads may get a part of what is written.                *)
KernelUpload(q, k) ==
  /\ kernel = InKernel(q, "upload")
  /\ kernel' = InKernel(q, "start")
  /\ \/ dram' = k /\ UNCHANGED faults
     \/ Fault({"mem"}) /\ dram' \in {dram, Mixed}
  /\ fetch' \in IF fetch = NoFetch THEN {NoFetch} ELSE {fetch, Mixed}
  /\ UNCHANGED <<cardKey, generated, setups>>

(* The registers are written, or they are not.                             *)
KernelStart(q) ==
  /\ kernel = InKernel(q, "start")
  /\ kernel' = InKernel(q, "poll")
  /\ \/ fetch' = dram /\ UNCHANGED faults
     \/ Fault({"reg"}) /\ UNCHANGED fetch
  /\ UNCHANGED <<cardKey, dram, generated, setups>>

KernelPostEarly(q) ==   \* mutant: does not wait for the card
  /\ kernel = InKernel(q, "poll")
  /\ kernel' = Free
  /\ UNCHANGED <<cardKey, dram, fetch, faults, generated, setups>>

(* The loop ends when the card is done, or runs out.                       *)
KernelPost(q) ==
  /\ kernel = InKernel(q, "poll")
  /\ kernel' = Free
  /\ \/ fetch = NoFetch /\ UNCHANGED faults
     \/ fetch # NoFetch /\ Fault({"reg", "slow"})
  /\ UNCHANGED <<cardKey, dram, fetch, generated, setups>>

(* The card has read its keys, whoever still waits for it.                 *)
CardLoads ==
  /\ fetch # NoFetch
  /\ cardKey' = fetch
  /\ fetch' = NoFetch
  /\ UNCHANGED <<dram, kernel, faults, generated, setups>>

(* Killed: a semaphore that q has stays taken.  KernelRun has it for a     *)
(* part of a product, which is one step here.                              *)
KernelDies(q, multiplies) ==
  /\ "kill" \in Faults
  /\ kernel' \in CASE kernel.by = q                 -> {Lost}
                  [] kernel = Free /\ multiplies    -> {Free, Lost}
                  [] OTHER                          -> {kernel}

-----------------------------------------------------------------------------
(* Ciphertexts *)

VecShape(len) == [nrows |-> 1, ncols |-> len]

num_subvec(s) == CeilDiv(s.ncols, GetSubmatrixShape(s, N).cols)

(* A sum under two keys is noise for both, and so is all it is added to.   *)
Sum(ct, key, terms) ==
  [ct EXCEPT !.body = IF ct.key # key \/ Junk \in @ \cup terms
                      THEN {Junk} ELSE @ \cup terms]

EncryptOk(key, s) == key # NoKey /\ public_config_ok(s)

(* One ciphertext for each part of the vector; t names the vector.         *)
Encrypt(key, s, t) ==
  [i \in 1..num_subvec(s) |->
     [key |-> key, level |-> "key", body |-> {<<t, i>>}]]

AddVectorOk(c, cts, s) ==
  c.pk # NoKey /\ public_config_ok(s) /\ Len(cts) = num_subvec(s)

(* The sum is made fresh with a zero under the public key of the context.  *)
AddVector(c, cts, t) ==
  [i \in DOMAIN cts |-> Sum(cts[i], c.pk, {<<t, i>>})]

MatVecOk(c, cts, s) ==
  /\ c.enabled
  /\ config_ok(s)
  /\ Len(cts) = num_subvec(s)
  /\ \A i \in DOMAIN cts : cts[i].level = "key"

MatVecFirst(cts, share, row) ==   \* mutant: the first part of the vector
  [key   |-> cts[1].key,
   level |-> "data",
   body  |-> IF cts[1].key = cardKey /\ fetch = NoFetch
             THEN {<<row, t>> : t \in cts[1].body} ELSE {Junk}]

(* One product of the card: its key switching needs the keys of the        *)
(* ciphertexts, and none of them half read.  row names the rows, share is  *)
(* what is added to the vector.                                            *)
MatVec(cts, share, row) ==
  LET body == share \cup UNION {cts[i].body : i \in DOMAIN cts}
      right == /\ Junk \notin body /\ fetch = NoFetch
               /\ \A i \in DOMAIN cts : cts[i].key = cardKey
  IN [key   |-> cts[1].key,
      level |-> "data",
      body  |-> IF right THEN {<<row, t>> : t \in body} ELSE {Junk}]

(* UpdateMatVec and DecryptMatVec load their input with SEAL's checks,     *)
(* which refuse the level of a fresh encryption.                           *)
UpdateMatVecOk(ct, len) == ct.level = "data" /\ len \in 1..N

UpdateMatVec(ct, t) == Sum(ct, ct.key, {t})

AddMatVec(ct1, ct2) == Sum(ct1, ct2.key, ct2.body)

DecryptMatVecOk(sk, ct, len) ==
  /\ sk # NoKey
  /\ len \in 1..kMaxNumRows
  /\ ct.level = "data"

DecryptMatVec(sk, ct) ==
  IF ct.key = sk /\ Junk \notin ct.body THEN ct.body ELSE {Junk}
=============================================================================
