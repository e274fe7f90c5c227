------------------------------- MODULE MvpCli -------------------------------
(***************************************************************************)
(* cli/mvp_cli.cc: "gen" writes a secret key and its evaluation key to two *)
(* files of the working directory, "matvec" reads them and multiplies.     *)
(* Runs of the program overlap as their users like, and any of them may    *)
(* stop between two steps.  A file that was opened for writing is Torn     *)
(* until all of it is written, which is not always noticed.                *)
(***************************************************************************)
EXTENDS MvpApi

CONSTANTS
  Clis,      \* the runs that may be under way at a time
  CliShapes  \* [nrows, ncols] of the matrices: bound on -r and -c

ASSUME CliShapesAssumption == CliShapes \subseteq [nrows : Nat, ncols : Nat]

Absent == "absent"
Torn   == "torn"

ASSUME FilesAssumption == {Absent, Torn} \cap Keys = {}

VARIABLES
  priv, pub,  \* mvp_key and mvp_key.pub
  cli,        \* the runs
  trusted     \* history: the last "gen" ran to its end, lost no write and
              \* overlapped no run

cliVars == <<priv, pub, cli, trusted>>

NoRun  == [pc |-> "idle", solo |-> FALSE, sk |-> NoKey, evk |-> NoKey,
           out |-> <<>>]
GenPcs == {"save_priv", "open_pub", "save_pub"}
Files  == Keys \cup {Absent, Torn}

FilesInit ==
  /\ priv = Absent /\ pub = Absent
  /\ cli = [c \in Clis |-> NoRun]
  /\ trusted = FALSE

(* A run begins; solo while no other one is under way and no write fails.  *)
Begun(c, new) ==
  [d \in Clis |-> IF d = c THEN [new EXCEPT !.solo = \A e \in Clis \ {c} :
                                                        cli[e] = NoRun]
                  ELSE [cli[d] EXCEPT !.solo = FALSE]]

Ended(c) == cli' = [cli EXCEPT ![c] = NoRun]
At(c, pc) == cli[c].pc = pc
Goes(c, pc) == cli' = [cli EXCEPT ![c] = [@ EXCEPT !.pc = pc]]

-----------------------------------------------------------------------------
(* mvp_keygen: a key, then the private file, then the public one.          *)

Gen(c) ==
  /\ At(c, "idle")
  /\ \E k \in Fresh :
       /\ generated' = generated \cup {k}
       /\ cli' = Begun(c, [NoRun EXCEPT !.pc = "save_priv", !.sk = k])
  /\ priv' = Torn
  /\ trusted' = FALSE
  /\ UNCHANGED <<card, setups, pub>>

(* Two writers of one file may leave a mixture of both.                    *)
Written(c) ==
  {cli[c].sk} \cup
    (IF \E d \in Clis \ {c} : cli[d].pc \in GenPcs THEN {Torn} ELSE {})

(* What the stream still holds is written by close(), of which nobody      *)
(* asks whether it succeeds.                                               *)
SavePriv(c) ==
  /\ At(c, "save_priv")
  /\ \/ priv' \in Written(c) /\ Goes(c, "open_pub")
     \/ priv' = Torn
        /\ cli' = [cli EXCEPT ![c] = [@ EXCEPT !.pc = "open_pub", !.solo = FALSE]]
  /\ UNCHANGED <<machine, pub, trusted>>

OpenPub(c) ==
  /\ At(c, "open_pub")
  /\ pub' = Torn
  /\ Goes(c, "save_pub")
  /\ UNCHANGED <<machine, priv, trusted>>

SavePubSkipped(c) ==   \* mutant: keeps a file that exists
  /\ At(c, "save_pub")
  /\ pub' = pub
  /\ trusted' = cli[c].solo
  /\ Ended(c)
  /\ UNCHANGED <<machine, priv>>

(* save_eval_key asks for the result of no write, and returns true.        *)
SavePub(c) ==
  /\ At(c, "save_pub")
  /\ \/ pub' \in Written(c) /\ trusted' = cli[c].solo
     \/ pub' = Torn /\ trusted' = FALSE
  /\ Ended(c)
  /\ UNCHANGED <<machine, priv>>

-----------------------------------------------------------------------------
(* mvp_matvec.  Both files are opened before either is read.               *)

OpenKeys(c) ==
  /\ At(c, "idle")
  /\ pub # Absent /\ priv # Absent
  /\ cli' = Begun(c, [NoRun EXCEPT !.pc = "load_pub"])
  /\ UNCHANGED <<machine, priv, pub, trusted>>

(* load_eval_key asks for the result of no read either.  A length of a     *)
(* torn file may end the run; otherwise what is left in the buffer is      *)
(* taken for the key.                                                      *)
LoadPub(c) ==
  /\ At(c, "load_pub")
  /\ \/ pub = Torn /\ Ended(c)
     \/ cli' = [cli EXCEPT ![c] = [@ EXCEPT !.pc = "load_priv", !.evk = pub]]
  /\ UNCHANGED <<machine, priv, pub, trusted>>

(* SEAL checks what it loads; a message or an exception ends the run.      *)
LoadPriv(c) ==
  /\ At(c, "load_priv")
  /\ IF priv = Torn THEN Ended(c)
     ELSE cli' = [cli EXCEPT ![c] = [@ EXCEPT !.pc = "setup", !.sk = priv]]
  /\ UNCHANGED <<machine, priv, pub, trusted>>

CliSetup(c, fault) ==
  LET s == SetupEvalKey(c, Create, cli[c].evk, fault)
  IN /\ At(c, "setup") /\ SetupGoes(cli[c].evk, fault)
     /\ kernel' = s.kernel
     /\ setups' = IF fault = "decode" THEN setups ELSE setups \cup {cli[c].evk}
     /\ IF fault = "none" THEN Goes(c, "init") ELSE Ended(c)
     /\ UNCHANGED <<cardKey, dram, fetch, faults, generated, priv, pub,
                    trusted>>

CliInit(c) ==
  /\ At(c, "init")
  /\ KernelUpload(c, cli[c].evk) \/ KernelStart(c)
  /\ UNCHANGED cliVars

CliReturns(c) ==
  /\ At(c, "init")
  /\ KernelPost(c)
  /\ Goes(c, "multiply")
  /\ UNCHANGED <<priv, pub, trusted>>

(* Encrypt with the secret key, or (--asym) the public key, and MatVec;    *)
(* the row count 1 passes the guards of the command line and fails here.   *)
CliMultiply(c, key, s) ==
  LET ctx == [pk |-> cli[c].evk, enabled |-> TRUE]
      cts == Encrypt(key, s, <<"v", 1>>)
  IN /\ At(c, "multiply") /\ kernel = Free
     /\ key \in {cli[c].sk, cli[c].evk}
     /\ IF EncryptOk(key, s) /\ MatVecOk(ctx, cts, s)
        THEN cli' = [cli EXCEPT ![c] = [@ EXCEPT !.pc = "save",
                                !.out = <<MatVec(cts, {}, 1), s>>]]
        ELSE Ended(c)
     /\ UNCHANGED <<machine, priv, pub, trusted>>

(* What DecryptMatVec gives the run, and what it should give.              *)
CliResult(c) == DecryptMatVec(cli[c].sk, cli[c].out[1])
CliWanted(c) ==
  {<<1, <<<<"v", 1>>, i>>>> : i \in 1..num_subvec(cli[c].out[2])}

(* Decrypts, writes the matrix, the vector and the result, and ends.       *)
CliSave(c) ==
  /\ At(c, "save")
  /\ DecryptMatVecOk(cli[c].sk, cli[c].out[1], cli[c].out[2].nrows)
  /\ Ended(c)
  /\ UNCHANGED <<machine, priv, pub, trusted>>

(* Killed, or ended by a file that does not open or a write that throws:   *)
(* the files stay as they are.                                             *)
CliStops(c) ==
  /\ ~At(c, "idle")
  /\ KernelDies(c, At(c, "multiply"))
  /\ Ended(c)
  /\ UNCHANGED <<cardKey, dram, fetch, faults, generated, setups, priv, pub,
                 trusted>>

CliNext(c) ==
  \/ Gen(c) \/ SavePriv(c) \/ OpenPub(c) \/ SavePub(c)
  \/ OpenKeys(c) \/ LoadPub(c) \/ LoadPriv(c)
  \/ \E f \in SetupFaults \cup {"none"} : CliSetup(c, f)
  \/ CliInit(c) \/ CliReturns(c)
  \/ \E k \in Keys, s \in CliShapes : CliMultiply(c, k, s)
  \/ CliSave(c) \/ CliStops(c)

-----------------------------------------------------------------------------
(* After a "gen" that ran to its end, lost no write and overlapped no      *)
(* other run, the two key files are whole and belong together, whatever    *)
(* was killed, failed to write or ran at the same time before.             *)
KeyFilesMatch == trusted => priv = pub /\ priv \in Keys
=============================================================================
