--------------------------- MODULE MvpHostProofs ----------------------------
(***************************************************************************)
(* The theorems about the machine and the programs that use it, for any    *)
(* number of parties, command line runs, keys, rows, columns and sizes of  *)
(* blocks, any program killed at any step, and any card operation or       *)
(* write of a file failing unnoticed:                                      *)
(*                                                                         *)
(*   - the two key files belong together after an undisturbed "gen" whose  *)
(*     writes worked;                                                      *)
(*   - the types, and while the card's input and output worked: who may    *)
(*     multiply finds the keys of a setup in the card, the keys change     *)
(*     only while a setup runs, and an undisturbed run of the command line *)
(*     program decrypts its product;                                       *)
(*   - every product of MatVec and UpdateVector can be read, and, with one *)
(*     key on a machine whose card worked, is the right one.               *)
(***************************************************************************)
EXTENDS MvpHost, SdkShapeProofs, SequenceTheorems

(* The ring degree is one that the lemmas about shapes take.               *)
LEMMA DegreeRight == Degree(N) /\ N \in Nat
  <1>1. PICK k \in 2..12 : N = 2^k
    BY DegreeAssumption
  <1>2. k \in Nat
    OBVIOUS
  <1>3. 2^k \in Nat
    BY <1>2, NatPower
  <1> QED BY <1>1, <1>3 DEF Degree

-----------------------------------------------------------------------------
(* The blocks of the python wrapper *)

(* The row at which block k of len rows begins.                            *)
RowAt(len, k) == BlockRow(len, BLK_NROWS, k)

(* A row block is not empty and ends inside of the matrix, ...             *)
LEMMA RowDimsFit ==
  ASSUME NEW len \in Nat, NEW i \in Nat, i < len,
         BLK_NROWS \in Nat, BLK_NROWS >= 3
  PROVE  RowDims(len, i) \in 1..BLK_NROWS /\ i + RowDims(len, i) <= len
  BY DEF RowDims

(* ... and so does a column block.                                         *)
LEMMA ColDimsFit ==
  ASSUME NEW len \in Nat, NEW i \in Nat, i < len,
         BLK_NCOLS \in Nat, BLK_NCOLS >= 1
  PROVE  ColDims(len, i) \in 1..BLK_NCOLS /\ i + ColDims(len, i) <= len
  BY DEF ColDims

(* From one row block to the next: RowDims leads from the first row of     *)
(* block k to that of block k + 1, and row_index gives k back.             *)
LEMMA RowWalk ==
  ASSUME NEW len \in Nat, BLK_NROWS \in Nat, BLK_NROWS >= 3,
         NEW k \in Nat, k < CeilDiv(len, BLK_NROWS)
  PROVE  /\ RowAt(len, k) \in Nat /\ RowAt(len, k) < len
         /\ row_index(RowAt(len, k)) = k
         /\ RowAt(len, k) + RowDims(len, RowAt(len, k)) = RowAt(len, k + 1)
  <1>1. \A i : RowDims(len, i) = BlockDims(len, BLK_NROWS, i)
    BY DEF RowDims, BlockDims
  <1> QED BY <1>1, BlockWalk DEF RowAt, row_index

(* The blocks begin at row 0 and end at the last row.                      *)
LEMMA RowEnds ==
  ASSUME NEW len \in Nat, len >= 1, BLK_NROWS \in Nat, BLK_NROWS >= 3
  PROVE  /\ CeilDiv(len, BLK_NROWS) \in 1..len
         /\ RowAt(len, 0) = 0 /\ row_index(0) = 0
         /\ \A k \in Nat : k >= CeilDiv(len, BLK_NROWS) => RowAt(len, k) = len
         /\ row_index(len) = CeilDiv(len, BLK_NROWS)
  BY BlockEnds DEF RowAt, row_index

(* Runs have the fields of NoRun.                                          *)
IsRun(r) ==
  DOMAIN r = {"pc", "solo", "sk", "evk", "out"} /\ r.solo \in BOOLEAN

CliShape ==
  /\ cli = [c \in Clis |-> cli[c]]
  /\ \A c \in Clis : IsRun(cli[c])

(* A run that goes on to another step is the same otherwise.               *)
LEMMA RunGoes ==
  ASSUME NEW r, IsRun(r), NEW pc, NEW n, n = [r EXCEPT !.pc = pc]
  PROVE  /\ IsRun(n) /\ n.pc = pc /\ n.solo = r.solo /\ n.sk = r.sk
         /\ n.evk = r.evk /\ n.out = r.out
  BY DEF IsRun

(* Who is solo is alone.                                                   *)
SoloAlone == \A c, d \in Clis : cli[c].solo /\ d # c => cli[d].pc = "idle"

(* Who writes the files has a key, and once it has saved the private one   *)
(* and is alone, that is what the file holds.                              *)
WritersRight ==
  \A c \in Clis : cli[c].pc \in GenPcs =>
    /\ cli[c].sk \in Keys
    /\ cli[c].solo /\ cli[c].pc # "save_priv" => priv = cli[c].sk

TrustedQuiet == trusted => \A c \in Clis : cli[c].pc \notin GenPcs

IInv ==
  CliShape /\ SoloAlone /\ WritersRight /\ TrustedQuiet /\ KeyFilesMatch

-----------------------------------------------------------------------------
(* NoRun is a run outside of "gen".                                        *)
LEMMA NoRunFacts ==
  IsRun(NoRun) /\ NoRun.pc = "idle" /\ NoRun.pc \notin GenPcs /\ ~NoRun.solo
  BY DEF NoRun, IsRun, GenPcs

(* A step that changes only the run c, and leaves it outside of the        *)
(* writing steps, keeps the invariant.                                     *)
LEMMA OneRunMoves ==
  ASSUME IInv, NEW c \in Clis, NEW r,
         cli' = [cli EXCEPT ![c] = r],
         IsRun(r), r.pc \notin GenPcs,
         r = NoRun \/ (cli[c].pc # "idle" /\ r.solo = cli[c].solo),
         UNCHANGED <<priv, pub, trusted>>
  PROVE  IInv'
  <1>1. \A d \in Clis : cli'[d] = IF d = c THEN r ELSE cli[d]
    BY DEF IInv, CliShape
  <1>2. CliShape'
    BY <1>1 DEF IInv, CliShape, IsRun
  <1>3. SoloAlone'
    BY <1>1, NoRunFacts DEF IInv, SoloAlone
  <1>4. WritersRight'
    BY <1>1 DEF IInv, WritersRight
  <1>5. TrustedQuiet' /\ KeyFilesMatch'
    BY <1>1 DEF IInv, TrustedQuiet, KeyFilesMatch
  <1> QED BY <1>2, <1>3, <1>4, <1>5 DEF IInv

(* The initial state satisfies the invariant.                              *)
LEMMA InitIInv == Init => IInv
  <1> SUFFICES ASSUME Init PROVE IInv
    OBVIOUS
  <1>1. \A c \in Clis : cli[c] = NoRun
    BY DEF Init, FilesInit
  <1>2. CliShape
    BY <1>1, NoRunFacts DEF Init, FilesInit, CliShape
  <1> QED
    BY <1>1, <1>2, NoRunFacts
    DEF Init, FilesInit, IInv, SoloAlone, WritersRight, TrustedQuiet,
        KeyFilesMatch

(* A run that is no longer solo is the same otherwise.                     *)
LEMMA NotSolo ==
  ASSUME NEW r, IsRun(r), NEW n, n = [r EXCEPT !.solo = FALSE]
  PROVE  IsRun(n) /\ ~n.solo /\ n.pc = r.pc /\ n.sk = r.sk
  BY DEF IsRun

(* "gen" begins: the others are no longer solo, and nothing is trusted.    *)
LEMMA GenKeeps == ASSUME IInv, NEW c \in Clis, Gen(c) PROVE IInv'
  <1>1. PICK k \in Fresh :
          cli' = Begun(c, [NoRun EXCEPT !.pc = "save_priv", !.sk = k])
    BY DEF Gen
  <1> DEFINE alone == \A e \in Clis \ {c} : cli[e] = NoRun
  <1>2. /\ cli'[c] = [pc |-> "save_priv", solo |-> alone, sk |-> k,
                      evk |-> NoKey, out |-> <<>>]
        /\ \A d \in Clis \ {c} : cli'[d] = [cli[d] EXCEPT !.solo = FALSE]
        /\ cli' = [d \in Clis |-> cli'[d]]
    BY <1>1 DEF Begun, NoRun
  <1>3. \A d \in Clis \ {c} :
          /\ IsRun(cli'[d]) /\ ~cli'[d].solo
          /\ cli'[d].pc = cli[d].pc /\ cli'[d].sk = cli[d].sk
    BY <1>2, NotSolo DEF IInv, CliShape
  <1>4. IsRun(cli'[c]) /\ cli'[c].pc = "save_priv" /\ cli'[c].sk \in Keys
        /\ (cli'[c].solo <=> alone)
    BY <1>2 DEF IsRun, Fresh
  <1>5. CliShape'
    BY <1>2, <1>3, <1>4 DEF CliShape, IsRun
  <1>6. SoloAlone'
    BY <1>3, <1>4, NoRunFacts DEF SoloAlone
  <1>7. WritersRight'
    BY <1>3, <1>4 DEF IInv, WritersRight
  <1>8. TrustedQuiet' /\ KeyFilesMatch'
    BY DEF Gen, TrustedQuiet, KeyFilesMatch
  <1> QED BY <1>5, <1>6, <1>7, <1>8 DEF IInv

(* "matvec" begins.                                                        *)
LEMMA OpenKeysKeeps == ASSUME IInv, NEW c \in Clis, OpenKeys(c) PROVE IInv'
  <1> DEFINE alone == \A e \in Clis \ {c} : cli[e] = NoRun
  <1>1. cli' = Begun(c, [NoRun EXCEPT !.pc = "load_pub"])
    BY DEF OpenKeys
  <1>2. /\ cli'[c] = [pc |-> "load_pub", solo |-> alone, sk |-> NoKey,
                      evk |-> NoKey, out |-> <<>>]
        /\ \A d \in Clis \ {c} : cli'[d] = [cli[d] EXCEPT !.solo = FALSE]
        /\ cli' = [d \in Clis |-> cli'[d]]
    BY <1>1 DEF Begun, NoRun
  <1>3. \A d \in Clis \ {c} :
          /\ IsRun(cli'[d]) /\ ~cli'[d].solo
          /\ cli'[d].pc = cli[d].pc /\ cli'[d].sk = cli[d].sk
    BY <1>2, NotSolo DEF IInv, CliShape
  <1>4. IsRun(cli'[c]) /\ cli'[c].pc \notin GenPcs /\ (cli'[c].solo <=> alone)
    BY <1>2 DEF IsRun, GenPcs
  <1>5. CliShape'
    BY <1>2, <1>3, <1>4 DEF CliShape, IsRun
  <1>6. SoloAlone'
    BY <1>3, <1>4, NoRunFacts DEF SoloAlone
  <1>7. WritersRight'
    BY <1>3, <1>4 DEF IInv, WritersRight
  <1>8. TrustedQuiet' /\ KeyFilesMatch'
    BY <1>3, <1>4 DEF OpenKeys, IInv, TrustedQuiet, KeyFilesMatch
  <1> QED BY <1>5, <1>6, <1>7, <1>8 DEF IInv

(* A writer goes from one writing step to the next.                        *)
LEMMA WriterMoves ==
  ASSUME IInv, NEW c \in Clis, cli[c].pc \in GenPcs,
         NEW r, cli' = [cli EXCEPT ![c] = r],
         IsRun(r), r.solo => cli[c].solo
  PROVE  /\ CliShape' /\ SoloAlone' /\ cli'[c] = r
         /\ \A d \in Clis : d # c => cli'[d] = cli[d]
  <1>1. /\ cli'[c] = r
        /\ \A d \in Clis : d # c => cli'[d] = cli[d]
        /\ cli' = [d \in Clis |-> cli'[d]]
    BY DEF IInv, CliShape
  <1>2. cli[c].pc # "idle"
    BY DEF GenPcs
  <1>3. CliShape'
    BY <1>1 DEF IInv, CliShape, IsRun
  <1>4. SoloAlone'
    BY <1>1, <1>2 DEF IInv, SoloAlone
  <1> QED BY <1>1, <1>3, <1>4

(* A writer that is alone writes its key and nothing else.                 *)
LEMMA SoloWrites ==
  ASSUME IInv, NEW c \in Clis, cli[c].solo PROVE Written(c) = {cli[c].sk}
  BY DEF IInv, SoloAlone, Written, GenPcs

(* The private file is written, or a part of it; who loses a write is no   *)
(* longer solo.                                                            *)
LEMMA SavePrivKeeps == ASSUME IInv, NEW c \in Clis, SavePriv(c) PROVE IInv'
  <1> DEFINE r == cli[c]
             n == [r EXCEPT !.pc = "open_pub"]
             m == [r EXCEPT !.pc = "open_pub", !.solo = FALSE]
  <1>1. r.pc \in GenPcs /\ IsRun(r) /\ trusted' = trusted
    BY DEF SavePriv, At, GenPcs, IInv, CliShape
  <1>2. /\ IsRun(n) /\ n.pc = "open_pub" /\ n.solo = r.solo /\ n.sk = r.sk
        /\ IsRun(m) /\ m.pc = "open_pub" /\ ~m.solo /\ m.sk = r.sk
    BY <1>1 DEF IsRun
  <1>3. \/ cli' = [cli EXCEPT ![c] = n] /\ priv' \in Written(c)
        \/ cli' = [cli EXCEPT ![c] = m]
    BY DEF SavePriv, Goes
  <1> HIDE DEF n, m
  <1>4. PICK x : /\ cli' = [cli EXCEPT ![c] = x]
                 /\ IsRun(x) /\ x.sk = r.sk
                 /\ x.solo => r.solo /\ priv' \in Written(c)
    BY <1>2, <1>3
  <1>5. CliShape' /\ SoloAlone' /\ cli'[c] = x
        /\ \A d \in Clis : d # c => cli'[d] = cli[d]
    BY <1>1, <1>4, WriterMoves
  <1>6. x.solo => priv' = x.sk
    BY <1>4, SoloWrites
  <1>7. \A d \in Clis : d # c => ~cli[d].solo
    BY <1>1 DEF IInv, SoloAlone, GenPcs
  <1>8. WritersRight'
    BY <1>1, <1>4, <1>5, <1>6, <1>7 DEF IInv, WritersRight
  <1>9. ~trusted'
    BY <1>1 DEF IInv, TrustedQuiet
  <1> QED BY <1>5, <1>8, <1>9 DEF IInv, TrustedQuiet, KeyFilesMatch

(* The public file is opened, and torn.                                    *)
LEMMA OpenPubKeeps == ASSUME IInv, NEW c \in Clis, OpenPub(c) PROVE IInv'
  <1> DEFINE r == cli[c]
             n == [r EXCEPT !.pc = "save_pub"]
  <1>1. /\ r.pc \in GenPcs /\ r.pc # "save_priv" /\ IsRun(r)
        /\ cli' = [cli EXCEPT ![c] = n] /\ UNCHANGED <<priv, trusted>>
    BY DEF OpenPub, At, Goes, GenPcs, IInv, CliShape
  <1>2. IsRun(n) /\ n.solo = r.solo /\ n.sk = r.sk
    BY <1>1, RunGoes
  <1> HIDE DEF n
  <1>3. CliShape' /\ SoloAlone' /\ cli'[c] = n
        /\ \A d \in Clis : d # c => cli'[d] = cli[d]
    BY <1>1, <1>2, WriterMoves
  <1>4. WritersRight'
    BY <1>1, <1>2, <1>3 DEF IInv, WritersRight
  <1>5. ~trusted'
    BY <1>1 DEF IInv, TrustedQuiet
  <1> QED BY <1>3, <1>4, <1>5 DEF IInv, TrustedQuiet, KeyFilesMatch

(* The last step of "gen": trusted if no other run overlapped it and no    *)
(* write was lost, and then both files hold its key.                       *)
LEMMA SavePubKeeps == ASSUME IInv, NEW c \in Clis, SavePub(c) PROVE IInv'
  <1>1. /\ cli[c].pc \in GenPcs /\ cli[c].pc # "save_priv"
        /\ cli' = [cli EXCEPT ![c] = NoRun]
        /\ trusted' => cli[c].solo /\ pub' \in Written(c)
        /\ priv' = priv
    BY DEF SavePub, At, Ended, GenPcs
  <1>2. \A d \in Clis : cli'[d] = IF d = c THEN NoRun ELSE cli[d]
    BY <1>1 DEF IInv, CliShape
  <1>3. CliShape'
    BY <1>1, <1>2, NoRunFacts DEF IInv, CliShape, IsRun
  <1>4. SoloAlone'
    BY <1>2, NoRunFacts DEF IInv, SoloAlone
  <1>5. WritersRight'
    BY <1>1, <1>2, NoRunFacts DEF IInv, WritersRight
  <1>6. ASSUME trusted' PROVE TrustedQuiet' /\ KeyFilesMatch'
    <2>1. cli[c].solo /\ pub' = cli[c].sk
      BY <1>1, <1>6, SoloWrites
    <2>2. priv' = cli[c].sk /\ cli[c].sk \in Keys
      BY <1>1, <2>1 DEF IInv, WritersRight
    <2>3. \A d \in Clis : cli'[d].pc = "idle"
      BY <1>2, <2>1, NoRunFacts DEF IInv, SoloAlone
    <2> QED BY <2>1, <2>2, <2>3 DEF GenPcs, TrustedQuiet, KeyFilesMatch
  <1> QED BY <1>3, <1>4, <1>5, <1>6 DEF IInv, TrustedQuiet, KeyFilesMatch

-----------------------------------------------------------------------------
(* What no run of the program changes.                                     *)
LEMMA OthersKeep == ASSUME IInv, UNCHANGED cliVars PROVE IInv'
  BY DEF IInv, cliVars, CliShape, SoloAlone, WritersRight, TrustedQuiet,
         KeyFilesMatch, Written

(* Every step of a run keeps the invariant.                                *)
LEMMA CliKeeps == ASSUME IInv, NEW c \in Clis, CliNext(c) PROVE IInv'
  <1> DEFINE r == cli[c]
  <1>1. IsRun(r)
    BY DEF IInv, CliShape
  <1>2. ASSUME Ended(c), UNCHANGED <<priv, pub, trusted>> PROVE IInv'
    BY <1>2, OneRunMoves, NoRunFacts DEF Ended
  <1>14. ASSUME NEW pc, Goes(c, pc), pc \notin GenPcs, r.pc # "idle",
                UNCHANGED <<priv, pub, trusted>>
         PROVE  IInv'
    <2> DEFINE n == [r EXCEPT !.pc = pc]
    <2>1. cli' = [cli EXCEPT ![c] = n]
      BY <1>14 DEF Goes
    <2>2. IsRun(n) /\ n.pc = pc /\ n.solo = r.solo
      BY <1>1, RunGoes
    <2> HIDE DEF n
    <2> QED BY <1>14, <2>1, <2>2, OneRunMoves
  <1>3. CASE Gen(c)
    BY <1>3, GenKeeps
  <1>4. CASE SavePriv(c)
    BY <1>4, SavePrivKeeps
  <1>5. CASE OpenPub(c)
    BY <1>5, OpenPubKeeps
  <1>6. CASE SavePub(c)
    BY <1>6, SavePubKeeps
  <1>7. CASE OpenKeys(c)
    BY <1>7, OpenKeysKeeps
  <1>8. CASE LoadPub(c)
    <2>1. CASE Ended(c)
      BY <1>2, <1>8, <2>1 DEF LoadPub
    <2>2. CASE ~Ended(c)
      <3> DEFINE n == [r EXCEPT !.pc = "load_priv", !.evk = pub]
      <3>1. cli' = [cli EXCEPT ![c] = n]
        BY <1>8, <2>2 DEF LoadPub
      <3>2. IsRun(n) /\ n.pc \notin GenPcs /\ n.solo = r.solo /\ r.pc # "idle"
        BY <1>1, <1>8 DEF IsRun, GenPcs, NoRun, LoadPub, At
      <3> QED BY <1>8, <3>1, <3>2, OneRunMoves DEF LoadPub
    <2> QED BY <2>1, <2>2
  <1>9. CASE LoadPriv(c)
    <2>1. CASE priv = Torn
      BY <1>2, <1>9, <2>1 DEF LoadPriv
    <2>2. CASE priv # Torn
      <3> DEFINE n == [r EXCEPT !.pc = "setup", !.sk = priv]
      <3>1. cli' = [cli EXCEPT ![c] = n]
        BY <1>9, <2>2 DEF LoadPriv
      <3>2. IsRun(n) /\ n.pc \notin GenPcs /\ n.solo = r.solo /\ r.pc # "idle"
        BY <1>1, <1>9 DEF IsRun, GenPcs, NoRun, LoadPriv, At
      <3> QED BY <1>9, <3>1, <3>2, OneRunMoves DEF LoadPriv
    <2> QED BY <2>1, <2>2
  <1>10. ASSUME NEW f \in SetupFaults \cup {"none"}, CliSetup(c, f)
         PROVE  IInv'
    <2>1. /\ Goes(c, "init") \/ Ended(c)
          /\ UNCHANGED <<priv, pub, trusted>> /\ r.pc = "setup"
      BY <1>10 DEF CliSetup, At
    <2>2. "init" \notin GenPcs /\ r.pc # "idle"
      BY <2>1 DEF GenPcs
    <2> QED BY <1>2, <1>14, <2>1, <2>2
  <1>11. ASSUME NEW k \in Keys, NEW s \in CliShapes, CliMultiply(c, k, s)
         PROVE  IInv'
    <2> DEFINE o == <<MatVec(Encrypt(k, s, <<"v", 1>>), {}, 1), s>>
    <2>1. /\ cli' = [cli EXCEPT ![c] = [r EXCEPT !.pc = "save", !.out = o]] \/ Ended(c)
          /\ UNCHANGED <<priv, pub, trusted>> /\ r.pc = "multiply"
      BY <1>11 DEF CliMultiply, At
    <2>2. CASE cli' = [cli EXCEPT ![c] = [r EXCEPT !.pc = "save", !.out = o]]
      <3> HIDE DEF o
      <3> DEFINE n == [r EXCEPT !.pc = "save", !.out = o]
      <3>1. cli' = [cli EXCEPT ![c] = n]
        BY <2>2
      <3>2. IsRun(n) /\ n.pc \notin GenPcs /\ n.solo = r.solo /\ r.pc # "idle"
        BY <1>1, <2>1 DEF IsRun, GenPcs, NoRun
      <3> QED BY <2>1, <3>1, <3>2, OneRunMoves
    <2> QED BY <1>2, <2>1, <2>2
  <1>12. CASE CliSave(c)
    BY <1>2, <1>12 DEF CliSave
  <1>13. CASE CliStops(c)
    BY <1>2, <1>13 DEF CliStops
  <1>15. CASE CliInit(c)
    <2>1. UNCHANGED cliVars
      BY <1>15 DEF CliInit
    <2> QED BY <2>1, OthersKeep
  <1>16. CASE CliReturns(c)
    <2>1. Goes(c, "multiply") /\ r.pc # "idle" /\ UNCHANGED <<priv, pub, trusted>>
      BY <1>16 DEF CliReturns, At
    <2>2. "multiply" \notin GenPcs
      BY DEF GenPcs
    <2> QED BY <1>14, <2>1, <2>2
  <1> QED BY <1>3, <1>4, <1>5, <1>6, <1>7, <1>8, <1>9, <1>10, <1>11, <1>12,
             <1>13, <1>15, <1>16 DEF CliNext

(* After a "gen" of mvp_cli.cc that ran to its end, lost no write and      *)
(* overlapped no other run, mvp_key and mvp_key.pub hold one key pair,     *)
(* whatever the runs before it, the python programs and the card went      *)
(* through.                                                                *)
THEOREM KeyFilesAlwaysMatch == Spec => []KeyFilesMatch
  <1>1. IInv /\ [Next]_vars => IInv'
    <2> SUFFICES ASSUME IInv, [Next]_vars PROVE IInv'
      OBVIOUS
    <2>1. CASE UNCHANGED vars
      BY <2>1, OthersKeep DEF vars
    <2>2. ASSUME NEW p \in Parties \cap team, UNCHANGED cliVars PROVE IInv'
      BY <2>2, OthersKeep
    <2>3. ASSUME NEW c \in Clis \cap team, CliNext(c) PROVE IInv'
      BY <2>3, CliKeeps
    <2>4. ASSUME UNCHANGED <<session, cliVars>> PROVE IInv'
      BY <2>4, OthersKeep
    <2> QED BY <2>1, <2>2, <2>3, <2>4 DEF Next
  <1>2. IInv => KeyFilesMatch
    BY DEF IInv
  <1> QED BY <1>1, <1>2, InitIInv, PTL DEF Spec

-----------------------------------------------------------------------------
(* The card and the programs that share it *)

Objects == [pk : Keys \cup {NoKey}, enabled : BOOLEAN]

(* The keys that KernelInit uploads are those of who is in it.             *)
KernelKey ==
  IF kernel.by \in Parties THEN mvp_context[kernel.by].pk ELSE cli[kernel.by].evk

InInit(q) == kernel.by = q /\ kernel.at \in KernelPcs

MachineRight ==
  /\ generated \subseteq Keys /\ setups \subseteq Keys
  /\ faults \in 0..MaxFaults
  /\ cardKey \in setups \cup {NoKey, Mixed}
  /\ dram \in setups \cup {NoKey, Mixed}
  /\ fetch \in setups \cup {NoKey, Mixed, NoFetch}

(* Who is in KernelInit has decoded its key.                               *)
KernelRight ==
  /\ kernel \in {Free, Lost} \cup [by : Parties \cup Clis, at : KernelPcs]
  /\ kernel.at \in KernelPcs => KernelKey \in setups
  /\ \A p \in Parties : InInit(p) => mvp_context[p] \in Objects
  /\ \A c \in Clis : InInit(c) => cli[c].pc = "init"

(* As long as nothing failed: the card has whole keys, reads others only   *)
(* for who waits for it or is gone, and has read them when it is done.     *)
CardRight ==
  faults = 0 =>
    /\ cardKey \in setups \cup {NoKey} /\ fetch \in setups \cup {NoFetch}
    /\ kernel.at \in {"free", "upload", "start"} => fetch = NoFetch
    /\ kernel.at = "start" => dram = KernelKey
    /\ kernel.at = "poll" =>
         /\ dram = KernelKey
         /\ fetch = dram \/ (fetch = NoFetch /\ cardKey = dram)

MInv == MachineRight /\ KernelRight /\ CardRight

(* The contexts of the python programs.                                    *)
ContextsRight ==
  /\ mvp_context = [p \in Parties |-> mvp_context[p]]
  /\ \A p \in Parties :
       /\ mvp_context[p] \in Contexts
       /\ mvp_context[p].enabled =>
            mvp_context[p].pk \in Keys /\ (faults = 0 => cardKey # NoKey)

(* A "matvec" run has read its files, whole or not, and goes on from the   *)
(* setup with a whole key; if nobody disturbs it and the files were a      *)
(* pair, it has the keys that are in them, and its product decrypts to     *)
(* what it should.                                                         *)
Loaded == {"load_priv", "setup", "init", "multiply", "save"}

Product(r) ==
  DecryptMatVec(r.sk, r.out[1])
    = {<<1, <<<<"v", 1>>, i>>>> : i \in 1..num_subvec(r.out[2])}

RunOk(r) ==
  /\ r.pc \in {"load_pub", "load_priv"} => {pub, priv} \subseteq Keys \cup {Torn}
  /\ r.pc \in Loaded => r.evk \in Keys \cup {Torn}
  /\ r.pc \in {"init", "multiply", "save"} => r.evk \in Keys /\ r.evk \in setups
  /\ r.pc \in {"multiply", "save"} /\ faults = 0 => cardKey # NoKey
  /\ r.solo /\ trusted =>
       /\ r.pc \in Loaded => r.evk = pub
       /\ r.pc \in Loaded \ {"load_priv"} => r.sk = priv
       /\ r.pc = "save" /\ setups = {r.evk} /\ faults = 0 => Product(r)

FilesRight == pub \in Files /\ priv \in Files

CInv ==
  /\ IInv /\ MInv /\ ContextsRight /\ FilesRight
  /\ \A c \in Clis : RunOk(cli[c])

-----------------------------------------------------------------------------
(* The machine *)

(* What was set up stays so, nothing that failed is forgotten, and the     *)
(* card is never empty again.                                              *)
MachineGrows ==
  /\ setups \subseteq setups'
  /\ faults' = 0 => faults = 0
  /\ faults' = 0 /\ cardKey # NoKey => cardKey' # NoKey

(* Who is in KernelInit stays there with the same key.                     *)
HolderStays ==
  kernel.at \in KernelPcs =>
    /\ kernel.by \in Parties => mvp_context'[kernel.by] = mvp_context[kernel.by]
    /\ kernel.by \in Clis => /\ cli'[kernel.by].pc = cli[kernel.by].pc
                             /\ cli'[kernel.by].evk = cli[kernel.by].evk

(* Where the kernel may be.                                                *)
LEMMA KernelAts ==
  /\ Free.at = "free" /\ Lost.at = "lost"
  /\ Free.at \notin KernelPcs /\ Lost.at \notin KernelPcs
  /\ \A q, at : InKernel(q, at).by = q /\ InKernel(q, at).at = at
  BY DEF Free, Lost, InKernel, KernelPcs

(* The keys of the holder stay the same with it.                           *)
LEMMA KernelKeyStays ==
  ASSUME MInv, HolderStays, kernel.at \in KernelPcs, kernel'.by = kernel.by
  PROVE  KernelKey' = KernelKey /\ kernel.by \in Parties \cup Clis
  <1>1. kernel.by \in Parties \cup Clis
    BY KernelAts DEF MInv, KernelRight
  <1> QED BY <1>1 DEF HolderStays, KernelKey

(* A step that leaves the card alone.                                      *)
LEMMA MachineStays ==
  ASSUME MInv, UNCHANGED <<card, setups>>, generated' \subseteq Keys,
         HolderStays
  PROVE  MInv' /\ MachineGrows
  <1>1. /\ UNCHANGED <<cardKey, dram, fetch, kernel, faults, setups>>
    BY DEF card
  <1>2. kernel.at \in KernelPcs => KernelKey' = KernelKey
    BY <1>1, KernelKeyStays
  <1>3. MachineRight' /\ MachineGrows
    BY <1>1 DEF MInv, MachineRight, MachineGrows
  <1>4. KernelRight'
    BY <1>1, <1>2 DEF MInv, KernelRight, InInit, HolderStays
  <1>5. CardRight'
    BY <1>1, <1>2 DEF MInv, CardRight, KernelPcs
  <1> QED BY <1>3, <1>4, <1>5 DEF MInv

(* After a failure it is known that there was one.                         *)
LEMMA FaultShows ==
  ASSUME MInv, NEW K, Fault(K)
  PROVE  faults' # 0 /\ faults' \in 0..MaxFaults
  BY FaultsAssumption DEF MInv, MachineRight, Fault

(* The upload, which may fail.                                             *)
LEMMA UploadKeeps ==
  ASSUME MInv, NEW q \in Parties \cup Clis, KernelUpload(q, KernelKey),
         UNCHANGED <<mvp_context, cli>>
  PROVE  MInv' /\ MachineGrows
  <1>1. /\ kernel.by = q /\ kernel.at = "upload"
        /\ kernel'.by = q /\ kernel'.at = "start"
        /\ kernel' = [by |-> q, at |-> "start"]
        /\ UNCHANGED <<cardKey, generated, setups>>
    BY KernelAts DEF KernelUpload, InKernel
  <1>2. {"upload", "start"} \subseteq KernelPcs
    BY DEF KernelPcs
  <1>3. KernelKey' = KernelKey /\ KernelKey \in setups
    BY <1>1, <1>2 DEF KernelKey, MInv, KernelRight
  <1>4. KernelRight'
    BY <1>1, <1>2, <1>3 DEF MInv, KernelRight, InInit
  <1>5. fetch' = NoFetch \/ (fetch # NoFetch /\ fetch' \in {fetch, Mixed})
    BY DEF KernelUpload
  <1>6. CASE dram' = KernelKey /\ faults' = faults
    <2>1. MachineRight' /\ MachineGrows
      BY <1>1, <1>3, <1>5, <1>6 DEF MInv, MachineRight, MachineGrows
    <2>2. CardRight'
      BY <1>1, <1>3, <1>5, <1>6 DEF MInv, CardRight
    <2> QED BY <1>4, <2>1, <2>2 DEF MInv
  <1>7. CASE Fault({"mem"}) /\ dram' \in {dram, Mixed}
    <2>1. faults' # 0 /\ faults' \in 0..MaxFaults
      BY <1>7, FaultShows
    <2>2. MachineRight' /\ MachineGrows
      BY <1>1, <1>5, <1>7, <2>1 DEF MInv, MachineRight, MachineGrows
    <2> QED BY <1>4, <2>1, <2>2 DEF MInv, CardRight
  <1> QED BY <1>6, <1>7 DEF KernelUpload

(* The start of the card.                                                  *)
LEMMA StartKeeps ==
  ASSUME MInv, NEW q \in Parties \cup Clis, KernelStart(q),
         UNCHANGED <<mvp_context, cli>>
  PROVE  MInv' /\ MachineGrows
  <1>1. /\ kernel.by = q /\ kernel.at = "start"
        /\ kernel'.by = q /\ kernel'.at = "poll"
        /\ kernel' = [by |-> q, at |-> "poll"]
        /\ UNCHANGED <<cardKey, dram, generated, setups>>
    BY KernelAts DEF KernelStart, InKernel
  <1>2. {"start", "poll"} \subseteq KernelPcs
    BY DEF KernelPcs
  <1>3. KernelKey' = KernelKey /\ KernelKey \in setups
    BY <1>1, <1>2 DEF KernelKey, MInv, KernelRight
  <1>4. KernelRight'
    BY <1>1, <1>2, <1>3 DEF MInv, KernelRight, InInit
  <1>5. CASE fetch' = dram /\ faults' = faults
    <2>1. MachineRight' /\ MachineGrows
      BY <1>1, <1>5 DEF MInv, MachineRight, MachineGrows
    <2>2. CardRight'
      BY <1>1, <1>3, <1>5 DEF MInv, CardRight
    <2> QED BY <1>4, <2>1, <2>2 DEF MInv
  <1>6. CASE Fault({"reg"}) /\ fetch' = fetch
    <2>1. faults' # 0 /\ faults' \in 0..MaxFaults
      BY <1>6, FaultShows
    <2>2. MachineRight' /\ MachineGrows
      BY <1>1, <1>6, <2>1 DEF MInv, MachineRight, MachineGrows
    <2> QED BY <1>4, <2>1, <2>2 DEF MInv, CardRight
  <1> QED BY <1>5, <1>6 DEF KernelStart

(* The end of KernelInit: if nothing failed, the card has the keys of who  *)
(* returns from it.                                                        *)
LEMMA PostKeeps ==
  ASSUME MInv, NEW q \in Parties \cup Clis, KernelPost(q)
  PROVE  /\ MInv' /\ MachineGrows /\ InInit(q) /\ kernel' = Free
         /\ KernelKey \in setups /\ UNCHANGED <<cardKey, setups, generated>>
         /\ faults' = 0 => faults = 0 /\ cardKey = KernelKey
  <1>1. /\ kernel.by = q /\ kernel.at = "poll" /\ "poll" \in KernelPcs
        /\ kernel' = Free
        /\ UNCHANGED <<cardKey, dram, fetch, generated, setups>>
    BY KernelAts DEF KernelPost, KernelPcs
  <1>2. KernelKey \in setups
    BY <1>1 DEF MInv, KernelRight
  <1>3. \/ fetch = NoFetch /\ faults' = faults
        \/ faults' # 0 /\ faults' \in 0..MaxFaults
    BY FaultShows DEF KernelPost
  <1>4. MachineRight' /\ MachineGrows
    BY <1>1, <1>3 DEF MInv, MachineRight, MachineGrows
  <1>5. KernelRight'
    BY <1>1, KernelAts DEF KernelRight, InInit
  <1>6. CardRight'
    BY <1>1, <1>3, KernelAts DEF MInv, CardRight
  <1>7. dram # NoFetch \/ faults # 0
    BY <1>1, <1>2, KeysAssumption DEF MInv, CardRight, MachineRight
  <1>8. faults' = 0 => faults = 0 /\ cardKey = KernelKey
    BY <1>1, <1>3, <1>7 DEF MInv, CardRight
  <1> QED BY <1>1, <1>2, <1>4, <1>5, <1>6, <1>8 DEF MInv, InInit

(* The card has read its keys.                                             *)
LEMMA LoadsKeeps ==
  ASSUME MInv, CardLoads, UNCHANGED <<mvp_context, cli>>
  PROVE  MInv' /\ MachineGrows
  <1>1. /\ fetch # NoFetch /\ cardKey' = fetch /\ fetch' = NoFetch
        /\ UNCHANGED <<dram, kernel, faults, generated, setups>>
    BY DEF CardLoads
  <1>2. KernelKey' = KernelKey
    BY <1>1 DEF KernelKey
  <1>3. MachineRight' /\ KernelRight'
    BY <1>1, <1>2 DEF MInv, MachineRight, KernelRight, InInit
  <1>4. CardRight'
    BY <1>1, <1>2 DEF MInv, CardRight
  <1>5. MachineGrows
    BY <1>1, KeysAssumption DEF MInv, CardRight, MachineRight, MachineGrows
  <1> QED BY <1>3, <1>4, <1>5 DEF MInv

(* SetupEvalKey of program q with key k, as far as into KernelInit.        *)
LEMMA SetupMachine ==
  ASSUME MInv, NEW q \in Parties \cup Clis, NEW ctx, NEW k,
         NEW f \in SetupFaults \cup {"none"}, SetupGoes(k, f),
         kernel' = SetupEvalKey(q, ctx, k, f).kernel,
         setups' = IF f = "decode" THEN setups ELSE setups \cup {k},
         f # "decode" => k \in Keys,
         UNCHANGED <<cardKey, dram, fetch, faults, generated>>,
         f # "none" => HolderStays,
         f = "none" => /\ KernelKey' = k
                       /\ \A p \in Parties : q = p => mvp_context'[p] \in Objects
                       /\ \A c \in Clis : q = c => cli'[c].pc = "init"
  PROVE  MInv' /\ MachineGrows
  <1>1. setups \subseteq setups' /\ setups' \subseteq Keys
    BY DEF MInv, MachineRight
  <1>2. MachineRight' /\ MachineGrows
    BY <1>1 DEF MInv, MachineRight, MachineGrows
  <1>3. CASE f = "none"
    <2>1. kernel = Free /\ kernel' = [by |-> q, at |-> "upload"] /\ k \in setups'
      BY <1>3 DEF SetupEvalKey, SetupGoes, InKernel
    <2>2. KernelRight'
      BY <1>3, <2>1 DEF KernelRight, InInit, KernelPcs
    <2>3. CardRight'
      BY <1>1, <2>1, KernelAts DEF MInv, CardRight
    <2> QED BY <1>2, <2>2, <2>3 DEF MInv
  <1>4. CASE f = "device"
    <2>1. kernel' = Lost
      BY <1>4 DEF SetupEvalKey
    <2>2. KernelRight'
      BY <2>1, KernelAts DEF KernelRight, InInit
    <2>3. CardRight'
      BY <1>1, <2>1, KernelAts DEF MInv, CardRight
    <2> QED BY <1>2, <2>2, <2>3 DEF MInv
  <1>5. CASE f \in {"decode", "galois"}
    <2>1. kernel' = kernel
      BY <1>5 DEF SetupEvalKey
    <2>2. kernel.at \in KernelPcs => KernelKey' = KernelKey
      BY <1>5, <2>1, KernelKeyStays
    <2>3. KernelRight'
      BY <1>1, <1>5, <2>1, <2>2 DEF MInv, KernelRight, InInit, HolderStays
    <2>4. CardRight'
      BY <1>1, <2>1, <2>2 DEF MInv, CardRight, KernelPcs
    <2> QED BY <1>2, <2>3, <2>4 DEF MInv
  <1> QED BY <1>3, <1>4, <1>5 DEF SetupFaults

(* A program is gone; where it was in KernelInit, nobody ever will be.     *)
LEMMA DiesMachine ==
  ASSUME MInv, NEW q, NEW m, KernelDies(q, m),
         UNCHANGED <<cardKey, dram, fetch, faults, generated, setups>>,
         kernel.by # q => HolderStays
  PROVE  MInv' /\ MachineGrows
  <1>1. MachineRight' /\ MachineGrows
    BY DEF MInv, MachineRight, MachineGrows
  <1>2. CASE kernel' = Lost
    <2>1. KernelRight'
      BY <1>2, KernelAts DEF KernelRight, InInit
    <2>2. CardRight'
      BY <1>2, KernelAts DEF MInv, CardRight
    <2> QED BY <1>1, <2>1, <2>2 DEF MInv
  <1>3. CASE kernel' # Lost
    <2>1. kernel' = kernel /\ (kernel.by # q \/ kernel = Free)
      BY <1>3 DEF KernelDies
    <2>2. HolderStays
      BY <2>1, KernelAts DEF HolderStays
    <2> QED BY <2>1, <2>2, MachineStays DEF MInv, MachineRight, card
  <1> QED BY <1>2, <1>3

-----------------------------------------------------------------------------
(* The steps of the python programs *)

(* A step of a python program disturbs no run.                             *)
LEMMA RunsStayOk ==
  ASSUME CInv, UNCHANGED cliVars, MachineGrows, NEW c \in Clis
  PROVE  RunOk(cli[c])'
  <1> DEFINE r == cli[c]
  <1>1. RunOk(r)
    BY DEF CInv
  <1>2. r' = r /\ pub' = pub /\ priv' = priv /\ trusted' = trusted
    BY DEF cliVars
  <1>3. r.evk \in setups /\ setups' = {r.evk} => setups = {r.evk}
    BY DEF MachineGrows
  <1>4. Product(r) => Product(r)'
    BY <1>2 DEF Product
  <1> QED BY <1>1, <1>2, <1>3, <1>4 DEF RunOk, MachineGrows, Loaded

(* What a step of the python programs or of the card has to keep.          *)
LEMMA NoCliStep ==
  ASSUME CInv, UNCHANGED cliVars, MInv', MachineGrows, ContextsRight'
  PROVE  CInv'
  <1>1. \A c \in Clis : RunOk(cli[c])'
    BY RunsStayOk
  <1>2. IInv'
    BY OthersKeep DEF CInv
  <1>3. FilesRight'
    BY DEF CInv, cliVars, FilesRight
  <1> QED BY <1>1, <1>2, <1>3 DEF CInv

(* The contexts stay right while nothing happens to them.                  *)
LEMMA ContextsStay ==
  ASSUME CInv, MachineGrows, mvp_context' = mvp_context PROVE ContextsRight'
  BY DEF CInv, ContextsRight, MachineGrows

(* A step that leaves the machine and the contexts alone.                  *)
LEMMA QuietKeeps ==
  ASSUME CInv, UNCHANGED <<machine, mvp_context, cliVars>> PROVE CInv'
  <1>1. UNCHANGED <<card, setups>> /\ generated' \subseteq Keys /\ cli' = cli
    BY DEF machine, cliVars, CInv, MInv, MachineRight
  <1>2. MInv' /\ MachineGrows
    BY <1>1, MachineStays DEF CInv, HolderStays
  <1> QED BY <1>2, NoCliStep, ContextsStay

(* The card has read its keys.                                             *)
LEMMA CardLoadsKeeps ==
  ASSUME CInv, CardLoads, UNCHANGED <<session, cliVars>> PROVE CInv'
  <1>1. UNCHANGED <<mvp_context, cli>>
    BY DEF session, cliVars
  <1>2. MInv' /\ MachineGrows
    BY <1>1, LoadsKeeps DEF CInv
  <1> QED BY <1>1, <1>2, NoCliStep, ContextsStay

(* One context changes.                                                    *)
LEMMA OneContext ==
  ASSUME CInv, NEW p \in Parties, NEW ctx,
         mvp_context' = [mvp_context EXCEPT ![p] = ctx]
  PROVE  /\ mvp_context' = [x \in Parties |-> mvp_context'[x]]
         /\ mvp_context'[p] = ctx
         /\ \A x \in Parties : x # p => mvp_context'[x] = mvp_context[x]
         /\ UNCHANGED cliVars /\ kernel.by # p => HolderStays
  BY DEF CInv, ContextsRight, HolderStays, cliVars

(* The contexts stay right when one of them is replaced by a right one.    *)
LEMMA ContextChanges ==
  ASSUME CInv, MachineGrows, NEW p \in Parties, NEW ctx,
         mvp_context' = [mvp_context EXCEPT ![p] = ctx], ctx \in Contexts,
         ctx.enabled => ctx.pk \in Keys /\ (faults' = 0 => cardKey' # NoKey)
  PROVE  ContextsRight'
  <1>1. /\ mvp_context' = [x \in Parties |-> mvp_context'[x]]
        /\ mvp_context'[p] = ctx
        /\ \A x \in Parties : x # p => mvp_context'[x] = mvp_context[x]
    BY OneContext
  <1>2. ASSUME NEW x \in Parties
        PROVE  /\ mvp_context'[x] \in Contexts
               /\ mvp_context'[x].enabled =>
                    mvp_context'[x].pk \in Keys /\ (faults' = 0 => cardKey' # NoKey)
    BY <1>1 DEF CInv, ContextsRight, MachineGrows
  <1> QED BY <1>1, <1>2 DEF ContextsRight, Contexts

(* A fresh context replaces what was there.                                *)
LEMMA ActivateKeeps ==
  ASSUME CInv, NEW p \in Parties, Activate(p), UNCHANGED cliVars PROVE CInv'
  <1>1. /\ UNCHANGED <<card, setups>> /\ kernel.by # p
        /\ mvp_context' = [mvp_context EXCEPT ![p] = Create]
    BY DEF Activate, InCall
  <1>2. generated' \subseteq Keys
    BY DEF Activate, Fresh, CInv, MInv, MachineRight
  <1>3. HolderStays
    BY <1>1, OneContext
  <1>4. MInv' /\ MachineGrows
    BY <1>1, <1>2, <1>3, MachineStays DEF CInv
  <1>5. Create \in Contexts /\ ~Create.enabled
    BY DEF Create, Contexts
  <1>6. ContextsRight'
    BY <1>1, <1>4, <1>5, ContextChanges
  <1> QED BY <1>4, <1>6, NoCliStep

(* A python program is gone.                                               *)
LEMMA DiesKeeps ==
  ASSUME CInv, NEW p \in Parties, Dies(p), UNCHANGED cliVars PROVE CInv'
  <1>1. /\ KernelDies(p, mvp_context[p].enabled)
        /\ UNCHANGED <<cardKey, dram, fetch, faults, generated, setups>>
        /\ mvp_context' = [mvp_context EXCEPT ![p] = NoContext]
    BY DEF Dies
  <1>2. kernel.by # p => HolderStays
    BY <1>1, OneContext
  <1>3. MInv' /\ MachineGrows
    BY <1>1, <1>2, DiesMachine DEF CInv
  <1>4. NoContext \in Contexts /\ ~NoContext.enabled
    BY DEF NoContext, Contexts
  <1>5. ContextsRight'
    BY <1>1, <1>3, <1>4, ContextChanges
  <1> QED BY <1>3, <1>5, NoCliStep

(* A setup, as far as into KernelInit, whatever it fails at: the context   *)
(* is enabled by it only later.                                            *)
LEMMA SetupKeeps ==
  ASSUME CInv, NEW p \in Parties, NEW k \in EvalKeys,
         NEW f \in SetupFaults \cup {"none"}, Setup(p, k, f), UNCHANGED cliVars
  PROVE  CInv'
  <1> DEFINE old == mvp_context[p]
             ctx == SetupEvalKey(p, old, k, f).ctx
  <1>1. /\ mvp_context' = [mvp_context EXCEPT ![p] = ctx]
        /\ kernel' = SetupEvalKey(p, old, k, f).kernel
        /\ setups' = IF f = "decode" THEN setups ELSE setups \cup {k}
        /\ SetupGoes(k, f) /\ kernel.by # p /\ old # NoContext
        /\ UNCHANGED <<cardKey, dram, fetch, faults, generated>>
    BY DEF Setup, Ready, InCall
  <1>2. k \in Keys
    BY DEF CInv, MInv, MachineRight, EvalKeys
  <1>3. old \in Objects
    BY <1>1 DEF CInv, ContextsRight, Contexts, Objects
  <1>4. /\ ctx \in Objects /\ (ctx.enabled <=> old.enabled)
        /\ ctx.enabled => ctx.pk \in Keys
        /\ f = "none" => ctx.pk = k
    <2>1. ctx = IF f = "decode" THEN old ELSE [old EXCEPT !.pk = k]
      BY DEF SetupEvalKey
    <2>2. old.enabled => old.pk \in Keys
      BY DEF CInv, ContextsRight
    <2>3. [old EXCEPT !.pk = k] = [pk |-> k, enabled |-> old.enabled]
      BY <1>3 DEF Objects
    <2> HIDE DEF ctx, old
    <2> QED BY <1>2, <1>3, <2>1, <2>2, <2>3 DEF Objects
  <1> HIDE DEF ctx
  <1>5. HolderStays /\ mvp_context'[p] = ctx
    BY <1>1, OneContext
  <1>6. ASSUME f = "none"
        PROVE  /\ KernelKey' = k
               /\ \A x \in Parties : p = x => mvp_context'[x] \in Objects
               /\ \A c \in Clis : p = c => cli'[c].pc = "init"
    <2>1. kernel'.by = p
      BY <1>1, <1>6, KernelAts DEF SetupEvalKey
    <2> QED BY <1>4, <1>5, <1>6, <2>1, TeamsAssumption DEF KernelKey
  <1>7. MInv' /\ MachineGrows
    <2> HIDE DEF old
    <2> QED BY <1>1, <1>2, <1>5, <1>6, SetupMachine DEF CInv
  <1>8. ctx \in Contexts /\ (ctx.enabled => (faults' = 0 => cardKey' # NoKey))
    BY <1>1, <1>4 DEF CInv, ContextsRight, Contexts, Objects
  <1>9. ContextsRight'
    BY <1>1, <1>4, <1>7, <1>8, ContextChanges
  <1> QED BY <1>7, <1>9, NoCliStep

(* KernelInit goes on.                                                     *)
LEMMA SetupInitKeeps ==
  ASSUME CInv, NEW p \in Parties, SetupInit(p), UNCHANGED cliVars PROVE CInv'
  <1>1. /\ UNCHANGED <<mvp_context, cli>>
        /\ KernelUpload(p, mvp_context[p].pk) \/ KernelStart(p)
    BY DEF SetupInit, session, cliVars
  <1>2. CASE KernelUpload(p, mvp_context[p].pk)
    <2>1. KernelKey = mvp_context[p].pk
      BY <1>2, KernelAts DEF KernelUpload, KernelKey
    <2>2. MInv' /\ MachineGrows
      BY <1>1, <1>2, <2>1, UploadKeeps DEF CInv
    <2> QED BY <1>1, <2>2, NoCliStep, ContextsStay
  <1>3. CASE KernelStart(p)
    <2>1. MInv' /\ MachineGrows
      BY <1>1, <1>3, StartKeeps DEF CInv
    <2> QED BY <1>1, <2>1, NoCliStep, ContextsStay
  <1> QED BY <1>1, <1>2, <1>3

(* What the return of SetupEvalKey does: whose context it is has the       *)
(* public key that was uploaded, and is enabled.                           *)
LEMMA SetupReturnsTo ==
  ASSUME CInv, NEW p \in Parties, SetupReturns(p)
  PROVE  /\ mvp_context'[p] = [pk |-> KernelKey, enabled |-> TRUE]
         /\ mvp_context' = [mvp_context EXCEPT
                              ![p] = [pk |-> KernelKey, enabled |-> TRUE]]
         /\ kernel.by = p /\ KernelKey \in Keys
         /\ faults' = 0 => cardKey' = KernelKey
         /\ MInv' /\ MachineGrows
  <1>1. /\ InInit(p) /\ KernelKey \in setups /\ cardKey' = cardKey
        /\ MInv' /\ MachineGrows
        /\ faults' = 0 => faults = 0 /\ cardKey = KernelKey
    BY PostKeeps DEF SetupReturns, CInv
  <1> DEFINE old == mvp_context[p]
  <1>2. KernelKey = old.pk /\ old \in Objects
    BY <1>1 DEF KernelKey, InInit, CInv, MInv, KernelRight
  <1>3. mvp_context' = [mvp_context EXCEPT ![p] = [old EXCEPT !.enabled = TRUE]]
    BY DEF SetupReturns
  <1>4. [old EXCEPT !.enabled = TRUE] = [pk |-> KernelKey, enabled |-> TRUE]
    <2>1. ASSUME NEW o \in Objects, NEW b
          PROVE  [o EXCEPT !.enabled = b] = [pk |-> o.pk, enabled |-> b]
      BY DEF Objects
    <2> QED BY <1>2, <2>1
  <1>5. mvp_context' = [mvp_context EXCEPT
                          ![p] = [pk |-> KernelKey, enabled |-> TRUE]]
    BY <1>3, <1>4
  <1>6. mvp_context'[p] = [pk |-> KernelKey, enabled |-> TRUE]
    BY <1>5, OneContext
  <1>7. KernelKey \in Keys
    BY <1>1 DEF CInv, MInv, MachineRight
  <1> QED BY <1>1, <1>5, <1>6, <1>7 DEF InInit

(* SetupEvalKey returns OK.                                                *)
LEMMA SetupReturnsKeeps ==
  ASSUME CInv, NEW p \in Parties, SetupReturns(p), UNCHANGED cliVars
  PROVE  CInv'
  <1> DEFINE ctx == [pk |-> KernelKey, enabled |-> TRUE]
  <1>1. /\ mvp_context' = [mvp_context EXCEPT ![p] = ctx]
        /\ KernelKey \in Keys /\ MInv' /\ MachineGrows
        /\ faults' = 0 => cardKey' # NoKey
    BY SetupReturnsTo, KeysAssumption
  <1>2. ctx \in Contexts /\ ctx.pk \in Keys
    BY <1>1 DEF Contexts
  <1> HIDE DEF ctx
  <1>3. ContextsRight'
    BY <1>1, <1>2, ContextChanges
  <1> QED BY <1>1, <1>3, NoCliStep

(* Every step of a python program keeps the invariant.                     *)
LEMMA SessionKeeps ==
  ASSUME CInv, NEW p \in Parties, SessionNext(p), UNCHANGED cliVars PROVE CInv'
  <1>1. CASE Activate(p)
    BY <1>1, ActivateKeeps
  <1>2. CASE Dies(p)
    BY <1>2, DiesKeeps
  <1>3. ASSUME NEW k \in EvalKeys, NEW f \in SetupFaults \cup {"none"},
               Setup(p, k, f)
        PROVE  CInv'
    BY <1>3, SetupKeeps
  <1>4. ASSUME UNCHANGED <<machine, mvp_context>> PROVE CInv'
    BY <1>4, QuietKeeps
  <1>5. ASSUME NEW k \in Keys, EncryptVector(p, k) PROVE CInv'
    BY <1>4, <1>5 DEF EncryptVector
  <1>6. CASE AddPlainVector(p)
    BY <1>4, <1>6 DEF AddPlainVector
  <1>7. ASSUME NEW n \in Rows, CallMatVec(p, n) PROVE CInv'
    BY <1>4, <1>7 DEF CallMatVec
  <1>8. ASSUME NEW n \in 1..N, MatVecFMA(p, n) PROVE CInv'
    BY <1>4, <1>8 DEF MatVecFMA
  <1>9. CASE MatVecBlock(p)
    BY <1>4, <1>9 DEF MatVecBlock
  <1>10. CASE MatVecRaises(p)
    BY <1>4, <1>10 DEF MatVecRaises
  <1>11. CASE MatVecReturns(p)
    BY <1>4, <1>11 DEF MatVecReturns
  <1>12. CASE UpdateVector(p)
    BY <1>4, <1>12 DEF UpdateVector
  <1>13. CASE SetupInit(p)
    BY <1>13, SetupInitKeeps
  <1>14. CASE SetupReturns(p)
    BY <1>14, SetupReturnsKeeps
  <1> QED BY <1>1, <1>2, <1>3, <1>5, <1>6, <1>7, <1>8, <1>9, <1>10, <1>11,
             <1>12, <1>13, <1>14 DEF SessionNext

-----------------------------------------------------------------------------
(* The steps of the command line runs *)

(* What a step of run c may do to the machine and the files.               *)
CliMoves ==
  /\ MachineGrows
  /\ pub' \in {pub, Torn} \cup Keys /\ priv' \in {priv, Torn} \cup Keys

(* Another run sees: it is not solo, and as far as it was.                 *)
LEMMA OtherRunOk ==
  ASSUME CInv, CliMoves, NEW d \in Clis, ~cli'[d].solo,
         cli'[d].pc = cli[d].pc, cli'[d].evk = cli[d].evk
  PROVE  RunOk(cli[d])'
  <1>1. RunOk(cli[d])
    BY DEF CInv
  <1> QED BY <1>1 DEF RunOk, CliMoves, MachineGrows, Loaded

(* One run changes.                                                        *)
LEMMA OneMoves ==
  ASSUME CInv, NEW c \in Clis, NEW r, cli' = [cli EXCEPT ![c] = r]
  PROVE  cli'[c] = r /\ \A d \in Clis : d # c => cli'[d] = cli[d]
  BY DEF CInv, IInv, CliShape

(* A run begins, the others do what they did.                              *)
LEMMA OneBegins ==
  ASSUME CInv, NEW c \in Clis, NEW r, cli' = Begun(c, r)
  PROVE  \A d \in Clis : d # c => /\ cli'[d].pc = cli[d].pc
                                  /\ cli'[d].evk = cli[d].evk /\ ~cli'[d].solo
  <1>1. ASSUME NEW d \in Clis, d # c
        PROVE  cli'[d] = [cli[d] EXCEPT !.solo = FALSE] /\ IsRun(cli[d])
    BY <1>1 DEF Begun, CInv, IInv, CliShape
  <1>2. ASSUME NEW x, IsRun(x), NEW y, y = [x EXCEPT !.solo = FALSE]
        PROVE  y.pc = x.pc /\ y.evk = x.evk /\ ~y.solo
    BY <1>2 DEF IsRun
  <1> QED BY <1>1, <1>2

(* A step of a run that is not in KernelInit and leaves the card alone.    *)
LEMMA CliQuiet ==
  ASSUME CInv, NEW c \in Clis, cli[c].pc # "init", UNCHANGED session,
         UNCHANGED <<card, setups>>, generated' \subseteq Keys,
         \A d \in Clis : d # c => /\ cli'[d].pc = cli[d].pc
                                  /\ cli'[d].evk = cli[d].evk
  PROVE  MInv' /\ MachineGrows
  <1>1. kernel.at \in KernelPcs => kernel.by # c
    BY DEF CInv, MInv, KernelRight, InInit
  <1>2. HolderStays
    BY <1>1 DEF HolderStays, session
  <1> QED BY <1>2, MachineStays DEF CInv

(* A step that changes only run c leaves the others as they are; they are  *)
(* not solo, c being under way.                                            *)
LEMMA OthersStay ==
  ASSUME CInv, CliMoves, NEW c \in Clis, cli[c].pc # "idle", NEW r,
         cli' = [cli EXCEPT ![c] = r], NEW d \in Clis, d # c
  PROVE  RunOk(cli[d])'
  <1>1. cli'[d] = cli[d]
    BY OneMoves
  <1>2. ~cli[d].solo
    BY DEF CInv, IInv, SoloAlone
  <1> QED BY <1>1, <1>2, OtherRunOk

(* What the steps of a run have in common: it is enough to look at it.     *)
LEMMA RunStep ==
  ASSUME CInv, NEW c \in Clis, CliNext(c), UNCHANGED session, CliMoves,
         MInv', RunOk(cli[c])', \A d \in Clis \ {c} : RunOk(cli[d])'
  PROVE  CInv'
  <1>1. IInv'
    BY CliKeeps DEF CInv
  <1>2. FilesRight'
    BY DEF CInv, FilesRight, Files, CliMoves
  <1>3. ContextsRight'
    BY ContextsStay DEF CliMoves, session
  <1> QED BY <1>1, <1>2, <1>3 DEF CInv

(* A run that is not under way.                                            *)
LEMMA NoRunOk == ASSUME NEW c \in Clis, cli'[c] = NoRun PROVE RunOk(cli[c])'
  BY DEF RunOk, NoRun, Loaded

(* Who ends.                                                               *)
LEMMA EndKeeps ==
  ASSUME CInv, NEW c \in Clis, CliNext(c), UNCHANGED session, Ended(c),
         cli[c].pc # "idle", CliMoves, MInv'
  PROVE  CInv'
  <1>1. cli'[c] = NoRun
    BY OneMoves DEF Ended
  <1>2. RunOk(cli[c])'
    BY <1>1, NoRunOk
  <1>3. \A d \in Clis \ {c} : RunOk(cli[d])'
    BY OthersStay DEF Ended
  <1> QED BY <1>2, <1>3, RunStep

(* A step of run c goes on to r.                                           *)
LEMMA GoOn ==
  ASSUME CInv, NEW c \in Clis, CliNext(c), UNCHANGED session,
         cli[c].pc # "idle", NEW r, cli' = [cli EXCEPT ![c] = r],
         CliMoves, MInv', RunOk(cli[c])'
  PROVE  CInv'
  <1>1. \A d \in Clis \ {c} : RunOk(cli[d])'
    BY OthersStay
  <1> QED BY <1>1, RunStep

(* A step that changes only run c, which is not in KernelInit, and neither *)
(* the machine nor the files.                                              *)
LEMMA QuietMoves ==
  ASSUME CInv, NEW c \in Clis, cli[c].pc # "init", UNCHANGED session,
         UNCHANGED <<machine, priv, pub>>,
         NEW r, cli' = [cli EXCEPT ![c] = r]
  PROVE  CliMoves /\ MInv'
  <1>1. UNCHANGED <<card, setups>> /\ generated' \subseteq Keys
    BY DEF machine, CInv, MInv, MachineRight
  <1>2. MInv' /\ MachineGrows
    BY <1>1, OneMoves, CliQuiet
  <1> QED BY <1>2 DEF CliMoves

(* The product of the card is right if the vector was encrypted with the   *)
(* key whose Galois keys it has, and it reads no others.                   *)
LEMMA ProductRight ==
  ASSUME NEW s, GoodShape(s, N), NEW k, k = cardKey, fetch = NoFetch,
         NEW r, r.sk = k,
         r.out = <<MatVec(Encrypt(k, s, <<"v", 1>>), {}, 1), s>>
  PROVE  Product(r)
  <1> DEFINE n   == num_subvec(s)
             cts == Encrypt(k, s, <<"v", 1>>)
             body == {<<<<"v", 1>>, i>> : i \in 1..n}
  <1>1. n \in Nat /\ n >= 1
    BY DegreeRight, SubmatrixFillsPolynomial DEF num_subvec
  <1>2. cts = [i \in 1..n |-> [key |-> k, level |-> "key",
                               body |-> {<<<<"v", 1>>, i>>}]]
    BY DEF Encrypt
  <1> HIDE DEF n, cts
  <1>3. DOMAIN cts = 1..n /\ \A i \in 1..n : cts[i].key = cardKey
                                          /\ cts[i].body = {<<<<"v", 1>>, i>>}
    BY <1>2
  <1>4. {} \cup UNION {cts[i].body : i \in DOMAIN cts} = body
    BY <1>3
  <1>5. Junk \notin body
    BY DEF Junk
  <1>6. cts[1].key = k
    BY <1>1, <1>3
  <1>7. MatVec(cts, {}, 1) = [key |-> k, level |-> "data",
                              body |-> {<<1, t>> : t \in body}]
    BY <1>3, <1>4, <1>5, <1>6 DEF MatVec
  <1>8. Junk \notin {<<1, t>> : t \in body}
    BY DEF Junk
  <1>9. r.out[1] = MatVec(cts, {}, 1) /\ r.out[2] = s
    BY DEF cts
  <1>10. DecryptMatVec(r.sk, r.out[1]) = {<<1, t>> : t \in body}
    BY <1>7, <1>8, <1>9 DEF DecryptMatVec
  <1>11. {<<1, t>> : t \in body} = {<<1, <<<<"v", 1>>, i>>>> : i \in 1..n}
    OBVIOUS
  <1> QED BY <1>9, <1>10, <1>11 DEF Product, n

(* "gen" begins; what the other runs have read stays read.                 *)
LEMMA GenOk ==
  ASSUME CInv, NEW c \in Clis, Gen(c), UNCHANGED session PROVE CInv'
  <1>1. PICK k \in Fresh :
          /\ generated' = generated \cup {k}
          /\ cli' = Begun(c, [NoRun EXCEPT !.pc = "save_priv", !.sk = k])
    BY DEF Gen
  <1>2. /\ UNCHANGED <<card, setups>> /\ generated' \subseteq Keys
        /\ cli[c].pc # "init" /\ pub' = pub /\ priv' = Torn
    BY <1>1 DEF Gen, At, Fresh, CInv, MInv, MachineRight
  <1>3. \A d \in Clis : d # c => /\ cli'[d].pc = cli[d].pc
                                 /\ cli'[d].evk = cli[d].evk /\ ~cli'[d].solo
    BY <1>1, OneBegins
  <1>4. MInv' /\ CliMoves
    BY <1>2, <1>3, CliQuiet DEF CliMoves
  <1>5. cli'[c].pc = "save_priv"
    BY <1>1 DEF Begun, NoRun
  <1>6. RunOk(cli[c])'
    BY <1>5 DEF RunOk, Loaded, Gen
  <1>7. \A d \in Clis \ {c} : RunOk(cli[d])'
    BY <1>3, <1>4, OtherRunOk
  <1> QED BY <1>4, <1>6, <1>7, RunStep DEF CliNext

(* What a writer writes.                                                   *)
LEMMA WritesKey ==
  ASSUME CInv, NEW c \in Clis, cli[c].pc \in GenPcs
  PROVE  Written(c) \subseteq Keys \cup {Torn}
  BY DEF CInv, IInv, WritersRight, Written

(* The three writing steps of "gen".                                       *)
LEMMA WritersOk ==
  ASSUME CInv, NEW c \in Clis, UNCHANGED session,
         SavePriv(c) \/ OpenPub(c) \/ SavePub(c)
  PROVE  CInv'
  <1> DEFINE r == cli[c]
             m == [r EXCEPT !.pc = "open_pub", !.solo = FALSE]
  <1>1. /\ CliNext(c) /\ r.pc \in GenPcs /\ r.pc # "idle" /\ r.pc # "init"
        /\ UNCHANGED machine /\ IsRun(r)
    BY DEF CliNext, SavePriv, OpenPub, SavePub, At, GenPcs, CInv, IInv, CliShape
  <1>2. pub' \in {pub, Torn} \cup Keys /\ priv' \in {priv, Torn} \cup Keys
    BY <1>1, WritesKey DEF SavePriv, OpenPub, SavePub
  <1>3. UNCHANGED <<card, setups>> /\ generated' \subseteq Keys
    BY <1>1 DEF machine, CInv, MInv, MachineRight
  <1>4. ASSUME NEW x, cli' = [cli EXCEPT ![c] = x] PROVE CliMoves /\ MInv'
    <2>1. MInv' /\ MachineGrows
      BY <1>1, <1>3, <1>4, OneMoves, CliQuiet
    <2> QED BY <1>2, <2>1 DEF CliMoves
  <1>5. ASSUME NEW x, cli' = [cli EXCEPT ![c] = x], x.pc \in GenPcs PROVE CInv'
    <2>1. cli'[c] = x
      BY <1>5, OneMoves
    <2>2. RunOk(cli[c])'
      BY <1>5, <2>1 DEF RunOk, Loaded, GenPcs
    <2> QED BY <1>1, <1>4, <1>5, <2>2, GoOn
  <1>6. ASSUME NEW pc \in GenPcs, Goes(c, pc) PROVE CInv'
    <2> DEFINE n == [r EXCEPT !.pc = pc]
    <2>1. cli' = [cli EXCEPT ![c] = n]
      BY <1>6 DEF Goes
    <2>2. n.pc = pc
      BY <1>1, RunGoes
    <2> HIDE DEF n
    <2> QED BY <1>5, <1>6, <2>1, <2>2
  <1>7. CASE SavePub(c)
    BY <1>1, <1>4, <1>7, EndKeeps DEF SavePub, Ended
  <1>8. CASE cli' = [cli EXCEPT ![c] = m]
    <2>1. m.pc \in GenPcs
      BY <1>1 DEF IsRun, GenPcs
    <2> HIDE DEF m
    <2> QED BY <1>5, <1>8, <2>1
  <1>9. CASE SavePriv(c)
    BY <1>6, <1>8, <1>9 DEF SavePriv, GenPcs
  <1>10. CASE OpenPub(c)
    BY <1>6, <1>10 DEF OpenPub, GenPcs
  <1> QED BY <1>7, <1>9, <1>10

(* Both files exist when they are opened, and are not removed.             *)
LEMMA OpenKeysOk ==
  ASSUME CInv, NEW c \in Clis, OpenKeys(c), UNCHANGED session PROVE CInv'
  <1>1. cli' = Begun(c, [NoRun EXCEPT !.pc = "load_pub"])
        /\ UNCHANGED <<machine, priv, pub, trusted>>
    BY DEF OpenKeys
  <1>2. UNCHANGED <<card, setups>> /\ generated' \subseteq Keys
        /\ cli[c].pc # "init"
    BY <1>1 DEF OpenKeys, At, machine, CInv, MInv, MachineRight
  <1>3. \A d \in Clis : d # c => /\ cli'[d].pc = cli[d].pc
                                 /\ cli'[d].evk = cli[d].evk /\ ~cli'[d].solo
    BY <1>1, OneBegins
  <1>4. MInv' /\ CliMoves
    BY <1>1, <1>2, <1>3, CliQuiet DEF CliMoves
  <1>5. cli'[c].pc = "load_pub"
    BY <1>1 DEF Begun, NoRun
  <1>6. {pub, priv}' \subseteq Keys \cup {Torn}
    BY <1>1 DEF OpenKeys, CInv, FilesRight, Files
  <1>7. RunOk(cli[c])'
    BY <1>5, <1>6 DEF RunOk, Loaded
  <1>8. \A d \in Clis \ {c} : RunOk(cli[d])'
    BY <1>3, <1>4, OtherRunOk
  <1> QED BY <1>4, <1>7, <1>8, RunStep DEF CliNext

(* The public file is read first, with no check.                           *)
LEMMA LoadPubOk ==
  ASSUME CInv, NEW c \in Clis, LoadPub(c), UNCHANGED session PROVE CInv'
  <1> DEFINE r == cli[c]
             n == [r EXCEPT !.pc = "load_priv", !.evk = pub]
  <1>1. CliNext(c) /\ r.pc = "load_pub" /\ UNCHANGED <<machine, priv, pub, trusted>>
    BY DEF CliNext, LoadPub, At
  <1>2. CASE Ended(c)
    BY <1>1, <1>2, QuietMoves, EndKeeps DEF Ended
  <1>3. CASE cli' = [cli EXCEPT ![c] = n]
    <2>1. n.pc = "load_priv" /\ n.evk = pub
      BY DEF CInv, IInv, CliShape, IsRun
    <2> HIDE DEF n
    <2>2. cli'[c] = n
      BY <1>3, OneMoves
    <2>3. RunOk(r)
      BY DEF CInv
    <2>4. {pub, priv} \subseteq Keys \cup {Torn}
      BY <1>1, <2>3 DEF RunOk
    <2>5. RunOk(cli[c])'
      BY <1>1, <2>1, <2>2, <2>4 DEF RunOk, Loaded
    <2>6. CliMoves /\ MInv'
      BY <1>1, <1>3, QuietMoves
    <2> QED BY <1>1, <1>3, <2>5, <2>6, GoOn
  <1> QED BY <1>2, <1>3 DEF LoadPub

(* The private file is read second.                                        *)
LEMMA LoadPrivOk ==
  ASSUME CInv, NEW c \in Clis, LoadPriv(c), UNCHANGED session PROVE CInv'
  <1> DEFINE r == cli[c]
             n == [r EXCEPT !.pc = "setup", !.sk = priv]
  <1>1. CliNext(c) /\ r.pc = "load_priv"
        /\ UNCHANGED <<machine, priv, pub, trusted>>
    BY DEF CliNext, LoadPriv, At
  <1>2. CASE Ended(c)
    BY <1>1, <1>2, QuietMoves, EndKeeps DEF Ended
  <1>3. CASE cli' = [cli EXCEPT ![c] = n]
    <2>1. n.pc = "setup" /\ n.evk = r.evk /\ n.sk = priv /\ n.solo = r.solo
      BY DEF CInv, IInv, CliShape, IsRun
    <2> HIDE DEF n
    <2>2. cli'[c] = n
      BY <1>3, OneMoves
    <2>3. RunOk(r)
      BY DEF CInv
    <2>4. r.evk \in Keys \cup {Torn} /\ (r.solo /\ trusted => r.evk = pub)
      BY <1>1, <2>3 DEF RunOk, Loaded
    <2>5. RunOk(cli[c])'
      BY <1>1, <2>1, <2>2, <2>4 DEF RunOk, Loaded
    <2>6. CliMoves /\ MInv'
      BY <1>1, <1>3, QuietMoves
    <2> QED BY <1>1, <1>3, <2>5, <2>6, GoOn
  <1> QED BY <1>2, <1>3 DEF LoadPriv

(* The setup of a run takes its key as far as into KernelInit, or ends it. *)
LEMMA CliSetupOk ==
  ASSUME CInv, NEW c \in Clis, NEW f \in SetupFaults \cup {"none"},
         CliSetup(c, f), UNCHANGED session
  PROVE  CInv'
  <1> DEFINE r == cli[c]
             k == r.evk
             n == [r EXCEPT !.pc = "init"]
  <1>1. /\ CliNext(c) /\ r.pc = "setup"
        /\ kernel' = SetupEvalKey(c, Create, k, f).kernel
        /\ setups' = IF f = "decode" THEN setups ELSE setups \cup {k}
        /\ SetupGoes(k, f)
        /\ UNCHANGED <<cardKey, dram, fetch, faults, generated, priv, pub, trusted>>
        /\ IF f = "none" THEN cli' = [cli EXCEPT ![c] = n] ELSE Ended(c)
    BY DEF CliNext, CliSetup, At, Goes
  <1>2. RunOk(r) /\ IsRun(r)
    BY DEF CInv, IInv, CliShape
  <1>3. n.pc = "init" /\ n.evk = k /\ n.sk = r.sk /\ n.solo = r.solo
    BY <1>2, RunGoes
  <1>4. f # "decode" => k \in Keys
    BY <1>1 DEF SetupGoes, decodes
  <1> HIDE DEF n
  <1>5. /\ f = "none" => cli'[c] = n
        /\ \A d \in Clis : d # c => cli'[d] = cli[d]
    BY <1>1, OneMoves DEF Ended
  <1>6. HolderStays
    <2>1. kernel.at \in KernelPcs => kernel.by # c
      BY <1>1 DEF CInv, MInv, KernelRight, InInit
    <2> QED BY <1>5, <2>1 DEF HolderStays, session
  <1>7. ASSUME f = "none"
        PROVE  /\ KernelKey' = k
               /\ \A p \in Parties : c = p => mvp_context'[p] \in Objects
               /\ \A d \in Clis : c = d => cli'[d].pc = "init"
    <2>1. kernel'.by = c
      BY <1>1, <1>7, KernelAts DEF SetupEvalKey
    <2> QED BY <1>3, <1>5, <1>7, <2>1, TeamsAssumption DEF KernelKey
  <1>8. MInv' /\ MachineGrows
    <2> HIDE DEF k
    <2> QED BY <1>1, <1>4, <1>6, <1>7, SetupMachine DEF CInv
  <1>9. CliMoves
    BY <1>1, <1>8 DEF CliMoves
  <1>10. CASE f # "none"
    BY <1>1, <1>8, <1>9, <1>10, EndKeeps
  <1>11. CASE f = "none"
    <2>1. k \in Keys /\ k \in setups'
      BY <1>1, <1>4, <1>11
    <2>2. r.solo /\ trusted => k = pub /\ r.sk = priv
      BY <1>1, <1>2 DEF RunOk, Loaded
    <2>3. RunOk(cli[c])'
      BY <1>1, <1>3, <1>5, <1>11, <2>1, <2>2 DEF RunOk, Loaded
    <2> QED BY <1>1, <1>8, <1>9, <1>11, <2>3, GoOn
  <1> QED BY <1>10, <1>11

(* KernelInit of a run goes on.                                            *)
LEMMA CliInitOk ==
  ASSUME CInv, NEW c \in Clis, CliInit(c), UNCHANGED session PROVE CInv'
  <1>1. /\ KernelUpload(c, cli[c].evk) \/ KernelStart(c)
        /\ UNCHANGED <<mvp_context, cli, pub, priv, trusted>>
        /\ CliNext(c) /\ cli[c].pc = "init" /\ cli' = [cli EXCEPT ![c] = cli[c]]
    BY DEF CliInit, CliNext, At, session, cliVars, CInv, IInv, CliShape
  <1>2. MInv' /\ MachineGrows
    <2>1. CASE KernelUpload(c, cli[c].evk)
      <3>1. KernelKey = cli[c].evk
        BY <2>1, KernelAts, TeamsAssumption DEF KernelUpload, KernelKey
      <3> QED BY <1>1, <2>1, <3>1, UploadKeeps DEF CInv
    <2>2. CASE KernelStart(c)
      BY <1>1, <2>2, StartKeeps DEF CInv
    <2> QED BY <1>1, <2>1, <2>2
  <1>3. CliMoves
    BY <1>1, <1>2 DEF CliMoves
  <1>4. RunOk(cli[c])
    BY DEF CInv
  <1>5. RunOk(cli[c])'
    BY <1>1, <1>2, <1>4 DEF RunOk, Loaded, MachineGrows
  <1> QED BY <1>1, <1>2, <1>3, <1>5, GoOn

(* What the return of SetupEvalKey means for a run: it multiplies next,    *)
(* and its key is the one that was uploaded.                               *)
LEMMA CliReturnsTo ==
  ASSUME CInv, NEW c \in Clis, CliReturns(c)
  PROVE  /\ kernel.by = c /\ KernelKey = cli[c].evk
         /\ faults' = 0 => cardKey' = KernelKey
         /\ cli'[c].pc = "multiply" /\ cli'[c].evk = cli[c].evk
         /\ cli'[c].sk = cli[c].sk /\ cli'[c].solo = cli[c].solo
         /\ KernelKey \in Keys /\ MInv' /\ MachineGrows
  <1> DEFINE r == cli[c]
             n == [r EXCEPT !.pc = "multiply"]
  <1>1. /\ InInit(c) /\ KernelKey \in setups /\ cardKey' = cardKey
        /\ MInv' /\ MachineGrows
        /\ faults' = 0 => faults = 0 /\ cardKey = KernelKey
    BY PostKeeps DEF CliReturns, CInv
  <1>2. KernelKey = r.evk /\ KernelKey \in Keys
    BY <1>1, TeamsAssumption
    DEF KernelKey, InInit, CInv, MInv, MachineRight
  <1>3. IsRun(r) /\ cli' = [cli EXCEPT ![c] = n]
    BY DEF CInv, IInv, CliShape, CliReturns, Goes
  <1>4. n.pc = "multiply" /\ n.evk = r.evk /\ n.sk = r.sk /\ n.solo = r.solo
    BY <1>3, RunGoes
  <1> HIDE DEF n
  <1>5. cli'[c] = n
    BY <1>3, OneMoves
  <1> QED BY <1>1, <1>2, <1>4, <1>5 DEF InInit

(* SetupEvalKey returns OK.                                                *)
LEMMA CliReturnsOk ==
  ASSUME CInv, NEW c \in Clis, CliReturns(c), UNCHANGED session PROVE CInv'
  <1> DEFINE r == cli[c]
             n == [r EXCEPT !.pc = "multiply"]
  <1>1. /\ CliNext(c) /\ r.pc = "init" /\ cli' = [cli EXCEPT ![c] = n]
        /\ UNCHANGED <<pub, priv, trusted>>
    BY DEF CliReturns, CliNext, At, Goes
  <1>2. /\ cli'[c].pc = "multiply" /\ cli'[c].evk = r.evk
        /\ cli'[c].sk = r.sk /\ cli'[c].solo = r.solo
        /\ MInv' /\ MachineGrows
        /\ faults' = 0 => cardKey' # NoKey
    BY CliReturnsTo, KeysAssumption
  <1>3. RunOk(r)
    BY DEF CInv
  <1>4. /\ r.evk \in Keys /\ r.evk \in setups'
        /\ r.solo /\ trusted => r.evk = pub /\ r.sk = priv
    BY <1>1, <1>2, <1>3 DEF RunOk, Loaded, MachineGrows
  <1>5. RunOk(cli[c])'
    BY <1>1, <1>2, <1>4 DEF RunOk, Loaded
  <1>6. CliMoves
    BY <1>1, <1>2 DEF CliMoves
  <1> HIDE DEF n
  <1> QED BY <1>1, <1>2, <1>5, <1>6, GoOn

(* The multiplication: with trusted files both keys are the one that was   *)
(* set up, and the product is right if nothing failed.                     *)
LEMMA CliMultiplyOk ==
  ASSUME CInv, NEW c \in Clis, NEW k \in Keys, NEW s \in CliShapes,
         CliMultiply(c, k, s), UNCHANGED session
  PROVE  CInv'
  <1> DEFINE r   == cli[c]
             ctx == [pk |-> r.evk, enabled |-> TRUE]
             cts == Encrypt(k, s, <<"v", 1>>)
             ok  == EncryptOk(k, s) /\ MatVecOk(ctx, cts, s)
             out == <<MatVec(cts, {}, 1), s>>
             n   == [r EXCEPT !.pc = "save", !.out = out]
  <1>1. /\ CliNext(c) /\ r.pc = "multiply" /\ k \in {r.sk, r.evk}
        /\ kernel = Free
        /\ UNCHANGED <<machine, priv, pub, trusted>>
        /\ IF ok THEN cli' = [cli EXCEPT ![c] = n] ELSE Ended(c)
    BY DEF CliNext, CliMultiply, At
  <1>2. CASE ~ok
    <2> HIDE DEF ok, n
    <2> QED BY <1>1, <1>2, QuietMoves, EndKeeps DEF Ended
  <1>3. CASE ok
    <2>1. cli' = [cli EXCEPT ![c] = n]
      BY <1>1, <1>3
    <2>2. GoodShape(s, N)
      BY <1>3, CliShapesAssumption, DegreeRight
      DEF GoodShape, EncryptOk, public_config_ok, kMaxNumRows, kMaxNumCols
    <2> HIDE DEF out, ok
    <2>3. n.pc = "save" /\ n.evk = r.evk /\ n.sk = r.sk /\ n.solo = r.solo
          /\ n.out = out
      BY DEF CInv, IInv, CliShape, IsRun
    <2> HIDE DEF n
    <2>4. cli'[c] = n
      BY <2>1, OneMoves
    <2>5. RunOk(r)
      BY DEF CInv
    <2>6. r.evk \in Keys /\ r.evk \in setups /\ (faults = 0 => cardKey # NoKey)
      BY <1>1, <2>5 DEF RunOk, Loaded
    <2>7. r.solo /\ trusted => r.evk = pub /\ r.sk = priv
      BY <1>1, <2>5 DEF RunOk, Loaded
    <2>8. ASSUME r.solo, trusted, setups = {r.evk}, faults = 0
          PROVE  Product(cli[c])'
      <3>1. r.sk = r.evk /\ k = r.evk
        BY <1>1, <2>7, <2>8 DEF CInv, IInv, KeyFilesMatch
      <3>2. k = cardKey /\ fetch = NoFetch
        BY <1>1, <2>6, <2>8, <3>1, KernelAts DEF CInv, MInv, CardRight
      <3>3. n.sk = k
        BY <2>3, <3>1
      <3>4. Product(n)
        BY <2>2, <2>3, <3>2, <3>3, ProductRight DEF out
      <3> QED BY <2>4, <3>4 DEF Product
    <2>9. RunOk(cli[c])'
      BY <1>1, <2>3, <2>4, <2>6, <2>7, <2>8 DEF RunOk, Loaded, machine, card
    <2>10. CliMoves /\ MInv'
      BY <1>1, <2>1, QuietMoves
    <2> QED BY <1>1, <2>1, <2>9, <2>10, GoOn
  <1> QED BY <1>2, <1>3

(* A run ends by itself.                                                   *)
LEMMA CliSaveOk ==
  ASSUME CInv, NEW c \in Clis, CliSave(c), UNCHANGED session PROVE CInv'
  <1>1. CliNext(c) /\ cli[c].pc = "save" /\ Ended(c)
        /\ UNCHANGED <<machine, priv, pub, trusted>>
    BY DEF CliNext, CliSave, At
  <1> QED BY <1>1, QuietMoves, EndKeeps DEF Ended

(* A run is stopped.                                                       *)
LEMMA CliStopsOk ==
  ASSUME CInv, NEW c \in Clis, CliStops(c), UNCHANGED session PROVE CInv'
  <1>1. /\ CliNext(c) /\ cli[c].pc # "idle" /\ Ended(c)
        /\ KernelDies(c, At(c, "multiply"))
        /\ UNCHANGED <<cardKey, dram, fetch, faults, generated, setups, priv, pub>>
    BY DEF CliNext, CliStops, At
  <1>2. kernel.by # c => HolderStays
    BY <1>1, OneMoves DEF Ended, HolderStays, session
  <1>3. MInv' /\ MachineGrows
    BY <1>1, <1>2, DiesMachine DEF CInv
  <1>4. CliMoves
    BY <1>1, <1>3 DEF CliMoves
  <1> QED BY <1>1, <1>3, <1>4, EndKeeps

(* Every step of a command line run keeps the invariant.                   *)
LEMMA CliStepKeeps ==
  ASSUME CInv, NEW c \in Clis, CliNext(c), UNCHANGED session PROVE CInv'
  <1>1. CASE \E f \in SetupFaults \cup {"none"} : CliSetup(c, f)
    BY <1>1, CliSetupOk
  <1>2. CASE \E k \in Keys, s \in CliShapes : CliMultiply(c, k, s)
    BY <1>2, CliMultiplyOk
  <1> QED BY <1>1, <1>2, GenOk, WritersOk, OpenKeysOk, LoadPubOk, LoadPrivOk,
             CliInitOk, CliReturnsOk, CliSaveOk, CliStopsOk DEF CliNext

-----------------------------------------------------------------------------
(* The theorems *)

(* At first nothing runs and the card is empty.                            *)
LEMMA CInvInit == Init => CInv
  <1> SUFFICES ASSUME Init PROVE CInv
    OBVIOUS
  <1>1. IInv
    BY InitIInv
  <1>2. \A c \in Clis : cli[c] = NoRun
    BY DEF Init, FilesInit
  <1>3. \A c \in Clis : RunOk(cli[c])
    BY <1>2 DEF RunOk, NoRun, Loaded
  <1>4. FilesRight
    BY DEF Init, FilesInit, FilesRight, Files
  <1>5. /\ cardKey = NoKey /\ dram = NoKey /\ fetch = NoFetch
        /\ kernel = Free /\ faults = 0 /\ generated = {} /\ setups = {}
    BY DEF Init, MachineInit
  <1>6. MachineRight /\ KernelRight /\ CardRight
    BY <1>5, KernelAts, FaultsAssumption
    DEF MachineRight, KernelRight, CardRight, InInit
  <1>7. mvp_context = [p \in Parties |-> NoContext]
    BY DEF Init, SessionInit
  <1>8. ContextsRight
    BY <1>7 DEF ContextsRight, Contexts, NoContext
  <1> QED BY <1>1, <1>3, <1>4, <1>6, <1>8 DEF CInv, MInv

(* CInv is inductive.                                                      *)
LEMMA CInvStep == CInv /\ [Next]_vars => CInv'
  <1> SUFFICES ASSUME CInv, [Next]_vars PROVE CInv'
    OBVIOUS
  <1>1. CASE UNCHANGED vars
    BY <1>1, QuietKeeps DEF vars, session, cliVars
  <1>2. ASSUME NEW p \in Parties, SessionNext(p), UNCHANGED cliVars PROVE CInv'
    BY <1>2, SessionKeeps
  <1>3. ASSUME NEW c \in Clis, CliNext(c), UNCHANGED session PROVE CInv'
    BY <1>3, CliStepKeeps
  <1>4. ASSUME CardLoads, UNCHANGED <<session, cliVars>> PROVE CInv'
    BY <1>4, CardLoadsKeeps
  <1> QED BY <1>1, <1>2, <1>3, <1>4 DEF Next

(* As long as the card's input and output worked, MatVec is never let      *)
(* through, in a python program or in a run of the command line program,   *)
(* while the card has no whole keys or still reads others: for any         *)
(* programs and keys, setups that fail at any of their checks, and         *)
(* programs that are killed at any step.                                   *)
THEOREM EnabledAlwaysHasKeys == Spec => []EnabledHasKeys
  <1>1. CInv => EnabledHasKeys
    <2> SUFFICES ASSUME CInv, faults = 0, kernel = Free
                 PROVE  /\ \A p \in Parties : mvp_context[p].enabled =>
                             /\ mvp_context[p].pk \in Keys
                             /\ cardKey \in Keys /\ fetch = NoFetch
                        /\ \A c \in Clis : At(c, "multiply") =>
                             cardKey \in Keys /\ fetch = NoFetch
      BY DEF EnabledHasKeys
    <2>1. fetch = NoFetch /\ cardKey \in Keys \cup {NoKey}
      BY KernelAts DEF CInv, MInv, MachineRight, CardRight
    <2>2. \A p \in Parties : mvp_context[p].enabled =>
            mvp_context[p].pk \in Keys /\ cardKey # NoKey
      BY DEF CInv, ContextsRight
    <2>3. \A c \in Clis : At(c, "multiply") => cardKey # NoKey
      BY DEF CInv, RunOk, At
    <2> QED BY <2>1, <2>2, <2>3
  <1> QED BY <1>1, CInvInit, CInvStep, PTL DEF Spec

(* As long as the card's input and output worked, a "matvec" run that      *)
(* nobody disturbs, on files a whole "gen" wrote and with no other key     *)
(* ever set up, decrypts exactly the product: for every shape the program  *)
(* accepts and every ring degree up to 4096.                               *)
THEOREM CliAlwaysRight == Spec => []CliRight
  <1>1. CInv => CliRight
    BY DEF CInv, RunOk, CliRight, At, Product, CliResult, CliWanted
  <1> QED BY <1>1, CInvInit, CInvStep, PTL DEF Spec

(* What CardFollowsSetup says of a step.                                   *)
Follows ==
  faults' = 0 /\ kernel' = Free =>
    IF kernel = Free THEN cardKey' = cardKey
    ELSE \/ \E p \in Parties :
              /\ kernel.by = p
              /\ mvp_context'[p] = [pk |-> cardKey', enabled |-> TRUE]
         \/ \E c \in Clis :
              /\ kernel.by = c
              /\ cli'[c].pc = "multiply" /\ cli'[c].evk = cardKey'

(* A step that does not post the semaphore and leaves the card's keys      *)
(* alone.                                                                  *)
LEMMA FollowsQuiet ==
  ASSUME kernel = Free \/ kernel' # Free, cardKey' = cardKey PROVE Follows
  BY DEF Follows

(* Only the end of KernelInit posts the semaphore.                         *)
LEMMA SetupTakes ==
  ASSUME NEW q, NEW ctx, NEW k, NEW f \in SetupFaults \cup {"none"},
         SetupGoes(k, f), kernel' = SetupEvalKey(q, ctx, k, f).kernel
  PROVE  kernel = Free \/ kernel' # Free
  <1>1. CASE f \in {"none", "device"}
    BY <1>1 DEF SetupGoes
  <1>2. CASE f \in {"decode", "galois"}
    BY <1>2 DEF SetupEvalKey
  <1> QED BY <1>1, <1>2 DEF SetupFaults

(* ... and a program that is gone does not.                                *)
LEMMA DeadKeep ==
  ASSUME NEW q, NEW m, KernelDies(q, m) PROVE kernel = Free \/ kernel' # Free
  <1>1. Free # Lost
    BY DEF Free, Lost
  <1> QED BY <1>1 DEF KernelDies

(* The two steps before the end.                                           *)
LEMMA InitKeepsSemaphore ==
  ASSUME NEW q, NEW k, KernelUpload(q, k) \/ KernelStart(q)
  PROVE  kernel' # Free /\ cardKey' = cardKey
  BY DEF KernelUpload, KernelStart, InKernel, Free

(* As long as the card's input and output worked, the keys that the card   *)
(* has when the semaphore is free change only with a SetupEvalKey that     *)
(* returns OK, and are then the uploaded ones: for any programs, keys and  *)
(* failing setups, and programs that are killed at any step.               *)
THEOREM CardAlwaysFollowsSetup == Spec => CardFollowsSetup
  <1>1. ASSUME CInv, NEW p \in Parties, SessionNext(p) PROVE Follows
    <2>1. ASSUME NEW k, NEW f \in SetupFaults \cup {"none"}, Setup(p, k, f)
          PROVE  Follows
      BY <2>1, SetupTakes, FollowsQuiet DEF Setup
    <2>2. CASE SetupInit(p)
      BY <2>2, InitKeepsSemaphore, FollowsQuiet DEF SetupInit
    <2>3. CASE SetupReturns(p)
      <3>1. mvp_context'[p] = [pk |-> KernelKey, enabled |-> TRUE]
            /\ kernel.by = p /\ (faults' = 0 => cardKey' = KernelKey)
        BY <1>1, <2>3, SetupReturnsTo
      <3>2. kernel # Free
        BY <2>3, KernelAts DEF SetupReturns, KernelPost, KernelPcs
      <3> QED BY <3>1, <3>2 DEF Follows
    <2>4. CASE Dies(p)
      BY <2>4, DeadKeep, FollowsQuiet DEF Dies
    <2>5. ASSUME UNCHANGED card PROVE Follows
      BY <2>5, FollowsQuiet DEF card
    <2>6. Activate(p) => UNCHANGED card
      BY DEF Activate
    <2>7. ASSUME NEW k, EncryptVector(p, k) PROVE UNCHANGED card
      BY <2>7 DEF EncryptVector, machine
    <2>8. AddPlainVector(p) \/ UpdateVector(p) => UNCHANGED card
      BY DEF AddPlainVector, UpdateVector, machine
    <2>9. ASSUME NEW n, CallMatVec(p, n) PROVE UNCHANGED card
      BY <2>9 DEF CallMatVec, machine
    <2>10. ASSUME NEW n, MatVecFMA(p, n) PROVE UNCHANGED card
      BY <2>10 DEF MatVecFMA, machine
    <2>11. MatVecBlock(p) \/ MatVecRaises(p) \/ MatVecReturns(p)
             => UNCHANGED card
      BY DEF MatVecBlock, MatVecRaises, MatVecReturns, machine
    <2> QED BY <1>1, <2>1, <2>2, <2>3, <2>4, <2>5, <2>6, <2>7, <2>8, <2>9,
               <2>10, <2>11 DEF SessionNext
  <1>2. ASSUME CInv, NEW c \in Clis, CliNext(c) PROVE Follows
    <2>1. ASSUME NEW f \in SetupFaults \cup {"none"}, CliSetup(c, f)
          PROVE  Follows
      BY <2>1, SetupTakes, FollowsQuiet DEF CliSetup
    <2>2. CASE CliInit(c)
      BY <2>2, InitKeepsSemaphore, FollowsQuiet DEF CliInit
    <2>3. CASE CliReturns(c)
      BY <1>2, <2>3, CliReturnsTo, KernelAts
      DEF Follows, CliReturns, KernelPost, KernelPcs
    <2>4. CASE CliStops(c)
      BY <2>4, DeadKeep, FollowsQuiet DEF CliStops
    <2>5. ASSUME UNCHANGED card PROVE Follows
      BY <2>5, FollowsQuiet DEF card
    <2>6. Gen(c) => UNCHANGED card
      BY DEF Gen
    <2>7. SavePriv(c) \/ OpenPub(c) \/ SavePub(c) => UNCHANGED card
      BY DEF SavePriv, OpenPub, SavePub, machine
    <2>8. OpenKeys(c) \/ LoadPub(c) \/ LoadPriv(c) => UNCHANGED card
      BY DEF OpenKeys, LoadPub, LoadPriv, machine
    <2>9. ASSUME NEW k, NEW s, CliMultiply(c, k, s) PROVE UNCHANGED card
      BY <2>9 DEF CliMultiply, machine
    <2>10. CliSave(c) => UNCHANGED card
      BY DEF CliSave, machine
    <2> QED BY <1>2, <2>1, <2>2, <2>3, <2>4, <2>5, <2>6, <2>7, <2>8, <2>9,
               <2>10 DEF CliNext
  <1>3. ASSUME CInv, CardLoads PROVE Follows
    <2>1. CASE kernel' = Free /\ faults' = 0
      <3>1. kernel = Free /\ faults = 0 /\ fetch # NoFetch
        BY <1>3, <2>1 DEF CardLoads
      <3> QED BY <1>3, <3>1, KernelAts DEF CInv, MInv, CardRight
    <2> QED BY <2>1 DEF Follows
  <1>4. CInv /\ [Next]_vars => [Follows]_vars
    BY <1>1, <1>2, <1>3 DEF Next
  <1> QED BY <1>4, CInvInit, CInvStep, PTL DEF Spec, CardFollowsSetup, Follows

-----------------------------------------------------------------------------
(* Sequences and recursive functions *)

(* A function on 1..n is a sequence of length n.                           *)
LEMMA FunctionIsSeq ==
  ASSUME NEW S, NEW n \in Nat, NEW f \in [1..n -> S]
  PROVE  f \in Seq(S) /\ Len(f) = n
  <1>1. f \in Seq(S)
    BY SeqDef
  <1>2. Len(f) \in Nat /\ DOMAIN f = 1..Len(f) /\ DOMAIN f = 1..n
    BY <1>1, LenProperties
  <1>3. Len(f) = n
    <2>1. CASE Len(f) < n
      BY <1>2, <2>1
    <2>2. CASE n < Len(f)
      BY <1>2, <2>2
    <2> QED BY <1>2, <2>1, <2>2
  <1> QED BY <1>1, <1>3

(* What holds at the beginning and is handed on holds everywhere.          *)
LEMMA Climb ==
  ASSUME NEW a \in Nat, NEW m \in Nat, NEW G, a \in G,
         \A i \in a..m : i # a /\ i - 1 \in G => i \in G
  PROVE  a..m \subseteq G
  <1> DEFINE T == (a..m) \ G
  <1> SUFFICES ASSUME T # {} PROVE FALSE
    OBVIOUS
  <1>1. PICK i \in T : \A k \in T : i <= k
    <2>1. T \in SUBSET Nat
      OBVIOUS
    <2> HIDE DEF T
    <2> QED BY <2>1, LeastNatural
  <1>2. i \in a..m /\ i # a
    BY <1>1
  <1>3. i - 1 \in a..m /\ i - 1 \notin T
    BY <1>1, <1>2
  <1> QED BY <1>1, <1>2, <1>3

-----------------------------------------------------------------------------
(* The strings *)

(* The cells of strings with ciphertexts of D.                             *)
Cells(D) ==
  {Digit(n) : n \in Nat} \cup {<<"ct", ct, z>> : ct \in D, z \in Nat}
    \cup {<<"rest">>}

RecordLen(r)   == HdrLen + CtSize(r)
FirstDigit(r)  == (CtSize(r) + Flag) \div 10
SecondDigit(r) == (CtSize(r) + Flag) % 10

(* The size of a ciphertext fits its field.                                *)
LEMMA SizeIs ==
  ASSUME NEW r \in Nat PROVE CtSize(r) \in 3..7
  <1>1. CtSizes \in Seq(3..7) /\ Len(CtSizes) \in Nat \ {0}
    BY CtSizesAssumption, EmptySeq DEF HdrLen, Mask
  <1> DEFINE L == Len(CtSizes)
             i == (r % L) + 1
  <1>2. i \in 1..L
    <2> HIDE DEF L
    <2> QED BY <1>1 DEF L
  <1>3. CtSizes[i] \in 3..7
    <2> HIDE DEF i
    <2> QED BY <1>1, <1>2, ElementOfSeq
  <1> QED BY <1>3 DEF CtSize

(* The size of a ciphertext with its flag has two digits.                  *)
LEMMA HeaderDigits ==
  ASSUME NEW r \in Nat
  PROVE  /\ CtSize(r) \in 3..7
         /\ RecordLen(r) = CtSize(r) + 2 /\ RecordLen(r) \in 5..9
         /\ FirstDigit(r) \in Nat /\ SecondDigit(r) \in Nat
         /\ 10 * FirstDigit(r) + SecondDigit(r) = CtSize(r) + 16
         /\ ~(CtSize(r) + Flag < 10)
  <1>4. CtSize(r) \in 3..7
    BY SizeIs
  <1> QED BY <1>4 DEF HdrLen, Flag, RecordLen, FirstDigit, SecondDigit

(* What a record holds.                                                    *)
LEMMA RecordIs ==
  ASSUME NEW D, NEW ct \in D, NEW r \in Nat
  PROVE  /\ Record(ct, r) \in Seq(Cells(D))
         /\ Len(Record(ct, r)) = RecordLen(r)
         /\ Record(ct, r)[1] = Digit(FirstDigit(r))
         /\ Record(ct, r)[2] = Digit(SecondDigit(r))
         /\ Record(ct, r)[3] = <<"ct", ct, CtSize(r)>>
  <1> DEFINE H == <<Digit(FirstDigit(r)), Digit(SecondDigit(r))>>
             Z == Serialize(ct, r)
             L == CtSize(r)
  <1>0. L \in 3..7
    BY HeaderDigits
  <1>1. header(r) = H
    BY HeaderDigits DEF header, to_string, FirstDigit, SecondDigit
  <1>2. H \in Seq(Cells(D)) /\ Len(H) = 2
    <2>1. Digit(FirstDigit(r)) \in Cells(D) /\ Digit(SecondDigit(r)) \in Cells(D)
      BY HeaderDigits DEF Cells
    <2> QED BY <2>1
  <1>3. Z \in Seq(Cells(D)) /\ Len(Z) = L /\ Z[1] = <<"ct", ct, L>>
    <2>1. Z = [i \in 1..L |-> IF i = 1 THEN <<"ct", ct, L>> ELSE <<"rest">>]
      BY DEF Serialize
    <2> HIDE DEF L
    <2>2. <<"ct", ct, L>> \in Cells(D) /\ <<"rest">> \in Cells(D)
      BY <1>0 DEF Cells
    <2>3. L \in Nat /\ 1 \in 1..L
      BY <1>0
    <2>4. Z \in [1..L -> Cells(D)]
      BY <2>1, <2>2
    <2> QED BY <2>1, <2>3, <2>4, FunctionIsSeq
  <1>4. Record(ct, r) = H \o Z
    BY <1>1 DEF Record
  <1>5. H[1] = Digit(FirstDigit(r)) /\ H[2] = Digit(SecondDigit(r))
    OBVIOUS
  <1> HIDE DEF H, Z, L
  <1>6. /\ Len(H \o Z) = 2 + L /\ H \o Z \in Seq(Cells(D))
        /\ \A i \in 1..(2 + L) : (H \o Z)[i] = IF i <= 2 THEN H[i] ELSE Z[i - 2]
    <2>1. /\ H \o Z \in Seq(Cells(D))
          /\ Len(H \o Z) = Len(H) + Len(Z)
          /\ \A i \in 1..(Len(H) + Len(Z)) :
               (H \o Z)[i] = IF i <= Len(H) THEN H[i] ELSE Z[i - Len(H)]
      BY <1>2, <1>3, ConcatProperties
    <2> QED BY <1>2, <1>3, <2>1
  <1>7. /\ (H \o Z)[1] = H[1] /\ (H \o Z)[2] = H[2] /\ (H \o Z)[3] = Z[1]
    <2>1. 1 \in 1..(2 + L) /\ 2 \in 1..(2 + L) /\ 3 \in 1..(2 + L)
      BY <1>0
    <2>2. 1 <= 2 /\ 2 <= 2 /\ ~(3 <= 2) /\ 3 - 2 = 1
      OBVIOUS
    <2> QED BY <1>6, <2>1, <2>2
  <1>8. RecordLen(r) = 2 + L
    BY <1>0, HeaderDigits DEF L
  <1> QED BY <1>3, <1>4, <1>5, <1>6, <1>7, <1>8 DEF L

(* Which block of S and which place in it number (r - 1) * S + j has.      *)
LEMMA CellPlace ==
  ASSUME NEW S \in Nat, S >= 1, NEW r \in Nat, r >= 1, NEW j \in 1..S,
         NEW n \in Nat, r <= n
  PROVE  /\ (r - 1) * S + j \in 1..(n * S)
         /\ (((r - 1) * S + j) - 1) \div S = r - 1
         /\ (((r - 1) * S + j) - 1) % S = j - 1
  <1> DEFINE q == r - 1
             u == j - 1
  <1>1. q \in Nat /\ u \in 0..(S - 1) /\ q < n /\ j = u + 1
    OBVIOUS
  <1> HIDE DEF q, u
  <1>2. (q * S + u) \div S = q /\ (q * S + u) % S = u
    BY <1>1, DivModIs
  <1>3. q * S \in Nat /\ n * S \in Nat /\ (q * S) + S <= n * S
    BY <1>1, Multiples
  <1>4. (q * S + j) - 1 = q * S + u /\ q * S + j \in 1..(n * S)
    BY <1>1, <1>3
  <1> QED BY <1>2, <1>4 DEF q, u

(* f puts one more of the strings behind the others at each place.         *)
Joins(f, seqs, n) ==
  f = [i \in 1..n |-> IF i = 1 THEN seqs[i] ELSE f[i - 1] \o seqs[i]]

(* There is such a function: one for fewer strings can be extended.        *)
LEMMA JoinsExist ==
  ASSUME NEW seqs, NEW n \in Nat, n >= 1 PROVE \E f : Joins(f, seqs, n)
  <1> DEFINE G == {m \in 1..n : \E f : Joins(f, seqs, m)}
  <1>1. 1 \in G
    <2>1. Joins([i \in 1..1 |-> seqs[i]], seqs, 1)
      BY DEF Joins
    <2> QED BY <2>1
  <1>2. ASSUME NEW m \in 1..n, m # 1, m - 1 \in G PROVE m \in G
    <2>1. PICK f : Joins(f, seqs, m - 1)
      BY <1>2
    <2> DEFINE h == [i \in 1..m |-> IF i = m THEN f[m - 1] \o seqs[m] ELSE f[i]]
               At1(g, i) == IF i = 1 THEN seqs[i] ELSE g[i - 1] \o seqs[i]
    <2>2. \A i \in 1..(m - 1) : h[i] = f[i]
      OBVIOUS
    <2>3. \A i \in 1..(m - 1) : f[i] = At1(f, i)
      BY <2>1 DEF Joins
    <2>4. ASSUME NEW i \in 1..m PROVE h[i] = At1(h, i)
      <3>1. CASE i = m
        <4>1. h[i] = f[m - 1] \o seqs[m]
          BY <3>1
        <4>3. m - 1 \in 1..(m - 1)
          <5> HIDE DEF G, h
          <5> QED BY <1>2
        <4>2. h[m - 1] = f[m - 1]
          BY <2>2, <4>3
        <4> HIDE DEF h
        <4> QED BY <1>2, <3>1, <4>1, <4>2
      <3>2. CASE i # m
        <4>1. i \in 1..(m - 1) /\ (i # 1 => i - 1 \in 1..(m - 1))
          BY <3>2
        <4>2. h[i] = f[i] /\ (i # 1 => h[i - 1] = f[i - 1])
          BY <2>2, <4>1
        <4> HIDE DEF h
        <4> QED BY <2>3, <4>1, <4>2
      <3> QED BY <3>1, <3>2
    <2>5. Joins(h, seqs, m)
      <3>1. h = [i \in 1..m |-> h[i]]
        OBVIOUS
      <3> HIDE DEF h
      <3> QED BY <2>4, <3>1 DEF Joins
    <2> QED BY <2>5
  <1>3. 1..n \subseteq G
    <2> HIDE DEF G
    <2> QED BY <1>1, <1>2, Climb
  <1> QED BY <1>3

(* The records of a product begin at P[0], P[1], ... of its string.        *)
Laid(P, cts, n, D) ==
  /\ n \in Nat \ {0} /\ cts \in [1..n -> D]
  /\ Merge(cts) \in Seq(Cells(D)) /\ Len(Merge(cts)) \in Nat
  /\ P[0] = 0
  /\ \A r \in 1..n : P[r - 1] \in Nat /\ P[r] = P[r - 1] + RecordLen(r)
  /\ \A r \in 1..n : \A j \in 1..RecordLen(r) :
       /\ P[r - 1] + j \in 1..Len(Merge(cts))
       /\ Merge(cts)[P[r - 1] + j] = Record(cts[r], r)[j]

(* Merge puts the records one after another.                               *)
LEMMA MergeIs ==
  ASSUME NEW n \in Nat, n >= 1, NEW D, NEW cts \in [1..n -> D]
  PROVE  \E P : Laid(P, cts, n, D)
  <1> DEFINE C == Cells(D)
             seqs == [r \in 1..n |-> Record(cts[r], r)]
             F == CHOOSE f : Joins(f, seqs, n)
             P == [r \in 0..n |-> IF r = 0 THEN 0 ELSE Len(F[r])]
             Places(i, r) == \A j \in 1..RecordLen(r) :
                               /\ P[r - 1] + j \in 1..Len(F[i])
                               /\ F[i][P[r - 1] + j] = seqs[r][j]
  <1>1. ASSUME NEW r \in 1..n
        PROVE  /\ seqs[r] \in Seq(C) /\ Len(seqs[r]) = RecordLen(r)
               /\ RecordLen(r) \in Nat
    <2>0. r \in Nat /\ cts[r] \in D
      OBVIOUS
    <2>1. Record(cts[r], r) \in Seq(C) /\ Len(Record(cts[r], r)) = RecordLen(r)
      BY <2>0, RecordIs
    <2>2. RecordLen(r) \in 5..9
      BY <2>0, HeaderDigits
    <2> QED BY <2>1, <2>2
  <1>2. Len(seqs) = n
    <2>1. seqs \in [1..n -> Seq(C)]
      BY <1>1
    <2> HIDE DEF C
    <2> QED BY <2>1, FunctionIsSeq
  <1>3. Merge(cts) = F[n]
    BY <1>2 DEF Merge, Ext!FlattenSeq, Joins
  <1>4. Joins(F, seqs, n)
    <2> HIDE DEF seqs
    <2> QED BY JoinsExist
  <1> HIDE DEF C, F
  <1>5. \A r \in 1..n : seqs[r] = Record(cts[r], r)
    OBVIOUS
  <1> HIDE DEF seqs
  <1>6. \A i \in 1..n : F[i] = IF i = 1 THEN seqs[i] ELSE F[i - 1] \o seqs[i]
    BY <1>4 DEF Joins
  <1> DEFINE G == {i \in 1..n : F[i] \in Seq(C)}
  <1>7. 1..n \subseteq G
    <2>1. 1 \in G
      BY <1>1, <1>6
    <2>2. ASSUME NEW i \in 1..n, i # 1, i - 1 \in G PROVE i \in G
      <3>1. F[i] = F[i - 1] \o seqs[i] /\ F[i - 1] \in Seq(C) /\ seqs[i] \in Seq(C)
        BY <1>1, <1>6, <2>2
      <3> QED BY <3>1, ConcatProperties
    <2> HIDE DEF G
    <2> QED BY <2>1, <2>2, Climb
  <1>8. \A i \in 1..n : F[i] \in Seq(C) /\ Len(F[i]) \in Nat
    BY <1>7, LenProperties
  <1>9. P[0] = 0 /\ \A r \in 1..n : P[r] = Len(F[r])
    OBVIOUS
  <1>10. \A r \in 0..n : P[r] \in Nat
    BY <1>8
  <1> HIDE DEF P
  <1>11. ASSUME NEW i \in 1..n, i # 1
         PROVE  /\ i - 1 \in 1..n
                /\ Len(F[i]) = P[i - 1] + RecordLen(i)
                /\ \A k \in 1..(P[i - 1] + RecordLen(i)) :
                     F[i][k] = IF k <= P[i - 1] THEN F[i - 1][k]
                               ELSE seqs[i][k - P[i - 1]]
    <2>1. i - 1 \in 1..n
      BY <1>11
    <2>2. F[i] = F[i - 1] \o seqs[i] /\ P[i - 1] = Len(F[i - 1])
      BY <1>6, <1>9, <1>11, <2>1
    <2>3. F[i - 1] \in Seq(C) /\ seqs[i] \in Seq(C) /\ Len(seqs[i]) = RecordLen(i)
      BY <1>1, <1>8, <2>1
    <2>4. /\ Len(F[i - 1] \o seqs[i]) = Len(F[i - 1]) + Len(seqs[i])
          /\ \A k \in 1..(Len(F[i - 1]) + Len(seqs[i])) :
               (F[i - 1] \o seqs[i])[k] = IF k <= Len(F[i - 1]) THEN F[i - 1][k]
                                         ELSE seqs[i][k - Len(F[i - 1])]
      BY <2>3, ConcatProperties
    <2> QED BY <2>1, <2>2, <2>3, <2>4
  <1>12. ASSUME NEW r \in 1..n
         PROVE  P[r - 1] \in Nat /\ P[r] = P[r - 1] + RecordLen(r)
    <2>1. r - 1 \in 0..n
      OBVIOUS
    <2>2. CASE r = 1
      <3>1. F[1] = seqs[1]
        BY <1>6, <2>2
      <3> QED BY <1>1, <1>9, <2>2, <3>1
    <2>3. CASE r # 1
      BY <1>9, <1>10, <1>11, <2>1, <2>3
    <2> QED BY <2>2, <2>3
  <1> DEFINE K == {i \in 1..n : \A r \in 1..i : Places(i, r)}
  <1>13. 1 \in K
    <2>1. F[1] = seqs[1] /\ Len(F[1]) = RecordLen(1) /\ P[1 - 1] = 0
      BY <1>1, <1>6, <1>9
    <2>2. Places(1, 1)
      <3> SUFFICES ASSUME NEW j \in 1..RecordLen(1)
                   PROVE  P[1 - 1] + j \in 1..Len(F[1])
                          /\ F[1][P[1 - 1] + j] = seqs[1][j]
        OBVIOUS
      <3>1. RecordLen(1) \in Nat
        BY <1>1
      <3>2. P[1 - 1] + j = j
        BY <2>1, <3>1
      <3> QED BY <2>1, <3>2
    <2> QED BY <2>2
  <1>14. ASSUME NEW i \in 1..n, i # 1, i - 1 \in K PROVE i \in K
    <2> DEFINE p == P[i - 1]
               L == RecordLen(i)
    <2>1. /\ i - 1 \in 1..n /\ p \in Nat /\ L \in Nat
          /\ p = Len(F[i - 1]) /\ Len(F[i]) = p + L
          /\ \A k \in 1..(p + L) :
               F[i][k] = IF k <= p THEN F[i - 1][k] ELSE seqs[i][k - p]
      BY <1>1, <1>9, <1>11, <1>12, <1>14
    <2> SUFFICES ASSUME NEW r \in 1..i, NEW j \in 1..RecordLen(r)
                 PROVE  P[r - 1] + j \in 1..Len(F[i])
                        /\ F[i][P[r - 1] + j] = seqs[r][j]
      OBVIOUS
    <2>2. CASE r = i
      <3> HIDE DEF p, L
      <3>1. P[r - 1] = p /\ RecordLen(r) = L
        BY <2>2 DEF p, L
      <3>2. p + j \in 1..(p + L) /\ ~(p + j <= p) /\ (p + j) - p = j
        BY <2>1, <3>1
      <3> QED BY <2>1, <2>2, <3>1, <3>2
    <2>3. CASE r # i
      <3>1. r \in 1..(i - 1)
        BY <2>3
      <3>2. Places(i - 1, r)
        BY <1>14, <3>1
      <3> DEFINE k == P[r - 1] + j
      <3>3. k \in 1..p /\ F[i - 1][k] = seqs[r][j]
        BY <2>1, <3>2
      <3> HIDE DEF p, L, k
      <3>4. k \in 1..(p + L) /\ k <= p
        BY <2>1, <3>3
      <3>5. k \in 1..Len(F[i]) /\ F[i][k] = seqs[r][j]
        BY <2>1, <3>3, <3>4
      <3> QED BY <3>5 DEF k
    <2> QED BY <2>2, <2>3
  <1>15. \A r \in 1..n : Places(n, r)
    <2>1. 1..n \subseteq K
      <3> HIDE DEF K
      <3> QED BY <1>13, <1>14, Climb
    <2> QED BY <2>1
  <1>16. Laid(P, cts, n, D)
    <2>1. ASSUME NEW r \in 1..n, NEW j \in 1..RecordLen(r)
          PROVE  /\ P[r - 1] + j \in 1..Len(Merge(cts))
                 /\ Merge(cts)[P[r - 1] + j] = Record(cts[r], r)[j]
      BY <1>3, <1>5, <1>15
    <2>2. Merge(cts) \in Seq(Cells(D)) /\ Len(Merge(cts)) \in Nat
      BY <1>3, <1>8 DEF C
    <2> QED BY <1>9, <1>12, <2>1, <2>2 DEF Laid
  <1> QED BY <1>16

(* The block sizes are numbers, and fit the ring degree.                   *)
LEMMA SizesFit ==
  /\ N \in Nat /\ N >= 1
  /\ BLK_NROWS \in Nat /\ BLK_NROWS >= 3 /\ BLK_NROWS <= N
  /\ BLK_NCOLS \in Nat /\ BLK_NCOLS >= 1 /\ BLK_NCOLS <= 4 * N
  <1>1. N \in Nat /\ N >= 1
    BY DegreeAssumption, NatPower
  <1> QED BY <1>1, BlockSizeAssumption

(* atoi of two digits that nothing but a non-digit follows.                *)
LEMMA AtoiTwoDigits ==
  ASSUME NEW s, Len(s) \in Nat, Len(s) >= 2, NEW x \in Nat, NEW y \in Nat,
         s[1] = Digit(x), s[2] = Digit(y), Len(s) >= 3 => s[3][1] # "digit"
  PROVE  atoi(s) = 10 * x + y
  <1> DEFINE L == Len(s)
             ends == {i \in 1..L : s[i][1] # "digit"}
             Step(f, i) == IF i = 0 THEN 0
                           ELSE IF \E e \in ends : e <= i THEN f[i - 1]
                           ELSE 10 * f[i - 1] + s[i][2]
             Rec(f) == f = [i \in 0..L |-> Step(f, i)]
             W == [i \in 0..L |-> IF i = 0 THEN 0 ELSE IF i = 1 THEN x
                                  ELSE 10 * x + y]
             F == CHOOSE f : Rec(f)
  <1>1. atoi(s) = F[L]
    BY DEF atoi
  <1>2. /\ 1 \notin ends /\ 2 \notin ends /\ (L >= 3 => 3 \in ends)
        /\ s[1][2] = x /\ s[2][2] = y
    BY DEF Digit
  <1>3. \A i \in 0..L : W[i] = Step(W, i)
    <2> SUFFICES ASSUME NEW i \in 0..L PROVE W[i] = Step(W, i)
      OBVIOUS
    <2>0. ends \subseteq 1..L
      OBVIOUS
    <2> HIDE DEF ends
    <2>1. CASE i = 0
      BY <2>1
    <2>2. CASE i = 1
      <3>1. ~(\E e \in ends : e <= 1)
        BY <1>2, <2>0
      <3> QED BY <1>2, <2>2, <3>1
    <2>3. CASE i = 2
      <3>1. ~(\E e \in ends : e <= 2)
        BY <1>2, <2>0
      <3> QED BY <1>2, <2>3, <3>1
    <2>4. CASE i >= 3
      <3>1. \E e \in ends : e <= i
        BY <1>2, <2>4
      <3> QED BY <2>4, <3>1
    <2> QED BY <2>1, <2>2, <2>3, <2>4
  <1>4. Rec(W)
    BY <1>3
  <1>5. Rec(F)
    <2> HIDE DEF Rec, W
    <2> QED BY <1>4
  <1>6. \A i \in 0..L : F[i] = Step(F, i)
    <2> HIDE DEF F, Step
    <2> QED BY <1>5
  <1> HIDE DEF F, W, ends
  <1> DEFINE G == {i \in 0..L : F[i] = W[i]}
  <1>7. 0 \in G
    BY <1>3, <1>6
  <1>8. \A i \in 0..L : i # 0 /\ i - 1 \in G => i \in G
    BY <1>3, <1>6
  <1>9. 0..L \subseteq G
    <2> HIDE DEF G
    <2> QED BY <1>7, <1>8, Climb
  <1>10. F[L] = W[L]
    BY <1>9
  <1> QED BY <1>1, <1>10 DEF W

(* atoi of what does not begin with a digit.                               *)
LEMMA AtoiNone ==
  ASSUME NEW s, Len(s) \in Nat, Len(s) >= 1 => s[1][1] # "digit"
  PROVE  atoi(s) = 0
  <1> DEFINE L == Len(s)
             ends == {i \in 1..L : s[i][1] # "digit"}
             Step(f, i) == IF i = 0 THEN 0
                           ELSE IF \E e \in ends : e <= i THEN f[i - 1]
                           ELSE 10 * f[i - 1] + s[i][2]
             Rec(f) == f = [i \in 0..L |-> Step(f, i)]
             W == [i \in 0..L |-> 0]
             F == CHOOSE f : Rec(f)
  <1>1. atoi(s) = F[L]
    BY DEF atoi
  <1>2. ASSUME NEW i \in 0..L, i # 0 PROVE \E e \in ends : e <= i
    BY <1>2
  <1>3. \A i \in 0..L : W[i] = Step(W, i)
    <2> HIDE DEF ends
    <2> QED BY <1>2
  <1>4. Rec(W)
    BY <1>3
  <1>5. Rec(F)
    <2> HIDE DEF Rec, W
    <2> QED BY <1>4
  <1>6. \A i \in 0..L : F[i] = Step(F, i)
    <2> HIDE DEF F, Step
    <2> QED BY <1>5
  <1> HIDE DEF F, ends
  <1> DEFINE G == {i \in 0..L : F[i] = 0}
  <1>7. 0 \in G
    BY <1>6
  <1>8. \A i \in 0..L : i # 0 /\ i - 1 \in G => i \in G
    BY <1>2, <1>6
  <1>9. 0..L \subseteq G
    <2> HIDE DEF G
    <2> QED BY <1>7, <1>8, Climb
  <1> QED BY <1>1, <1>9

(* The block sizes in closed form.                                         *)
BlockSizes(m) ==
  [k \in 1..CeilDiv(m, BLK_NROWS) |-> RowDims(m, RowAt(m, k - 1))]

(* What is left after the first block is cut as if it were all there is.   *)
LEMMA FirstBlock ==
  ASSUME NEW m \in Nat, m >= 1
  PROVE  /\ RowDims(m, 0) \in 1..m
         /\ CeilDiv(m, BLK_NROWS) \in Nat \ {0}
         /\ CeilDiv(m - RowDims(m, 0), BLK_NROWS) = CeilDiv(m, BLK_NROWS) - 1
         /\ \A k \in 2..CeilDiv(m, BLK_NROWS) :
              RowDims(m, RowAt(m, k - 1))
                = RowDims(m - RowDims(m, 0), RowAt(m - RowDims(m, 0), k - 2))
  <1> DEFINE B == BLK_NROWS
             R == CeilDiv(m, B)
             d == RowDims(m, 0)
  <1>0. B \in Nat /\ B >= 3
    BY SizesFit
  <1>1. d \in 1..m
    BY <1>0 DEF RowDims
  <1>2. CASE m <= B
    <2>1. d = m /\ R = 1
      <3>1. 1 * B = B /\ 1 \in Nat /\ m <= 1 * B /\ 1 * B < m + B
        BY <1>0, <1>2
      <3>2. R = 1
        BY <1>0, <3>1, CeilDivIs
      <3>3. d = m
        BY <1>0, <1>2 DEF RowDims
      <3> QED BY <3>2, <3>3
    <2>2. CeilDiv(m - d, B) = 0
      <3>1. 0 * B = 0 /\ 0 \in Nat
        BY <1>0
      <3>2. CeilDiv(0, B) = 0
        BY <1>0, <3>1, CeilDivIs
      <3> QED BY <2>1, <3>2
    <2> QED BY <1>1, <2>1, <2>2
  <1>3. CASE m = B + 1
    <2>1. d = B - 1 /\ m - d = 2
      BY <1>0, <1>3 DEF RowDims
    <2>2. R = 2
      <3>1. 2 * B = B + B /\ 2 \in Nat /\ m <= 2 * B /\ 2 * B < m + B
        BY <1>0, <1>3
      <3> QED BY <1>0, <3>1, CeilDivIs
    <2>3. CeilDiv(2, B) = 1
      <3>1. 1 * B = B /\ 1 \in Nat /\ 2 \in Nat /\ 2 <= 1 * B /\ 1 * B < 2 + B
        BY <1>0
      <3> QED BY <1>0, <3>1, CeilDivIs
    <2>4. RowAt(m, 1) = B - 1
      <3>1. 1 * B = B
        BY <1>0
      <3> HIDE DEF R
      <3> QED BY <1>0, <1>3, <2>2, <3>1 DEF RowAt, BlockRow, R
    <2>5. RowAt(2, 0) = 0
      <3>1. 0 * B = 0
        BY <1>0
      <3> QED BY <1>0, <2>3, <3>1 DEF RowAt, BlockRow
    <2>6. RowDims(m, B - 1) = 2 /\ RowDims(2, 0) = 2
      BY <1>0, <1>3 DEF RowDims
    <2>7. \A k \in 2..2 : k - 1 = 1 /\ k - 2 = 0
      OBVIOUS
    <2> QED BY <1>1, <2>1, <2>2, <2>3, <2>4, <2>5, <2>6, <2>7
  <1>4. CASE m > B + 1
    <2> DEFINE w == m - B
    <2>1. d = B /\ w \in Nat /\ w > 1 /\ m = w + B
      BY <1>0, <1>4 DEF RowDims
    <2>2. R \in Nat /\ m <= R * B /\ R * B < m + B /\ R * B \in Nat
      <3>1. R \in Nat /\ m <= R * B /\ R * B < m + B
        BY <1>0, CeilDivOf
      <3> HIDE DEF R
      <3> QED BY <1>0, <3>1
    <2> HIDE DEF R
    <2>3. R # 0
      <3>1. R = 0 => R * B = 0
        BY <1>0
      <3> QED BY <2>2, <3>1
    <2>4. PICK q \in Nat : R = q + 1
      <3>1. R - 1 \in Nat /\ R = (R - 1) + 1
        BY <2>2, <2>3
      <3> QED BY <3>1
    <2>5. R * B = q * B + B /\ q * B \in Nat
      BY <1>0, <2>4
    <2>6. CeilDiv(w, B) = q
      <3>1. w <= q * B /\ q * B < w + B
        BY <1>0, <2>1, <2>2, <2>5
      <3> HIDE DEF w
      <3> QED BY <1>0, <2>1, <2>4, <3>1, CeilDivIs
    <2>7. ASSUME NEW k \in 2..R
          PROVE  RowDims(m, RowAt(m, k - 1)) = RowDims(w, RowAt(w, k - 2))
      <3> DEFINE i == k - 2
                 P == i * B
      <3>1. i \in Nat /\ i < q /\ k - 1 = i + 1 /\ i + 1 < R /\ i + 1 > 0
        BY <2>2, <2>4
      <3> HIDE DEF i
      <3>2. P \in Nat /\ (i + 1) * B = P + B
        BY <1>0, <3>1
      <3>3. i = 0 => P = 0
        BY <1>0
      <3> HIDE DEF P
      <3>4. RowAt(m, i + 1) = IF m = (P + B) + 1 THEN (P + B) - 1 ELSE P + B
        BY <2>4, <3>1, <3>2 DEF RowAt, BlockRow, R
      <3>5. RowAt(w, i) = IF i > 0 /\ w = P + 1 THEN P - 1 ELSE P
        BY <2>6, <3>1 DEF RowAt, BlockRow, P
      <3>6. m = (P + B) + 1 <=> (i > 0 /\ w = P + 1)
        <4> HIDE DEF w
        <4> QED BY <1>0, <2>1, <3>1, <3>2, <3>3
      <3>7. RowAt(m, i + 1) = RowAt(w, i) + B /\ RowAt(w, i) \in Int
        BY <1>0, <3>2, <3>4, <3>5, <3>6
      <3>8. ASSUME NEW a \in Int PROVE RowDims(m, a + B) = RowDims(w, a)
        <4> HIDE DEF w
        <4> QED BY <1>0, <2>1 DEF RowDims
      <3>9. RowDims(m, RowAt(m, i + 1)) = RowDims(w, RowAt(w, i))
        <4> HIDE DEF w, B
        <4> QED BY <3>7, <3>8
      <3> QED BY <3>1, <3>9 DEF i
    <2> HIDE DEF d, w
    <2>8. m - d = w /\ R \in Nat \ {0} /\ CeilDiv(w, B) = R - 1
      BY <2>1, <2>2, <2>3, <2>4, <2>6 DEF w
    <2> QED BY <1>1, <2>7, <2>8 DEF d, R
  <1> QED BY <1>0, <1>2, <1>3, <1>4

(* The rows are the first block and what follows it.                       *)
LEMMA BlockSizesFrom ==
  ASSUME NEW m \in Nat, m >= 1
  PROVE  BlockSizes(m) = <<RowDims(m, 0)>> \o BlockSizes(m - RowDims(m, 0))
  <1> DEFINE R == CeilDiv(m, BLK_NROWS)
             d == RowDims(m, 0)
             w == m - d
             A == BlockSizes(m)
             B == BlockSizes(w)
             H == <<d>>
             S == {A[k] : k \in 1..R} \cup {B[k] : k \in 1..(R - 1)} \cup {d}
  <1>1. /\ d \in 1..m /\ R \in Nat \ {0} /\ CeilDiv(w, BLK_NROWS) = R - 1
        /\ \A k \in 2..R : RowDims(m, RowAt(m, k - 1)) = RowDims(w, RowAt(w, k - 2))
    BY FirstBlock
  <1>2. RowAt(m, 0) = 0
    <2>1. 0 * BLK_NROWS = 0
      BY SizesFit
    <2> HIDE DEF R
    <2> QED BY <1>1, <2>1 DEF RowAt, BlockRow, R
  <1>3. A = [k \in 1..R |-> RowDims(m, RowAt(m, k - 1))]
    BY DEF BlockSizes
  <1>4. B = [k \in 1..(R - 1) |-> RowDims(w, RowAt(w, k - 1))]
    <2> HIDE DEF R, w, d
    <2> QED BY <1>1 DEF BlockSizes
  <1> HIDE DEF R, w
  <1>5. A[1] = d
    <2>1. 1 \in 1..R /\ 1 - 1 = 0
      BY <1>1
    <2> QED BY <1>2, <1>3, <2>1
  <1>6. \A k \in 2..R : A[k] = B[k - 1]
    <2> SUFFICES ASSUME NEW k \in 2..R PROVE A[k] = B[k - 1]
      OBVIOUS
    <2>1. k \in 1..R /\ k - 1 \in 1..(R - 1) /\ (k - 1) - 1 = k - 2
      BY <1>1
    <2> QED BY <1>1, <1>3, <1>4, <2>1
  <1> HIDE DEF d, A, B
  <1>7. A \in Seq(S) /\ Len(A) = R
    <2>1. A \in [1..R -> S] /\ R \in Nat
      BY <1>1, <1>3
    <2> HIDE DEF S
    <2> QED BY <2>1, FunctionIsSeq
  <1>8. B \in Seq(S) /\ Len(B) = R - 1
    <2>1. B \in [1..(R - 1) -> S] /\ R - 1 \in Nat
      BY <1>1, <1>4
    <2> HIDE DEF S
    <2> QED BY <2>1, FunctionIsSeq
  <1>9. H \in Seq(S) /\ Len(H) = 1 /\ H[1] = d
    OBVIOUS
  <1> HIDE DEF S, H
  <1>10. /\ H \o B \in Seq(S) /\ Len(H \o B) = Len(H) + Len(B)
         /\ \A k \in 1..(Len(H) + Len(B)) :
              (H \o B)[k] = IF k <= Len(H) THEN H[k] ELSE B[k - Len(H)]
    BY <1>8, <1>9, ConcatProperties
  <1>11. Len(H \o B) = R /\ \A k \in 1..R : (H \o B)[k] = A[k]
    <2>1. Len(H) + Len(B) = R
      BY <1>1, <1>8, <1>9
    <2>2. ASSUME NEW k \in 1..R PROVE (H \o B)[k] = A[k]
      <3>1. (H \o B)[k] = IF k <= 1 THEN H[k] ELSE B[k - 1]
        BY <1>9, <1>10, <2>1
      <3>2. CASE k = 1
        BY <1>5, <1>9, <3>1, <3>2
      <3>3. CASE k # 1
        <4>1. k \in 2..R /\ ~(k <= 1)
          BY <1>1, <3>3
        <4> QED BY <1>6, <3>1, <4>1
      <3> QED BY <3>2, <3>3
    <2> QED BY <1>10, <2>1, <2>2
  <1>12. A = H \o B
    BY <1>7, <1>10, <1>11, SeqEqual
  <1> QED BY <1>12 DEF A, B, H, w, d

(* The recursive loop gives the closed form.                               *)
LEMMA RowBlocksAre ==
  ASSUME NEW len \in Nat PROVE RowBlocks(len) = BlockSizes(len)
  <1> DEFINE Step(f, i) == IF i = len THEN <<>>
                           ELSE <<RowDims(len, i)>> \o f[i + RowDims(len, i)]
             Rec(f) == f = [i \in 0..len |-> Step(f, i)]
             W == [i \in 0..len |-> BlockSizes(len - i)]
             F == CHOOSE f : Rec(f)
  <1>1. RowBlocks(len) = F[0]
    BY DEF RowBlocks
  <1>2. ASSUME NEW i \in 0..len, i # len
        PROVE  /\ RowDims(len, i) = RowDims(len - i, 0)
               /\ RowDims(len, i) \in 1..(len - i)
               /\ i + RowDims(len, i) \in 0..len
               /\ len - (i + RowDims(len, i)) = (len - i) - RowDims(len - i, 0)
    <2>1. RowDims(len, i) = RowDims(len - i, 0)
      BY SizesFit DEF RowDims
    <2>2. RowDims(len, i) \in 1..(len - i)
      BY <1>2, SizesFit DEF RowDims
    <2> QED BY <2>1, <2>2
  <1>3. BlockSizes(0) = <<>>
    <2>1. CeilDiv(0, BLK_NROWS) = 0
      <3>1. 0 * BLK_NROWS = 0 /\ 0 \in Nat
        BY SizesFit
      <3> QED BY <3>1, SizesFit, CeilDivIs
    <2>2. 1..0 = {}
      OBVIOUS
    <2> QED BY <2>1, <2>2 DEF BlockSizes
  <1>4. \A i \in 0..len : W[i] = Step(W, i)
    <2> SUFFICES ASSUME NEW i \in 0..len PROVE W[i] = Step(W, i)
      OBVIOUS
    <2>1. CASE i = len
      BY <1>3, <2>1
    <2>2. CASE i # len
      <3> DEFINE m == len - i
                 j == i + RowDims(len, i)
      <3>1. m \in Nat /\ m >= 1
        BY <2>2
      <3>2. BlockSizes(m) = <<RowDims(m, 0)>> \o BlockSizes(m - RowDims(m, 0))
        BY <3>1, BlockSizesFrom
      <3>3. j \in 0..len /\ len - j = m - RowDims(m, 0) /\ RowDims(len, i) = RowDims(m, 0)
        BY <1>2, <2>2
      <3>4. W[j] = BlockSizes(len - j) /\ W[i] = BlockSizes(m)
        BY <3>3
      <3> HIDE DEF W, m
      <3> QED BY <2>2, <3>2, <3>3, <3>4
    <2> QED BY <2>1, <2>2
  <1>5. Rec(W)
    BY <1>4
  <1>6. Rec(F)
    <2> HIDE DEF Rec, W
    <2> QED BY <1>5
  <1>7. \A i \in 0..len : F[i] = Step(F, i)
    <2> HIDE DEF F, Step
    <2> QED BY <1>6
  <1> HIDE DEF F
  <1>8. W[0] = BlockSizes(len)
    BY SizesFit
  <1> HIDE DEF W
  <1> DEFINE T == {m \in 0..len : F[len - m] # W[len - m]}
  <1>9. ASSUME T # {} PROVE FALSE
    <2>1. PICK m \in T : \A k \in T : m <= k
      <3>1. T \in SUBSET Nat
        OBVIOUS
      <3> HIDE DEF T
      <3> QED BY <1>9, <3>1, LeastNatural
    <2> DEFINE i == len - m
               j == i + RowDims(len, i)
    <2>2. i \in 0..len /\ m \in 0..len /\ F[i] # W[i]
      BY <2>1
    <2>3. i # len
      BY <1>4, <1>7, <2>2
    <2>4. j \in 0..len /\ RowDims(len, i) \in 1..(len - i)
      BY <1>2, <2>2, <2>3
    <2>5. F[j] = W[j]
      <3>1. len - j \in 0..len /\ len - j < m /\ len - (len - j) = j
        BY <2>2, <2>4
      <3>2. len - j \notin T
        BY <2>1, <2>2, <3>1
      <3> HIDE DEF j
      <3> QED BY <3>1, <3>2
    <2>6. F[i] = Step(F, i) /\ W[i] = Step(W, i)
      BY <1>4, <1>7, <2>2
    <2> QED BY <2>2, <2>3, <2>5, <2>6
  <1>10. F[0] = W[0]
    <2>1. len \notin T /\ len \in 0..len /\ len - len = 0
      BY <1>9
    <2> QED BY <2>1
  <1> QED BY <1>1, <1>8, <1>10

(* How many row blocks there are, and that each is one the card takes.     *)
LEMMA RowBlocksFit ==
  ASSUME NEW len \in Nat, len >= 1
  PROVE  /\ CeilDiv(len, BLK_NROWS) \in Nat \ {0}
         /\ Len(RowBlocks(len)) = CeilDiv(len, BLK_NROWS)
         /\ \A r \in 1..CeilDiv(len, BLK_NROWS) : RowBlocks(len)[r] \in 1..N
  <1> DEFINE R == CeilDiv(len, BLK_NROWS)
  <1>1. R \in Nat \ {0}
    BY RowEnds, SizesFit
  <1>2. ASSUME NEW r \in 1..R PROVE RowDims(len, RowAt(len, r - 1)) \in 1..N
    <2>1. r - 1 \in Nat /\ r - 1 < R
      BY <1>1
    <2>2. RowAt(len, r - 1) \in Nat /\ RowAt(len, r - 1) < len
      BY <2>1, RowWalk, SizesFit
    <2>3. RowDims(len, RowAt(len, r - 1)) \in 1..BLK_NROWS
      BY <2>2, RowDimsFit, SizesFit
    <2> QED BY <2>3, SizesFit
  <1>3. RowBlocks(len) = [k \in 1..R |-> RowDims(len, RowAt(len, k - 1))]
    BY RowBlocksAre DEF BlockSizes
  <1> HIDE DEF R
  <1>4. RowBlocks(len) \in [1..R -> 1..N] /\ \A r \in 1..R : RowBlocks(len)[r] \in 1..N
    BY <1>2, <1>3
  <1>5. Len(RowBlocks(len)) = R
    BY <1>1, <1>4, FunctionIsSeq
  <1> QED BY <1>1, <1>4, <1>5 DEF R

-----------------------------------------------------------------------------
(* Cutting a product into its records *)

(* substr gives as much of a string as there is.                           *)
LEMMA SubstrIs ==
  ASSUME NEW S, NEW s \in Seq(S), NEW pos \in Nat, NEW count \in Nat,
         NEW e, e = Least(pos + count, Len(s))
  PROVE  /\ e \in Nat
         /\ substr(s, pos, count) \in Seq(S)
         /\ Len(substr(s, pos, count)) = IF pos + 1 <= e THEN e - pos ELSE 0
         /\ \A i \in 1..(e - pos) : substr(s, pos, count)[i] = s[pos + i]
  <1>1. Len(s) \in Nat
    BY LenProperties
  <1>2. e \in Nat /\ e <= Len(s) /\ pos + 1 \in Int /\ e \in Int
    BY <1>1 DEF Least
  <1>3. \A i \in (pos + 1)..e : s[i] \in S
    BY <1>1, <1>2, ElementOfSeq
  <1> DEFINE t == SubSeq(s, pos + 1, e)
             m == pos + 1
  <1>4. substr(s, pos, count) = t
    BY DEF substr
  <1>5. /\ t \in Seq(S)
        /\ Len(t) = IF m <= e THEN e - m + 1 ELSE 0
        /\ \A i \in 1..(e - m + 1) : t[i] = s[m + i - 1]
    <2> DEFINE a == pos + 1
    <2>1. a \in Int /\ \A i \in a..e : s[i] \in S
      BY <1>2, <1>3
    <2> HIDE DEF a
    <2>2. /\ SubSeq(s, a, e) \in Seq(S)
          /\ Len(SubSeq(s, a, e)) = IF a <= e THEN e - a + 1 ELSE 0
          /\ \A i \in 1..(e - a + 1) : SubSeq(s, a, e)[i] = s[a + i - 1]
      BY <1>2, <2>1, SubSeqProperties
    <2> QED BY <2>2 DEF a
  <1> HIDE DEF t
  <1>6. e - m + 1 = e - pos /\ \A i \in 1..(e - pos) : m + i - 1 = pos + i
    BY <1>2
  <1> QED BY <1>2, <1>4, <1>5, <1>6

(* ... cell by cell.                                                       *)
LEMMA SubstrCell ==
  ASSUME NEW S, NEW s \in Seq(S), NEW pos \in Nat, NEW count \in Nat,
         NEW e, e = Least(pos + count, Len(s)), NEW i \in 1..(e - pos)
  PROVE  substr(s, pos, count)[i] = s[pos + i]
  BY SubstrIs

(* The header that rec_length reads at the beginning of a record.          *)
LEMMA HeaderRead ==
  ASSUME NEW n, NEW D, NEW cts, NEW P, Laid(P, cts, n, D), NEW r \in 1..n
  PROVE  rec_length(Merge(cts), P[r - 1]) = CtSize(r)
  <1> DEFINE data == Merge(cts)
             S == RecordLen(r)
             p == P[r - 1]
             e == Least(p + (p + HdrLen), Len(data))
             s == substr(data, p, p + HdrLen)
  <1>1. /\ data \in Seq(Cells(D)) /\ Len(data) \in Nat
        /\ \A j \in 1..S : p + j \in 1..Len(data) /\ data[p + j] = Record(cts[r], r)[j]
    BY DEF Laid
  <1>0. r \in Nat /\ cts[r] \in D
    BY DEF Laid
  <1>2. S \in 5..9 /\ HdrLen = 2
    BY <1>0, HeaderDigits DEF HdrLen
  <1>3. p \in Nat /\ p + S <= Len(data)
    <2>1. p \in Nat
      BY DEF Laid
    <2>2. S \in 1..S
      BY <1>2
    <2>3. p + S \in 1..Len(data)
      BY <1>1, <2>2
    <2> QED BY <1>1, <2>1, <2>3
  <1> HIDE DEF data, S, p
  <1>4. e \in Nat /\ e >= p + 2
    BY <1>1, <1>2, <1>3 DEF Least
  <1>5. /\ Len(s) = IF p + 1 <= e THEN e - p ELSE 0
        /\ \A i \in 1..(e - p) : s[i] = data[p + i]
    <2> DEFINE c == p + HdrLen
    <2>1. c \in Nat
      BY <1>2, <1>3
    <2>2. e = Least(p + c, Len(data)) /\ s = substr(data, p, c)
      OBVIOUS
    <2> HIDE DEF c, e, s
    <2>3. /\ e \in Nat
          /\ Len(substr(data, p, c)) = IF p + 1 <= e THEN e - p ELSE 0
          /\ \A i \in 1..(e - p) : substr(data, p, c)[i] = data[p + i]
      <3>1. data \in Seq(Cells(D)) /\ p \in Nat
        BY <1>1, <1>3
      <3>2. e \in Nat
        BY <2>1, <2>2, <3>1, SubstrIs
      <3>3. Len(substr(data, p, c)) = IF p + 1 <= e THEN e - p ELSE 0
        BY <2>1, <2>2, <3>1, SubstrIs
      <3>4. ASSUME NEW i \in 1..(e - p)
            PROVE  substr(data, p, c)[i] = data[p + i]
        BY <2>1, <2>2, <3>1, SubstrCell
      <3> QED BY <3>2, <3>3, <3>4
    <2> QED BY <2>2, <2>3
  <1> HIDE DEF e, s
  <1>6. Len(s) = e - p /\ e - p \in Nat /\ e - p >= 2
    BY <1>3, <1>4, <1>5
  <1>7. \A j \in 1..S : data[p + j] = Record(cts[r], r)[j]
    BY <1>1
  <1>9. /\ Record(cts[r], r)[1] = Digit(FirstDigit(r))
        /\ Record(cts[r], r)[2] = Digit(SecondDigit(r))
        /\ Record(cts[r], r)[3] = <<"ct", cts[r], CtSize(r)>>
    BY <1>0, RecordIs
  <1>10. s[1] = Digit(FirstDigit(r)) /\ s[2] = Digit(SecondDigit(r))
    <2>1. 1 \in 1..(e - p) /\ 2 \in 1..(e - p) /\ 1 \in 1..S /\ 2 \in 1..S
      BY <1>2, <1>6
    <2> QED BY <1>5, <1>7, <1>9, <2>1
  <1>11. Len(s) >= 3 => s[3][1] # "digit"
    <2> SUFFICES ASSUME Len(s) >= 3 PROVE s[3][1] # "digit"
      OBVIOUS
    <2>1. 3 \in 1..(e - p) /\ 3 \in 1..S
      BY <1>2, <1>6
    <2>2. s[3] = <<"ct", cts[r], CtSize(r)>>
      BY <1>5, <1>7, <1>9, <2>1
    <2> QED BY <2>2
  <1>12. atoi(s) = 10 * FirstDigit(r) + SecondDigit(r)
    <2>1. FirstDigit(r) \in Nat /\ SecondDigit(r) \in Nat
      BY <1>0, HeaderDigits
    <2> QED BY <1>6, <1>10, <1>11, <2>1, AtoiTwoDigits
  <1>13. atoi(s) = CtSize(r) + 16 /\ CtSize(r) \in 3..7
    BY <1>0, <1>12, HeaderDigits
  <1>14. (CtSize(r) + 16) % 8 = CtSize(r)
    <2> DEFINE z == CtSize(r)
    <2>1. z \in 3..7
      BY <1>13
    <2> HIDE DEF z
    <2>2. (z + 16) % 8 = z
      BY <2>1
    <2> QED BY <2>2 DEF z
  <1> QED BY <1>13, <1>14 DEF rec_length, Mask, s, p, data, S

(* What is cut out for the record at P[r - 1].                             *)
Piece(data, P, r) ==
  substr(data, P[r - 1] + HdrLen, P[r - 1] + HdrLen + CtSize(r))

(* The string s loads as ct.                                               *)
LoadsAs(s, ct) == LoadOk(s) /\ Load(s) = ct

(* The piece that is cut out for a record begins with its ciphertext and   *)
(* is at least as long, although its end was given for its length.         *)
LEMMA PieceLoads ==
  ASSUME NEW n, NEW D, NEW cts, NEW P, Laid(P, cts, n, D), NEW r \in 1..n
  PROVE  LoadsAs(Piece(Merge(cts), P, r), cts[r])
  <1> DEFINE data == Merge(cts)
             t == Piece(Merge(cts), P, r)
             p == P[r - 1]
             S == RecordLen(r)
             z == CtSize(r)
             q == p + HdrLen
             c == p + HdrLen + z
             e == Least(q + c, Len(data))
  <1>1. /\ data \in Seq(Cells(D)) /\ Len(data) \in Nat
        /\ \A j \in 1..S : p + j \in 1..Len(data) /\ data[p + j] = Record(cts[r], r)[j]
    BY DEF Laid
  <1>0. r \in Nat /\ cts[r] \in D
    BY DEF Laid
  <1>2. S = z + 2 /\ z \in 3..7 /\ HdrLen = 2
    BY <1>0, HeaderDigits DEF HdrLen
  <1>3. p \in Nat /\ p + S <= Len(data)
    <2>1. p \in Nat
      BY DEF Laid
    <2> HIDE DEF S, z
    <2>2. S \in 1..S
      BY <1>2
    <2>3. p + S \in 1..Len(data)
      BY <1>1, <2>2
    <2> QED BY <1>1, <1>2, <2>1, <2>3
  <1>10. t = substr(data, q, c)
    BY DEF Piece
  <1> HIDE DEF data, S, z, p, t
  <1>4. e \in Nat /\ e >= q + z /\ q = p + 2 /\ q \in Nat /\ c \in Nat
    BY <1>1, <1>2, <1>3, SMTT(60) DEF Least
  <1>5. /\ Len(t) = IF q + 1 <= e THEN e - q ELSE 0
        /\ \A i \in 1..(e - q) : t[i] = data[q + i]
    <2>1. t = substr(data, q, c) /\ e = Least(q + c, Len(data))
      BY <1>10
    <2> HIDE DEF q, c, e
    <2>2. /\ e \in Nat
          /\ Len(substr(data, q, c)) = IF q + 1 <= e THEN e - q ELSE 0
          /\ \A i \in 1..(e - q) : substr(data, q, c)[i] = data[q + i]
      <3>1. data \in Seq(Cells(D)) /\ q \in Nat /\ c \in Nat
        BY <1>1, <1>4
      <3>2. e \in Nat
        BY <2>1, <3>1, SubstrIs
      <3>3. Len(substr(data, q, c)) = IF q + 1 <= e THEN e - q ELSE 0
        BY <2>1, <3>1, SubstrIs
      <3>4. ASSUME NEW i \in 1..(e - q)
            PROVE  substr(data, q, c)[i] = data[q + i]
        BY <2>1, <3>1, SubstrCell
      <3> QED BY <3>2, <3>3, <3>4
    <2> QED BY <2>1, <2>2
  <1> HIDE DEF e
  <1>6. Len(t) >= z /\ 1 \in 1..(e - q)
    <2>1. q + 1 <= e
      BY <1>2, <1>4
    <2>2. Len(t) = e - q
      BY <1>5, <2>1
    <2> QED BY <1>2, <1>4, <2>2
  <1>7. data[p + 3] = Record(cts[r], r)[3]
    <2>1. 3 \in 1..S
      BY <1>2
    <2> QED BY <1>1, <2>1
  <1>8. t[1] = <<"ct", cts[r], z>>
    <2>1. q + 1 = p + 3
      BY <1>3, <1>4
    <2>4. t[1] = data[q + 1]
      <3> HIDE DEF q
      <3> QED BY <1>5, <1>6
    <2>3. Record(cts[r], r)[3] = <<"ct", cts[r], z>>
      BY <1>0, RecordIs DEF z
    <2> QED BY <1>7, <2>1, <2>3, <2>4
  <1>9. t # <<>>
    <2>1. Len(t) # 0
      BY <1>2, <1>6
    <2> QED BY <2>1
  <1> QED BY <1>6, <1>8, <1>9 DEF LoadsAs, LoadOk, Load, t

(* The pieces d are one for each ciphertext of cts, and load as it.        *)
Reads(d, cts) ==
  /\ DOMAIN d = DOMAIN cts
  /\ \A r \in DOMAIN cts : LoadOk(d[r]) /\ Load(d[r]) = cts[r]

(* UpdateVector and Decrypt find every record of a product, whatever its   *)
(* number of rows.                                                         *)
LEMMA CutMerge ==
  ASSUME NEW len \in Nat, len >= 1, NEW n, n = CeilDiv(len, BLK_NROWS),
         NEW D, NEW cts \in [1..n -> D]
  PROVE  Reads(Cut(Merge(cts), len), cts)
  <1>0. n \in Nat /\ n >= 1
    BY RowBlocksFit
  <1>3. PICK P : Laid(P, cts, n, D)
    BY <1>0, MergeIs
  <1>4. ASSUME NEW r \in 1..n PROVE rec_length(Merge(cts), P[r - 1]) = CtSize(r)
    BY <1>3, HeaderRead
  <1>14. ASSUME NEW r \in 1..n
         PROVE  LoadsAs(Piece(Merge(cts), P, r), cts[r])
    BY <1>3, PieceLoads
  <1> DEFINE data == Merge(cts)
             Step(f, r) == IF r = 0 THEN 0
                           ELSE f[r - 1] + HdrLen + rec_length(data, f[r - 1])
             Rec(f) == f = [r \in 0..n |-> Step(f, r)]
             F == CHOOSE f : Rec(f)
             piece(ptr) == substr(data, ptr + HdrLen,
                                  ptr + HdrLen + rec_length(data, ptr))
  <1>1. n \in Nat /\ n >= 1 /\ Len(RowBlocks(len)) = n
    BY RowBlocksFit
  <1>2. Cut(data, len) = [r \in 1..n |-> piece(F[r - 1])]
    BY <1>1 DEF Cut
  <1> DEFINE W == [r \in 0..n |-> P[r]]
  <1>15. ASSUME NEW r \in 1..n PROVE rec_length(data, P[r - 1]) = CtSize(r)
    BY <1>4
  <1> HIDE DEF data
  <1>5. \A r \in 0..n : W[r] = Step(W, r)
    <2> SUFFICES ASSUME NEW r \in 0..n PROVE W[r] = Step(W, r)
      OBVIOUS
    <2>1. CASE r = 0
      BY <1>3, <2>1 DEF Laid
    <2>2. CASE r # 0
      <3>1. r \in 1..n /\ r - 1 \in 0..n
        BY <1>0, <2>2
      <3>2. W[r - 1] = P[r - 1] /\ W[r] = P[r]
        BY <3>1
      <3>3. rec_length(data, P[r - 1]) = CtSize(r)
        BY <1>15, <3>1
      <3>4. P[r - 1] \in Nat /\ P[r] = P[r - 1] + RecordLen(r)
        BY <1>3, <3>1 DEF Laid
      <3>5. CtSize(r) \in Nat /\ HdrLen = 2 /\ RecordLen(r) = HdrLen + CtSize(r)
        <4>1. r \in Nat
          OBVIOUS
        <4>2. CtSize(r) \in 3..7
          BY <4>1, SizeIs
        <4> QED BY <4>2 DEF RecordLen, HdrLen
      <3>6. Step(W, r) = W[r - 1] + HdrLen + rec_length(data, W[r - 1])
        BY <2>2
      <3> HIDE DEF W, Step
      <3> QED BY <3>2, <3>3, <3>4, <3>5, <3>6
    <2> QED BY <2>1, <2>2
  <1>6. Rec(W)
    BY <1>5
  <1>7. Rec(F)
    <2> HIDE DEF Rec, W
    <2> QED BY <1>6
  <1>8. \A r \in 0..n : F[r] = Step(F, r)
    <2> HIDE DEF F, Step
    <2> QED BY <1>7
  <1> HIDE DEF F
  <1>9. \A r \in 0..n : F[r] = P[r]
    <2> HIDE DEF W
    <2> DEFINE G == {r \in 0..n : F[r] = W[r]}
    <2>1. 0 \in G
      BY <1>1, <1>5, <1>8
    <2>2. \A r \in 0..n : r # 0 /\ r - 1 \in G => r \in G
      BY <1>5, <1>8
    <2>3. 0..n \subseteq G
      <3> HIDE DEF G
      <3> QED BY <1>1, <2>1, <2>2, Climb
    <2> QED BY <2>3 DEF W
  <1>10. ASSUME NEW r \in 1..n
         PROVE  LoadsAs(piece(F[r - 1]), cts[r])
    <2>0. r - 1 \in 0..n
      BY <1>0
    <2>1. F[r - 1] = P[r - 1] /\ rec_length(data, P[r - 1]) = CtSize(r)
      BY <1>9, <1>15, <2>0
    <2>2. piece(F[r - 1]) = Piece(Merge(cts), P, r)
      BY <2>1 DEF Piece, data
    <2> HIDE DEF piece
    <2>4. LoadsAs(Piece(Merge(cts), P, r), cts[r])
      BY <1>14
    <2> QED BY <2>2, <2>4
  <1> HIDE DEF piece
  <1>11. DOMAIN cts = 1..n
    OBVIOUS
  <1>12. DOMAIN Cut(data, len) = 1..n
         /\ \A r \in 1..n : Cut(data, len)[r] = piece(F[r - 1])
    BY <1>2
  <1>13. Reads(Cut(data, len), cts)
    BY <1>10, <1>11, <1>12 DEF Reads, LoadsAs
  <1> QED BY <1>13 DEF data

(* The headerless string of MatVecFMA: what is cut out first begins behind *)
(* the head of the ciphertext.                                             *)
LEMMA CutSerialized ==
  ASSUME NEW len \in Nat, len >= 1, NEW ct, NEW x \in Nat
  PROVE  \E r \in DOMAIN Cut(Serialize(ct, x), len) :
           ~LoadOk(Cut(Serialize(ct, x), len)[r])
  <1> DEFINE data == Serialize(ct, x)
             n == Len(RowBlocks(len))
             Step(f, r) == IF r = 0 THEN 0
                           ELSE f[r - 1] + HdrLen + rec_length(data, f[r - 1])
             Rec(f) == f = [r \in 0..n |-> Step(f, r)]
             F == CHOOSE f : Rec(f)
             piece(ptr) == substr(data, ptr + HdrLen,
                                  ptr + HdrLen + rec_length(data, ptr))
             D == {ct}
  <1>1. n \in Nat /\ n >= 1
    BY RowBlocksFit
  <1>2. Cut(data, len) = [r \in 1..n |-> piece(F[r - 1])]
    BY DEF Cut
  <1>3. CtSize(x) \in 3..7 /\ HdrLen = 2
    BY HeaderDigits DEF HdrLen
  <1>4. data \in Seq(Cells(D)) /\ Len(data) = CtSize(x)
        /\ \A i \in 1..CtSize(x) : data[i] = IF i = 1 THEN <<"ct", ct, CtSize(x)>> ELSE <<"rest">>
    <2>1. data = [i \in 1..CtSize(x) |-> IF i = 1 THEN <<"ct", ct, CtSize(x)>> ELSE <<"rest">>]
      BY DEF Serialize
    <2>2. data \in [1..CtSize(x) -> Cells(D)] /\ CtSize(x) \in Nat
      BY <1>3, <2>1 DEF Cells
    <2> HIDE DEF data
    <2> QED BY <2>1, <2>2, FunctionIsSeq
  <1> HIDE DEF data, n, D
  <1>5. ASSUME NEW p \in Nat PROVE rec_length(data, p) = 0
    <2> DEFINE c == p + HdrLen
               e == Least(p + c, Len(data))
               s == substr(data, p, c)
    <2>1. c \in Nat
      BY <1>3, <1>5
    <2>2. /\ e \in Nat /\ Len(s) = IF p + 1 <= e THEN e - p ELSE 0
          /\ \A i \in 1..(e - p) : s[i] = data[p + i]
      <3>1. e = Least(p + c, Len(data)) /\ s = substr(data, p, c)
        OBVIOUS
      <3> HIDE DEF c, e, s
      <3>2. /\ e \in Nat
            /\ Len(substr(data, p, c)) = IF p + 1 <= e THEN e - p ELSE 0
            /\ \A i \in 1..(e - p) : substr(data, p, c)[i] = data[p + i]
        <4>1. data \in Seq(Cells(D)) /\ p \in Nat
          BY <1>4, <1>5
        <4>2. e \in Nat
          BY <2>1, <3>1, <4>1, SubstrIs
        <4>3. Len(substr(data, p, c)) = IF p + 1 <= e THEN e - p ELSE 0
          BY <2>1, <3>1, <4>1, SubstrIs
        <4>4. ASSUME NEW i \in 1..(e - p)
              PROVE  substr(data, p, c)[i] = data[p + i]
          BY <2>1, <3>1, <4>1, SubstrCell
        <4> QED BY <4>2, <4>3, <4>4
      <3> QED BY <3>1, <3>2
    <2>3. e <= CtSize(x)
      BY <1>3, <1>4, <1>5, <2>1 DEF Least
    <2> HIDE DEF e, s, c
    <2>4. Len(s) \in Nat
      BY <1>5, <2>2
    <2>5. Len(s) >= 1 => s[1][1] # "digit"
      <3> SUFFICES ASSUME Len(s) >= 1 PROVE s[1][1] # "digit"
        OBVIOUS
      <3>1. 1 \in 1..(e - p) /\ p + 1 \in 1..CtSize(x)
        BY <1>3, <1>5, <2>2, <2>3
      <3>2. s[1] = data[p + 1]
        BY <2>2, <3>1
      <3>3. data[p + 1] = <<"ct", ct, CtSize(x)>> \/ data[p + 1] = <<"rest">>
        BY <1>4, <3>1
      <3> QED BY <3>2, <3>3
    <2>6. atoi(s) = 0
      BY <2>4, <2>5, AtoiNone
    <2>7. 0 % 8 = 0
      OBVIOUS
    <2> QED BY <2>6, <2>7 DEF rec_length, Mask, s, c
  <1>6. F[0] = 0
    <2> DEFINE W == [r \in 0..n |-> 2 * r]
    <2>1. \A r \in 0..n : W[r] = Step(W, r)
      <3> SUFFICES ASSUME NEW r \in 0..n PROVE W[r] = Step(W, r)
        OBVIOUS
      <3>1. CASE r = 0
        BY <3>1
      <3>2. CASE r # 0
        <4>1. r - 1 \in 0..n /\ W[r - 1] = 2 * (r - 1) /\ 2 * (r - 1) \in Nat
          BY <1>1, <3>2
        <4>2. rec_length(data, W[r - 1]) = 0
          BY <1>5, <4>1
        <4> QED BY <1>3, <3>2, <4>1, <4>2
      <3> QED BY <3>1, <3>2
    <2>2. Rec(W)
      BY <2>1
    <2>3. Rec(F)
      <3> HIDE DEF Rec, W
      <3> QED BY <2>2
    <2>4. \A r \in 0..n : F[r] = Step(F, r)
      <3> HIDE DEF F, Step
      <3> QED BY <2>3
    <2> HIDE DEF F
    <2> QED BY <1>1, <2>4
  <1> HIDE DEF F
  <1>7. ~LoadOk(piece(0))
    <2> DEFINE q == 2
               c == 2
               e == Least(q + c, Len(data))
               t == substr(data, q, c)
    <2>1. piece(0) = t
      BY <1>3, <1>5
    <2>2. e \in 3..7 /\ 1 \in 1..(e - q)
      BY <1>3, <1>4 DEF Least
    <2>3. t[1] = data[q + 1]
      <3>1. q \in Nat /\ c \in Nat /\ e = Least(q + c, Len(data))
            /\ t = substr(data, q, c) /\ 1 \in 1..(e - q)
        BY <2>2
      <3> HIDE DEF q, c, e, t, piece
      <3>2. data \in Seq(Cells(D))
        BY <1>4
      <3>3. ASSUME NEW i \in 1..(e - q) PROVE substr(data, q, c)[i] = data[q + i]
        BY <3>1, <3>2, SubstrCell
      <3> QED BY <3>1, <3>3
    <2>4. data[q + 1] = <<"rest">>
      <3>1. 3 \in 1..CtSize(x) /\ q + 1 = 3
        BY <1>3
      <3> QED BY <1>4, <3>1
    <2> HIDE DEF e, t
    <2>5. t[1][1] # "ct"
      BY <2>3, <2>4
    <2> QED BY <2>1, <2>5 DEF LoadOk
  <1>8. 1 \in 1..n /\ 1 - 1 = 0
    BY <1>1
  <1> HIDE DEF piece
  <1>9. 1 \in DOMAIN Cut(data, len) /\ Cut(data, len)[1] = piece(0)
    BY <1>2, <1>6, <1>8
  <1> QED BY <1>7, <1>9 DEF data

(* A vector block that was pickled is read back whole: it has one to four  *)
(* parts, and none of them is empty.                                       *)
LEMMA UnpicklePickle ==
  ASSUME NEW n \in 1..4, NEW D, NEW cts \in [1..n -> D]
  PROVE  Unpickle(Pickle(cts)) = cts
  <1> DEFINE t == Pickle(cts)
             K(k) == /\ \A i \in 1..k : t[i] # <<>>
                     /\ k = 4 \/ t[k + 1] = <<>>
             m == CHOOSE k \in 0..4 : K(k)
  <1>1. \A i \in 1..4 : t[i] = IF i \in 1..n THEN Serialize(cts[i], i) ELSE <<>>
    BY DEF Pickle
  <1>2. \A i \in 1..n : Serialize(cts[i], i) # <<>> /\ Load(Serialize(cts[i], i)) = cts[i]
    <2> SUFFICES ASSUME NEW i \in 1..n
                 PROVE  Serialize(cts[i], i) # <<>> /\ Load(Serialize(cts[i], i)) = cts[i]
      OBVIOUS
    <2> DEFINE z == Serialize(cts[i], i)
    <2>0. i \in Nat
      OBVIOUS
    <2>1. 1 \in 1..CtSize(i)
      <3>1. CtSize(i) \in 3..7
        BY <2>0, SizeIs
      <3> QED BY <3>1
    <2>2. DOMAIN z = 1..CtSize(i) /\ z[1] = <<"ct", cts[i], CtSize(i)>>
      BY <2>1 DEF Serialize
    <2>3. 1 \notin DOMAIN <<>>
      OBVIOUS
    <2> HIDE DEF z
    <2>4. z # <<>>
      BY <2>1, <2>2, <2>3
    <2>5. Load(z) = cts[i]
      BY <2>2 DEF Load
    <2> QED BY <2>4, <2>5 DEF z
  <1> HIDE DEF t
  <1>3. K(n) /\ n \in 0..4
    BY <1>1, <1>2
  <1>4. m \in 0..4 /\ K(m)
    <2> HIDE DEF K
    <2> QED BY <1>3
  <1> HIDE DEF m
  <1>5. m = n
    <2>1. CASE m < n
      <3>1. m + 1 \in 1..n /\ m + 1 \in 1..4 /\ m # 4
        BY <1>4, <2>1
      <3> QED BY <1>1, <1>2, <1>4, <3>1
    <2>2. CASE n < m
      <3>1. n + 1 \in 1..m /\ n + 1 \in 1..4 /\ n + 1 \notin 1..n
        BY <1>4, <2>2
      <3> QED BY <1>1, <1>4, <3>1
    <2> QED BY <1>4, <2>1, <2>2
  <1>6. Unpickle(t) = [i \in 1..m |-> Load(t[i])]
    BY DEF Unpickle, m
  <1>7. \A i \in 1..n : Load(t[i]) = cts[i]
    BY <1>1, <1>2
  <1> QED BY <1>5, <1>6, <1>7 DEF t

-----------------------------------------------------------------------------
(* The inductive invariant *)

(* Every key that is set up, in a file or in a run was generated.          *)
KeysMade ==
  /\ generated \subseteq Keys /\ setups \subseteq generated
  /\ {pub, priv} \subseteq generated \cup {Absent, Torn}
  /\ \A c \in Clis :
       /\ cli[c].sk \in generated \cup {NoKey}
       /\ cli[c].evk \in generated \cup {NoKey, Torn}
       /\ cli[c].pc \in {"load_pub", "load_priv"} =>
            {pub, priv} \subseteq generated \cup {Torn}

(* A public key is in a context because it was set up there.               *)
PartiesRight ==
  /\ secret_key \in [Parties -> Keys \cup {NoKey}]
  /\ \A p \in Parties :
       mvp_context[p] # NoContext => mvp_context[p].pk \in setups \cup {NoKey}

(* Nothing failed and no other key than k was ever set up, until now or    *)
(* until after the step.                                                   *)
Only(k)      == faults = 0 /\ setups \subseteq {k}
OnlyAfter(k) == faults' = 0 /\ setups' \subseteq {k}

(* What a step may do to the history.                                      *)
Grows == setups \subseteq setups' /\ (faults' = 0 => faults = 0)

SubVecs(c) == num_subvec(VecShape(block_len(c)))

(* The vector is encrypted under one key, and holds its parts as long as   *)
(* no other key was set up.                                                *)
VecKey == vec.blocks[1].cts[1].key

PartRight(ct, c, i) ==
  /\ ct = [key |-> VecKey, level |-> "key", body |-> ct.body]
  /\ Only(VecKey) => ct.body = {<<<<n, c>>, i>> : n \in vec.names}

VecRight ==
  /\ vec.names \subseteq {"v", "w"}
  /\ vec # NoVec =>
       /\ VecKey \in Keys
       /\ vec.blocks = [c \in 1..ncol_blks |-> vec.blocks[c]]
       /\ \A c \in 1..ncol_blks :
            /\ vec.blocks[c] =
                 [len |-> block_len(c),
                  cts |-> [i \in 1..SubVecs(c) |-> vec.blocks[c].cts[i]]]
            /\ \A i \in 1..SubVecs(c) : PartRight(vec.blocks[c].cts[i], c, i)

(* Each block of a product that is under way is that of its rows and       *)
(* columns, with the same proviso.                                         *)
RowOf(j) == ((j - 1) \div ncol_blks) + 1
ColOf(j) == ((j - 1) % ncol_blks) + 1

BlockTerms(r, c) ==
  {<<r, <<<<n, c>>, i>>>> : n \in vec.names, i \in 1..SubVecs(c)}

BlockRight(ct, j) ==
  /\ ct = [key |-> VecKey, level |-> "data", body |-> ct.body]
  /\ Only(VecKey) => ct.body = BlockTerms(RowOf(j), ColOf(j))

CallRight(p) ==
  LET b == call[p].blocks
  IN /\ call[p] = [rows |-> call[p].rows, blocks |-> b]
     /\ call[p].rows \in Rows \cup {0}
     /\ Len(b) \in Nat /\ b = [j \in 1..Len(b) |-> b[j]]
     /\ Len(b) <= nrow_blks(p) * ncol_blks
     /\ call[p] # Idle => call[p].rows # 0 /\ vec # NoVec
     /\ \A j \in 1..Len(b) : BlockRight(b[j], j)

CallsRight ==
  /\ call = [p \in Parties |-> call[p]]
  /\ \A p \in Parties : CallRight(p)

(* What UpdateVector and Decrypt read of a product is one ciphertext for   *)
(* each row block, with the same proviso the one it should be.             *)
Pieces ==
  [r \in 1..CeilDiv(prod.len, BLK_NROWS) |->
     Load(Cut(prod.data, prod.len)[r])]

PieceRight(ct, want) ==
  /\ ct = [key |-> prod.for, level |-> "data", body |-> ct.body]
  /\ Only(prod.for) => ct.body = want /\ Junk \notin want

ProdRight ==
  /\ prod = [data |-> prod.data, len |-> prod.len, kind |-> prod.kind,
             want |-> prod.want, for |-> prod.for]
  /\ prod.kind \in {"none", "matvec", "updated", "fma"}
  /\ prod.kind = "fma" =>
       prod.len \in Nat \ {0} /\ prod.data = Serialize(prod.data[1][2], 1)
  /\ prod.kind \in {"matvec", "updated"} =>
       /\ prod.for \in Keys
       /\ prod.len \in Nat \ {0}
       /\ prod.data = Merge(Pieces)
       /\ prod.want = [r \in DOMAIN Pieces |-> prod.want[r]]
       /\ \A r \in DOMAIN Pieces : PieceRight(Pieces[r], prod.want[r])

DInv == KeysMade /\ PartiesRight /\ VecRight /\ CallsRight /\ ProdRight

SInv == CInv /\ DInv

-----------------------------------------------------------------------------
(* Blocks of vectors and products *)

(* A pair is not Junk.                                                     *)
LEMMA JunkApart == ASSUME NEW a, NEW b PROVE <<a, b>> # Junk
  BY DEF Junk

(* The column blocks: at least one, each of a width that a vector may have *)
(* and that takes one to four ciphertexts.                                 *)
LEMMA ColumnsFit ==
  /\ ncol_blks \in Nat \ {0}
  /\ \A c \in 1..ncol_blks : /\ block_len(c) \in Nat \ {0}
                             /\ block_len(c) <= kMaxNumCols
                             /\ SubVecs(c) \in 1..4
  <1> DEFINE B == BLK_NCOLS
             R == CeilDiv(VecLen, B)
  <1>1. VecLen \in Nat /\ VecLen >= 1 /\ B \in Nat /\ B >= 1 /\ B <= 4 * N /\ N \in Nat
    BY SessionAssumption, SizesFit
  <1>2. R \in Nat /\ VecLen <= R * B /\ R * B < VecLen + B /\ R * B \in Nat
    <2>1. R \in Nat /\ VecLen <= R * B /\ R * B < VecLen + B
      BY <1>1, CeilDivOf
    <2> HIDE DEF R
    <2> QED BY <1>1, <2>1
  <1>3. R # 0
    <2>1. R = 0 => R * B = 0
      BY <1>1
    <2> HIDE DEF R
    <2> QED BY <1>1, <1>2, <2>1
  <1>4. ncol_blks = R
    BY DEF ncol_blks
  <1> HIDE DEF R
  <1>5. ASSUME NEW c \in 1..R
        PROVE  /\ block_len(c) \in Nat \ {0} /\ block_len(c) <= kMaxNumCols
               /\ SubVecs(c) \in 1..4
    <2> DEFINE i == (c - 1) * B
               s == VecShape(block_len(c))
    <2>1. c - 1 \in Nat /\ c - 1 < R
      BY <1>2
    <2>2. i \in Nat /\ i + B <= R * B
      BY <1>1, <1>2, <2>1, Multiples
    <2>3. i < VecLen
      <3> HIDE DEF i
      <3> QED BY <1>1, <1>2, <2>2
    <2>4. ColDims(VecLen, i) \in 1..B
      <3> HIDE DEF i
      <3> QED BY <1>1, <2>2, <2>3, ColDimsFit
    <2>5. block_len(c) \in 1..B
      BY <2>4 DEF block_len
    <2>6. block_len(c) \in Nat \ {0} /\ block_len(c) <= 4 * N
      BY <1>1, <2>5
    <2>7. N >= 4
      <3>1. PICK k \in 2..12 : N = 2^k
        BY DegreeAssumption
      <3>2. 2^2 <= 2^k
        <4>1. k \in Nat /\ 2 \in Nat /\ 2 <= k
          OBVIOUS
        <4> QED BY <4>1, PowersGrow
      <3>3. 2^2 = 4
        OBVIOUS
      <3> QED BY <3>1, <3>2, <3>3
    <2>8. GoodShape(s, N)
      <3>1. s.nrows = 1 /\ s.ncols = block_len(c)
        BY DEF VecShape
      <3>0. s \in [nrows : Nat, ncols : Nat]
        BY <2>6 DEF VecShape
      <3>2. s.ncols * s.nrows = block_len(c)
        BY <2>6, <3>1
      <3>3. 4 * N < 3 * N * N
        <4>1. N * N >= 4 * N /\ N * N \in Nat
          BY <1>1, <2>7
        <4>2. 3 * N * N = 3 * (N * N)
          BY <1>1
        <4> QED BY <1>1, <2>7, <4>1, <4>2
      <3>4. 3 * N * N \in Nat
        BY <1>1
      <3> HIDE DEF s
      <3>5. s.ncols * s.nrows < 3 * N * N
        BY <1>1, <2>6, <3>2, <3>3, <3>4
      <3>6. s.nrows \in Nat /\ s.ncols \in Nat /\ s.nrows # 0 /\ s.ncols # 0
            /\ s.nrows <= N /\ s.ncols <= 4 * N
        BY <1>1, <2>6, <2>7, <3>1
      <3> QED BY <3>0, <3>5, <3>6
              DEF GoodShape, public_config_ok, kMaxNumRows, kMaxNumCols
    <2>9. SubVecs(c) = CeilDiv(s.ncols, GetSubmatrixShape(s, N).cols)
      BY DEF SubVecs, num_subvec
    <2> HIDE DEF s
    <2>10. CeilDiv(s.ncols, GetSubmatrixShape(s, N).cols) \in 1..4
      BY <2>8, DegreeRight, SubmatrixFillsPolynomial
    <2> QED BY <2>6, <2>9, <2>10 DEF kMaxNumCols
  <1> QED BY <1>2, <1>3, <1>4, <1>5

(* A block of a vector that went through pickling is the one it was.       *)
LEMMA ReceivedIs ==
  ASSUME VecRight, vec # NoVec PROVE Received = vec.blocks
  <1>1. DOMAIN vec.blocks = 1..ncol_blks
    BY DEF VecRight
  <1>2. ASSUME NEW c \in 1..ncol_blks
        PROVE  [vec.blocks[c] EXCEPT !.cts = Unpickle(Pickle(@))] = vec.blocks[c]
    <2> DEFINE b == vec.blocks[c]
               f == [i \in 1..SubVecs(c) |-> b.cts[i]]
               D == {b.cts[i] : i \in 1..SubVecs(c)}
    <2>1. b = [len |-> block_len(c), cts |-> f]
      BY DEF VecRight
    <2>2. f \in [1..SubVecs(c) -> D] /\ SubVecs(c) \in 1..4
      BY ColumnsFit
    <2> HIDE DEF b, f, D
    <2>3. Unpickle(Pickle(f)) = f
      BY <2>2, UnpicklePickle
    <2> QED BY <2>1, <2>3 DEF b
  <1>3. vec.blocks = [c \in 1..ncol_blks |-> vec.blocks[c]]
    BY DEF VecRight
  <1> QED BY <1>1, <1>2, <1>3 DEF Received

(* Where a block of a product is in the list of them.                      *)
LEMMA BlockPlace ==
  ASSUME NEW R \in Nat, NEW r \in 1..R, NEW c \in 1..ncol_blks
  PROVE  LET j == (r - 1) * ncol_blks + c
         IN j \in 1..(R * ncol_blks) /\ RowOf(j) = r /\ ColOf(j) = c
  <1> DEFINE S == ncol_blks
             j == (r - 1) * S + c
  <1>1. S \in Nat /\ S >= 1
    BY ColumnsFit
  <1> HIDE DEF S
  <1>2. r \in Nat /\ r >= 1 /\ r <= R /\ c \in 1..S
    BY DEF S
  <1>3. j \in 1..(R * S) /\ (j - 1) \div S = r - 1 /\ (j - 1) % S = c - 1
    BY <1>1, <1>2, CellPlace
  <1>4. (r - 1) + 1 = r /\ (c - 1) + 1 = c
    BY <1>1, <1>2
  <1> QED BY <1>3, <1>4 DEF RowOf, ColOf, S

(* A sum changes the body; under one key it is the union, but for junk.    *)
LEMMA SumIs ==
  ASSUME NEW k, NEW l, NEW b, NEW terms, NEW key, NEW ct,
         ct = [key |-> k, level |-> l, body |-> b]
  PROVE  /\ Sum(ct, key, terms) =
              [key |-> k, level |-> l, body |-> Sum(ct, key, terms).body]
         /\ key = k /\ Junk \notin b \cup terms =>
              Sum(ct, key, terms).body = b \cup terms
         /\ Junk \in b \cup terms => Sum(ct, key, terms).body = {Junk}
  <1>1. Sum(ct, key, terms) =
          [key |-> k, level |-> l,
           body |-> IF k # key \/ Junk \in b \cup terms THEN {Junk} ELSE b \cup terms]
    BY DEF Sum
  <1> QED BY <1>1

(* The sum of the column blocks of row block r has all its terms.          *)
LEMMA RowSumIs ==
  ASSUME NEW p \in Parties, CallRight(p), NEW R \in Nat,
         Len(call[p].blocks) = R * ncol_blks, NEW r \in 1..R
  PROVE  /\ RowSum(p, r) = [key |-> VecKey, level |-> "data",
                            body |-> RowSum(p, r).body]
         /\ Only(VecKey) => /\ RowSum(p, r).body = Wanted(r, vec.names)
                            /\ Junk \notin Wanted(r, vec.names)
  <1> DEFINE b == call[p].blocks
             C == ncol_blks
             at(c) == b[(r - 1) * C + c]
             U(c) == UNION {at(i).body : i \in 1..c}
             body(c) == IF Junk \in U(c) THEN {Junk} ELSE U(c)
             made(c) == [key |-> VecKey, level |-> "data", body |-> body(c)]
             W == [c \in 1..C |-> IF c = 1 THEN at(1) ELSE made(c)]
             Step(f, c) == IF c = 1 THEN at(1) ELSE AddMatVec(f[c - 1], at(c))
             Rec(f) == f = [c \in 1..C |-> Step(f, c)]
             F == CHOOSE f : Rec(f)
  <1>1. C \in Nat /\ C >= 1 /\ 1 \in 1..C /\ C \in 1..C
    BY ColumnsFit
  <1>2. RowSum(p, r) = F[C]
    BY DEF RowSum
  <1>3. ASSUME NEW c \in 1..C
        PROVE  /\ at(c) = [key |-> VecKey, level |-> "data", body |-> at(c).body]
               /\ Only(VecKey) => at(c).body = BlockTerms(r, c)
    <2> DEFINE j == (r - 1) * C + c
    <2>1. j \in 1..(R * C) /\ RowOf(j) = r /\ ColOf(j) = c
      BY BlockPlace
    <2>2. BlockRight(b[j], j)
      <3> HIDE DEF j
      <3> QED BY <2>1 DEF CallRight
    <2> HIDE DEF b, C
    <2> QED BY <2>1, <2>2 DEF BlockRight
  <1> HIDE DEF at, C, F
  <1>4. ASSUME NEW c \in 1..C, c # 1
        PROVE  /\ c - 1 \in 1..C
               /\ U(c) = U(c - 1) \cup at(c).body
    <2>1. c - 1 \in 1..C /\ \A i : i \in 1..c <=> i \in 1..(c - 1) \/ i = c
      BY <1>1, <1>4
    <2> QED BY <2>1
  <1>5. U(1) = at(1).body
    <2>1. \A i : i \in 1..1 <=> i = 1
      OBVIOUS
    <2> QED BY <2>1
  <1> HIDE DEF U
  <1>6. ASSUME NEW c \in 1..C, c # 1
        PROVE  \A f : f = W[c - 1] => AddMatVec(f, at(c)) = made(c)
    <2> SUFFICES ASSUME NEW f, f = W[c - 1] PROVE AddMatVec(f, at(c)) = made(c)
      OBVIOUS
    <2>1. f = [key |-> VecKey, level |-> "data", body |-> f.body]
          /\ (Junk \in f.body <=> Junk \in U(c - 1))
          /\ (Junk \notin U(c - 1) => f.body = U(c - 1))
      <3>1. CASE c - 1 = 1
        BY <1>3, <1>4, <1>5, <1>6, <3>1
      <3>2. CASE c - 1 # 1
        <4>1. f = made(c - 1)
          BY <1>4, <1>6, <3>2
        <4>2. /\ Junk \in body(c - 1) <=> Junk \in U(c - 1)
              /\ Junk \notin U(c - 1) => body(c - 1) = U(c - 1)
          OBVIOUS
        <4> HIDE DEF body, W
        <4>3. made(c - 1).body = body(c - 1)
          OBVIOUS
        <4>4. made(c - 1) = [key |-> VecKey, level |-> "data", body |-> body(c - 1)]
          OBVIOUS
        <4> HIDE DEF made
        <4> QED BY <4>1, <4>2, <4>3, <4>4
      <3> QED BY <3>1, <3>2
    <2> HIDE DEF W
    <2>2. at(c) = [key |-> VecKey, level |-> "data", body |-> at(c).body]
      BY <1>3
    <2> DEFINE t == at(c).body
               g == Sum(f, VecKey, t)
    <2>3. AddMatVec(f, at(c)) = g
      BY <2>2 DEF AddMatVec
    <2>4. /\ g = [key |-> VecKey, level |-> "data", body |-> g.body]
          /\ Junk \notin f.body \cup t => g.body = f.body \cup t
          /\ Junk \in f.body \cup t => g.body = {Junk}
      <3> DEFINE h == f.body
      <3>1. f = [key |-> VecKey, level |-> "data", body |-> h]
        BY <2>1
      <3> HIDE DEF h, t
      <3>2. /\ g = [key |-> VecKey, level |-> "data", body |-> g.body]
            /\ Junk \notin h \cup t => g.body = h \cup t
            /\ Junk \in h \cup t => g.body = {Junk}
        BY <3>1, SumIs
      <3> QED BY <3>2 DEF h
    <2>5. U(c) = U(c - 1) \cup t
      BY <1>4, <1>6
    <2> HIDE DEF g, t
    <2>6. g.body = body(c)
      BY <2>1, <2>4, <2>5
    <2> QED BY <2>3, <2>4, <2>6
  <1>7. \A c \in 1..C : W[c] = Step(W, c)
    <2> SUFFICES ASSUME NEW c \in 1..C PROVE W[c] = Step(W, c)
      OBVIOUS
    <2>1. CASE c = 1
      BY <2>1
    <2>2. CASE c # 1
      <3>1. AddMatVec(W[c - 1], at(c)) = made(c)
        BY <1>6, <2>2
      <3>2. W[c] = made(c)
        BY <2>2
      <3> HIDE DEF W, made
      <3> QED BY <2>2, <3>1, <3>2
    <2> QED BY <2>1, <2>2
  <1>8. Rec(W)
    BY <1>7
  <1>9. Rec(F)
    <2> HIDE DEF Rec, W
    <2> QED BY <1>8 DEF F
  <1>10. \A c \in 1..C : F[c] = Step(F, c)
    <2> HIDE DEF Step
    <2> QED BY <1>9
  <1>11. F[C] = W[C]
    <2> HIDE DEF W
    <2> DEFINE G == {c \in 1..C : F[c] = W[c]}
    <2>1. 1 \in G
      BY <1>1, <1>7, <1>10
    <2>2. \A c \in 1..C : c # 1 /\ c - 1 \in G => c \in G
      BY <1>7, <1>10
    <2>3. 1..C \subseteq G /\ 1 \in Nat
      <3> HIDE DEF G
      <3> QED BY <1>1, <2>1, <2>2, Climb
    <2> QED BY <1>1, <2>3
  <1>12. /\ F[C] = [key |-> VecKey, level |-> "data", body |-> F[C].body]
         /\ Junk \notin U(C) => F[C].body = U(C)
    <2>1. CASE C = 1
      BY <1>1, <1>3, <1>5, <1>11, <2>1
    <2>2. CASE C # 1
      <3>1. F[C] = made(C)
        BY <1>1, <1>11, <2>2
      <3>2. Junk \notin U(C) => body(C) = U(C)
        OBVIOUS
      <3> HIDE DEF body
      <3> QED BY <3>1, <3>2
    <2> QED BY <2>1, <2>2
  <1>13. ASSUME Only(VecKey) PROVE U(C) = Wanted(r, vec.names) /\ Junk \notin U(C)
    <2>1. \A c \in 1..C : at(c).body = BlockTerms(r, c)
      BY <1>3, <1>13
    <2>2. U(C) = UNION {BlockTerms(r, c) : c \in 1..C}
      BY <2>1 DEF U
    <2>3. Wanted(r, vec.names) = UNION {BlockTerms(r, c) : c \in 1..C}
      BY DEF Wanted, BlockTerms, SubVecs, C
    <2>4. ASSUME NEW c \in 1..C PROVE Junk \notin BlockTerms(r, c)
      BY JunkApart DEF BlockTerms
    <2> QED BY <2>2, <2>3, <2>4
  <1> QED BY <1>2, <1>12, <1>13

(* What a string of records holds is read from it.                         *)
LEMMA PiecesAre ==
  ASSUME NEW len \in Nat, len >= 1, NEW n, n = CeilDiv(len, BLK_NROWS),
         NEW f, f = [r \in 1..n |-> f[r]]
  PROVE  Reads(Cut(Merge(f), len), f)
  <1> DEFINE D == {f[r] : r \in 1..n}
  <1>1. f \in [1..n -> D]
    OBVIOUS
  <1> HIDE DEF D
  <1> QED BY <1>1, CutMerge

(* ... as a function of the row blocks.                                    *)
LEMMA ReadBack ==
  ASSUME NEW n, NEW f, f = [r \in 1..n |-> f[r]], NEW d, Reads(d, f)
  PROVE  [r \in 1..n |-> Load(d[r])] = f
  <1>1. DOMAIN f = 1..n
    OBVIOUS
  <1>2. \A r \in 1..n : Load(d[r]) = f[r]
    BY <1>1 DEF Reads
  <1> QED BY <1>2

-----------------------------------------------------------------------------
(* Keys *)

(* A step of run c keeps KeysMade if what it has read, and what it writes, *)
(* was generated.                                                          *)
LEMMA RunKeys ==
  ASSUME KeysMade, NEW c \in Clis, NEW r, cli'[c] = r,
         \A d \in Clis \ {c} : /\ cli'[d].sk = cli[d].sk
                               /\ cli'[d].evk = cli[d].evk
                               /\ cli'[d].pc = cli[d].pc,
         r.sk \in generated' \cup {NoKey},
         r.evk \in generated' \cup {NoKey, Torn},
         r.pc \in {"load_pub", "load_priv"} =>
           {pub, priv}' \subseteq generated' \cup {Torn},
         generated \subseteq generated', generated' \subseteq Keys,
         setups' \subseteq generated',
         pub' \in {pub, Torn} \cup generated, priv' \in {priv, Torn} \cup generated
  PROVE  KeysMade'
  <1>1. ASSUME NEW d \in Clis
        PROVE  /\ cli'[d].sk \in generated' \cup {NoKey}
               /\ cli'[d].evk \in generated' \cup {NoKey, Torn}
               /\ cli'[d].pc \in {"load_pub", "load_priv"} =>
                    {pub, priv}' \subseteq generated' \cup {Torn}
    <2>1. CASE d = c
      BY <2>1
    <2>2. CASE d # c
      BY <2>2 DEF KeysMade
    <2> QED BY <2>1, <2>2
  <1>2. {pub, priv}' \subseteq generated' \cup {Absent, Torn}
    BY DEF KeysMade
  <1> QED BY <1>1, <1>2 DEF KeysMade

(* ... if it changes no other run.                                         *)
LEMMA OneRunKeys ==
  ASSUME CInv, KeysMade, NEW c \in Clis, NEW r, cli' = [cli EXCEPT ![c] = r],
         r.sk \in generated \cup {NoKey},
         r.evk \in generated \cup {NoKey, Torn},
         r.pc \in {"load_pub", "load_priv"} =>
           {pub, priv}' \subseteq generated \cup {Torn},
         UNCHANGED generated,
         setups' \subseteq generated,
         pub' \in {pub, Torn} \cup generated, priv' \in {priv, Torn} \cup generated
  PROVE  KeysMade'
  <1>1. cli'[c] = r /\ \A d \in Clis \ {c} : cli'[d] = cli[d]
    BY DEF CInv, IInv, CliShape
  <1>2. \A d \in Clis \ {c} : /\ cli'[d].sk = cli[d].sk
                              /\ cli'[d].evk = cli[d].evk
                              /\ cli'[d].pc = cli[d].pc
    BY <1>1
  <1>3. generated \subseteq generated' /\ generated' \subseteq Keys
        /\ r.sk \in generated' \cup {NoKey}
        /\ r.evk \in generated' \cup {NoKey, Torn}
        /\ setups' \subseteq generated'
        /\ (r.pc \in {"load_pub", "load_priv"} =>
             {pub, priv}' \subseteq generated' \cup {Torn})
    BY DEF KeysMade
  <1> QED BY <1>1, <1>2, <1>3, RunKeys

(* NoRun has no keys.                                                      *)
LEMMA EndedKeys ==
  ASSUME CInv, KeysMade, NEW c \in Clis, Ended(c), UNCHANGED generated,
         setups' \subseteq generated,
         pub' \in {pub, Torn} \cup generated, priv' \in {priv, Torn} \cup generated
  PROVE  KeysMade'
  <1>1. cli' = [cli EXCEPT ![c] = NoRun]
    BY DEF Ended
  <1>2. NoRun.sk = NoKey /\ NoRun.evk = NoKey
        /\ NoRun.pc \notin {"load_pub", "load_priv"}
    BY DEF NoRun
  <1> HIDE DEF NoRun
  <1> QED BY <1>1, <1>2, OneRunKeys

(* ... and it may go on with the keys it has.                              *)
LEMMA GoesKeys ==
  ASSUME CInv, KeysMade, NEW c \in Clis, NEW pc, Goes(c, pc),
         pc \notin {"load_pub", "load_priv"}, UNCHANGED generated,
         setups' \subseteq generated,
         pub' \in {pub, Torn} \cup generated, priv' \in {priv, Torn} \cup generated
  PROVE  KeysMade'
  <1> DEFINE r == [cli[c] EXCEPT !.pc = pc]
  <1>1. cli' = [cli EXCEPT ![c] = r]
    BY DEF Goes
  <1>2. r.sk = cli[c].sk /\ r.evk = cli[c].evk /\ r.pc = pc
    BY DEF CInv, IInv, CliShape, IsRun
  <1>3. r.sk \in generated \cup {NoKey} /\ r.evk \in generated \cup {NoKey, Torn}
    BY <1>2 DEF KeysMade
  <1> HIDE DEF r
  <1> QED BY <1>1, <1>2, <1>3, OneRunKeys

(* A run begins.                                                           *)
LEMMA BegunKeys ==
  ASSUME CInv, KeysMade, NEW c \in Clis, NEW k, NEW pc,
         NEW r, cli' = Begun(c, r), IsRun(r),
         r.pc = pc, r.sk = k, r.evk = NoKey,
         k \in generated' \cup {NoKey},
         pc \in {"load_pub", "load_priv"} =>
           {pub, priv}' \subseteq generated' \cup {Torn},
         generated \subseteq generated', generated' \subseteq Keys,
         UNCHANGED <<setups, pub>>, priv' \in {priv, Torn}
  PROVE  KeysMade'
  <1>1. cli'[c].pc = pc /\ cli'[c].sk = k /\ cli'[c].evk = NoKey
    BY DEF Begun, IsRun
  <1>2. ASSUME NEW d \in Clis \ {c}
        PROVE  /\ cli'[d].sk = cli[d].sk /\ cli'[d].evk = cli[d].evk
               /\ cli'[d].pc = cli[d].pc
    <2>1. cli'[d] = [cli[d] EXCEPT !.solo = FALSE]
      BY DEF Begun
    <2>2. IsRun(cli[d])
      BY DEF CInv, IInv, CliShape
    <2> QED BY <2>1, <2>2 DEF IsRun
  <1>3. setups' \subseteq generated'
        /\ cli'[c].sk \in generated' \cup {NoKey}
        /\ cli'[c].evk \in generated' \cup {NoKey, Torn}
    BY <1>1 DEF KeysMade
  <1> QED BY <1>1, <1>2, <1>3, RunKeys

(* A writer has a key that was generated.                                  *)
LEMMA WritesMade ==
  ASSUME CInv, KeysMade, NEW c \in Clis, cli[c].pc \in GenPcs
  PROVE  Written(c) \subseteq generated \cup {Torn}
  <1>1. cli[c].sk \in generated
    BY KeysAssumption DEF KeysMade, CInv, IInv, WritersRight
  <1> QED BY <1>1 DEF Written

(* Every step of a run keeps KeysMade.                                     *)
LEMMA CliKeys ==
  ASSUME CInv, KeysMade, NEW c \in Clis, CliNext(c) PROVE KeysMade'
  <1>0. /\ setups \subseteq generated /\ generated \subseteq Keys
        /\ cli[c].sk \in generated \cup {NoKey}
        /\ cli[c].evk \in generated \cup {NoKey, Torn}
        /\ IsRun(cli[c])
    BY DEF KeysMade, CInv, IInv, CliShape
  <1>1. CASE Gen(c)
    <2>1. PICK k \in Fresh :
            /\ generated' = generated \cup {k}
            /\ cli' = Begun(c, [NoRun EXCEPT !.pc = "save_priv", !.sk = k])
      BY <1>1 DEF Gen
    <2> DEFINE r == [NoRun EXCEPT !.pc = "save_priv", !.sk = k]
    <2>2. cli' = Begun(c, r) /\ IsRun(r) /\ r.pc = "save_priv" /\ r.sk = k
          /\ r.evk = NoKey
      BY <2>1 DEF NoRun, IsRun
    <2>3. k \in generated' \cup {NoKey} /\ generated \subseteq generated'
          /\ generated' \subseteq Keys
      BY <1>0, <2>1 DEF Fresh
    <2>4. UNCHANGED <<setups, pub>> /\ priv' \in {priv, Torn}
      BY <1>1 DEF Gen
    <2>5. "save_priv" \notin {"load_pub", "load_priv"}
      OBVIOUS
    <2> HIDE DEF r
    <2> QED BY <2>2, <2>3, <2>4, <2>5, BegunKeys
  <1>2. CASE SavePriv(c)
    <2> DEFINE m == [cli[c] EXCEPT !.pc = "open_pub", !.solo = FALSE]
    <2>1. /\ cli[c].pc \in GenPcs /\ "open_pub" \notin {"load_pub", "load_priv"}
          /\ UNCHANGED <<generated, setups, pub>>
          /\ priv' \in Written(c) \cup {Torn}
          /\ Goes(c, "open_pub") \/ cli' = [cli EXCEPT ![c] = m]
      BY <1>2 DEF SavePriv, At, GenPcs, machine
    <2>2. priv' \in {priv, Torn} \cup generated
      BY <2>1, WritesMade
    <2>3. CASE Goes(c, "open_pub")
      BY <1>0, <2>1, <2>2, <2>3, GoesKeys
    <2>4. CASE cli' = [cli EXCEPT ![c] = m]
      <3>1. m.sk = cli[c].sk /\ m.evk = cli[c].evk /\ m.pc = "open_pub"
        BY <1>0 DEF IsRun
      <3> HIDE DEF m
      <3> QED BY <1>0, <2>1, <2>2, <2>4, <3>1, OneRunKeys
    <2> QED BY <2>1, <2>3, <2>4
  <1>3. CASE OpenPub(c)
    <2>1. /\ "save_pub" \notin {"load_pub", "load_priv"} /\ Goes(c, "save_pub")
          /\ UNCHANGED <<generated, setups, priv>> /\ pub' = Torn
      BY <1>3 DEF OpenPub, machine
    <2> QED BY <1>0, <2>1, GoesKeys
  <1>4. CASE SavePub(c)
    <2>1. /\ cli[c].pc \in GenPcs /\ Ended(c)
          /\ UNCHANGED <<generated, setups, priv>>
          /\ pub' \in Written(c) \cup {Torn}
      BY <1>4 DEF SavePub, At, GenPcs, machine
    <2>2. pub' \in {pub, Torn} \cup generated
      BY <2>1, WritesMade
    <2> QED BY <1>0, <2>1, <2>2, EndedKeys
  <1>5. CASE OpenKeys(c)
    <2> DEFINE r == [NoRun EXCEPT !.pc = "load_pub"]
    <2>1. cli' = Begun(c, r) /\ IsRun(r) /\ r.pc = "load_pub" /\ r.sk = NoKey
          /\ r.evk = NoKey
      BY <1>5 DEF OpenKeys, NoRun, IsRun
    <2>2. UNCHANGED <<setups, generated, pub, priv>>
      BY <1>5 DEF OpenKeys, machine
    <2>3. {pub, priv}' \subseteq generated' \cup {Torn}
      BY <1>5, <2>2 DEF OpenKeys, KeysMade
    <2> HIDE DEF r
    <2> QED BY <1>0, <2>1, <2>2, <2>3, BegunKeys
  <1>6. CASE LoadPub(c)
    <2> DEFINE r == [cli[c] EXCEPT !.pc = "load_priv", !.evk = pub]
    <2>1. /\ UNCHANGED <<setups, generated, pub, priv>> /\ cli[c].pc = "load_pub"
          /\ Ended(c) \/ cli' = [cli EXCEPT ![c] = r]
      BY <1>6 DEF LoadPub, machine, At
    <2>2. {pub, priv} \subseteq generated \cup {Torn}
      BY <2>1 DEF KeysMade
    <2>3. r.sk = cli[c].sk /\ r.evk = pub
      BY <1>0 DEF IsRun
    <2> HIDE DEF r
    <2>4. CASE Ended(c)
      BY <1>0, <2>1, <2>4, EndedKeys
    <2>5. CASE cli' = [cli EXCEPT ![c] = r]
      BY <1>0, <2>1, <2>2, <2>3, <2>5, OneRunKeys
    <2> QED BY <2>1, <2>4, <2>5
  <1>7. CASE LoadPriv(c)
    <2> DEFINE r == [cli[c] EXCEPT !.pc = "setup", !.sk = priv]
    <2>1. /\ UNCHANGED <<setups, generated, pub, priv>> /\ cli[c].pc = "load_priv"
          /\ Ended(c) \/ (priv # Torn /\ cli' = [cli EXCEPT ![c] = r])
      BY <1>7 DEF LoadPriv, machine, At
    <2>2. {pub, priv} \subseteq generated \cup {Torn}
      BY <2>1 DEF KeysMade
    <2>3. r.sk = priv /\ r.evk = cli[c].evk
      BY <1>0 DEF IsRun
    <2> HIDE DEF r
    <2>4. CASE Ended(c)
      BY <1>0, <2>1, <2>4, EndedKeys
    <2>5. CASE priv # Torn /\ cli' = [cli EXCEPT ![c] = r]
      BY <1>0, <2>1, <2>2, <2>3, <2>5, OneRunKeys
    <2> QED BY <2>1, <2>4, <2>5
  <1>8. ASSUME NEW f \in SetupFaults \cup {"none"}, CliSetup(c, f)
        PROVE  KeysMade'
    <2>1. /\ setups' = IF f = "decode" THEN setups ELSE setups \cup {cli[c].evk}
          /\ f # "decode" => cli[c].evk \in Keys
          /\ UNCHANGED <<generated, priv, pub>>
          /\ Goes(c, "init") \/ Ended(c)
      BY <1>8 DEF CliSetup, SetupGoes, decodes
    <2>2. setups' \subseteq generated
      BY <1>0, <2>1, KeysAssumption, FilesAssumption
    <2>3. "init" \notin {"load_pub", "load_priv"}
      OBVIOUS
    <2>4. CASE Goes(c, "init")
      BY <2>1, <2>2, <2>3, <2>4, GoesKeys
    <2>5. CASE Ended(c)
      BY <2>1, <2>2, <2>5, EndedKeys
    <2> QED BY <2>1, <2>4, <2>5
  <1>9. ASSUME NEW k \in Keys, NEW s \in CliShapes, CliMultiply(c, k, s)
        PROVE  KeysMade'
    <2> DEFINE out == <<MatVec(Encrypt(k, s, <<"v", 1>>), {}, 1), s>>
               r == [cli[c] EXCEPT !.pc = "save", !.out = out]
    <2>1. UNCHANGED <<setups, generated, pub, priv>>
          /\ (cli' = [cli EXCEPT ![c] = r] \/ Ended(c))
      BY <1>9 DEF CliMultiply, machine
    <2> HIDE DEF out
    <2>2. r.sk = cli[c].sk /\ r.evk = cli[c].evk /\ r.pc = "save"
      BY <1>0 DEF IsRun
    <2> HIDE DEF r
    <2>3. CASE cli' = [cli EXCEPT ![c] = r]
      BY <1>0, <2>1, <2>2, <2>3, OneRunKeys
    <2>4. CASE Ended(c)
      BY <1>0, <2>1, <2>4, EndedKeys
    <2> QED BY <2>1, <2>3, <2>4
  <1>10. CASE CliSave(c) \/ CliStops(c)
    <2>1. UNCHANGED <<setups, generated, pub, priv>> /\ Ended(c)
      BY <1>10 DEF CliSave, CliStops, machine
    <2> QED BY <1>0, <2>1, EndedKeys
  <1>11. CASE CliInit(c)
    <2>1. UNCHANGED <<setups, generated, cliVars>>
      BY <1>11 DEF CliInit, KernelUpload, KernelStart
    <2> QED BY <2>1 DEF KeysMade, cliVars
  <1>12. CASE CliReturns(c)
    <2>1. UNCHANGED <<setups, generated, pub, priv>> /\ Goes(c, "multiply")
      BY <1>12 DEF CliReturns, KernelPost
    <2>2. "multiply" \notin {"load_pub", "load_priv"}
      OBVIOUS
    <2> QED BY <1>0, <2>1, <2>2, GoesKeys
  <1> QED BY <1>1, <1>2, <1>3, <1>4, <1>5, <1>6, <1>7, <1>8, <1>9, <1>10,
             <1>11, <1>12 DEF CliNext

(* The steps of KernelInit: no key is set up, and a failure is not         *)
(* forgotten.                                                              *)
LEMMA KernelGrows ==
  ASSUME CInv, NEW q, NEW k, KernelUpload(q, k) \/ KernelStart(q) \/ KernelPost(q)
  PROVE  Grows /\ UNCHANGED <<generated, setups>>
  <1>1. UNCHANGED <<generated, setups>>
    BY DEF KernelUpload, KernelStart, KernelPost
  <1>2. faults' = faults \/ \E K : Fault(K)
    BY DEF KernelUpload, KernelStart, KernelPost
  <1>3. faults' = 0 => faults = 0
    BY <1>2, FaultShows DEF CInv
  <1> QED BY <1>1, <1>3 DEF Grows

(* The history only grows in a run.                                        *)
LEMMA CliGrows == ASSUME CInv, NEW c \in Clis, CliNext(c) PROVE Grows
  <1>1. CASE CliInit(c) \/ CliReturns(c)
    BY <1>1, KernelGrows DEF CliInit, CliReturns
  <1>2. ASSUME NEW f, CliSetup(c, f) PROVE Grows
    BY <1>2 DEF CliSetup, Grows
  <1>3. ASSUME NEW k, NEW s, CliMultiply(c, k, s) PROVE Grows
    BY <1>3 DEF CliMultiply, Grows, machine, card
  <1>4. Gen(c) \/ SavePriv(c) \/ OpenPub(c) \/ SavePub(c) => Grows
    BY DEF Gen, SavePriv, OpenPub, SavePub, Grows, machine, card
  <1>5. OpenKeys(c) \/ LoadPub(c) \/ LoadPriv(c) => Grows
    BY DEF OpenKeys, LoadPub, LoadPriv, Grows, machine, card
  <1>6. CliSave(c) \/ CliStops(c) => Grows
    BY DEF CliSave, CliStops, Grows, machine, card
  <1> QED BY <1>1, <1>2, <1>3, <1>4, <1>5, <1>6 DEF CliNext

-----------------------------------------------------------------------------
(* What stays *)

(* The vector stays right when other keys are set up.                      *)
LEMMA VecStays ==
  ASSUME VecRight, UNCHANGED vec, Grows PROVE VecRight'
  <1>1. VecKey' = VecKey
    BY DEF VecKey
  <1>2. Only(VecKey)' => Only(VecKey)
    BY <1>1 DEF Only, Grows
  <1>3. ASSUME NEW ct, NEW c, NEW i, PartRight(ct, c, i) PROVE PartRight(ct, c, i)'
    BY <1>1, <1>2, <1>3 DEF PartRight
  <1>4. CASE vec = NoVec
    BY <1>4 DEF VecRight
  <1>5. CASE vec # NoVec
    <2>1. /\ vec.names \subseteq {"v", "w"} /\ VecKey \in Keys
          /\ vec.blocks = [c \in 1..ncol_blks |-> vec.blocks[c]]
      BY <1>5 DEF VecRight
    <2>2. ASSUME NEW c \in 1..ncol_blks
          PROVE  /\ vec.blocks[c] =
                      [len |-> block_len(c),
                       cts |-> [i \in 1..SubVecs(c) |-> vec.blocks[c].cts[i]]]
                 /\ \A i \in 1..SubVecs(c) : PartRight(vec.blocks[c].cts[i], c, i)
      BY <1>5 DEF VecRight
    <2>3. ASSUME NEW c \in 1..ncol_blks, NEW i \in 1..SubVecs(c)
          PROVE  PartRight(vec.blocks[c].cts[i], c, i)'
      <3>1. PartRight(vec.blocks[c].cts[i], c, i)
        BY <2>2
      <3> DEFINE ct == vec.blocks[c].cts[i]
      <3>2. ct' = ct
        OBVIOUS
      <3> QED BY <1>1, <1>2, <3>1, <3>2 DEF PartRight
    <2> QED BY <1>1, <2>1, <2>2, <2>3 DEF VecRight
  <1> QED BY <1>4, <1>5

(* So does a block of a product that is under way,                         *)
LEMMA BlockStays ==
  ASSUME UNCHANGED vec, Grows, NEW ct, NEW j, BlockRight(ct, j)
  PROVE  /\ ct = [key |-> VecKey', level |-> "data", body |-> ct.body]
         /\ Only(VecKey)' => ct.body = BlockTerms(RowOf(j), ColOf(j))'
  <1>1. VecKey' = VecKey
    BY DEF VecKey
  <1>2. Only(VecKey)' => Only(VecKey)
    BY <1>1 DEF Only, Grows
  <1>3. BlockTerms(RowOf(j), ColOf(j))' = BlockTerms(RowOf(j), ColOf(j))
    BY DEF BlockTerms
  <1> QED BY <1>1, <1>2, <1>3 DEF BlockRight

(* and with them the call.                                                 *)
LEMMA CallStays ==
  ASSUME UNCHANGED vec, Grows, NEW p \in Parties,
         CallRight(p), call'[p] = call[p]
  PROVE  CallRight(p)'
  <1> DEFINE b == call[p].blocks
  <1>1. /\ call[p] = [rows |-> call[p].rows, blocks |-> b]
        /\ call[p].rows \in Rows \cup {0}
        /\ Len(b) \in Nat /\ b = [j \in 1..Len(b) |-> b[j]]
        /\ Len(b) <= nrow_blks(p) * ncol_blks
        /\ call[p] # Idle => call[p].rows # 0 /\ vec # NoVec
    BY DEF CallRight
  <1>2. ASSUME NEW j \in 1..Len(b)
        PROVE  /\ b[j] = [key |-> VecKey', level |-> "data", body |-> b[j].body]
               /\ Only(VecKey)' => b[j].body = BlockTerms(RowOf(j), ColOf(j))'
    <2>1. BlockRight(b[j], j)
      BY DEF CallRight
    <2> HIDE DEF b
    <2> QED BY <2>1, BlockStays
  <1>3. b' = b /\ nrow_blks(p)' = nrow_blks(p)
    BY DEF nrow_blks
  <1>4. ASSUME NEW j \in 1..Len(b) PROVE BlockRight(b[j], j)'
    BY <1>2, <1>3 DEF BlockRight
  <1> HIDE DEF b
  <1>5. Len(b') = Len(b) /\ (\A j \in 1..Len(b') : BlockRight(b[j], j)')
    BY <1>3, <1>4
  <1> QED BY <1>1, <1>3, <1>5 DEF CallRight, b

(* Matrices have row blocks, unless they have no rows.                     *)
LEMMA RowCount ==
  ASSUME NEW m \in Nat
  PROVE  /\ CeilDiv(m, BLK_NROWS) \in Nat
         /\ CeilDiv(m, BLK_NROWS) = 0 <=> m = 0
  <1> DEFINE B == BLK_NROWS
             R == CeilDiv(m, B)
  <1>1. B \in Nat /\ B >= 1
    BY SizesFit
  <1>2. R \in Nat /\ m <= R * B /\ R * B < m + B
    BY <1>1, CeilDivOf
  <1> HIDE DEF R, B
  <1>3. R >= 1 => R * B >= B
    BY <1>1, <1>2
  <1>4. R = 0 => R * B = 0
    BY <1>1
  <1>5. R * B \in Nat
    BY <1>1, <1>2
  <1>6. R \in Nat /\ (R = 0 <=> m = 0)
    BY <1>1, <1>2, <1>3, <1>4, <1>5
  <1> QED BY <1>6 DEF R, B

(* No call is under way.                                                   *)
LEMMA IdleStays ==
  ASSUME NEW p \in Parties, call'[p] = Idle PROVE CallRight(p)'
  <1> DEFINE b == call[p].blocks
  <1>1. b' = <<>> /\ call'[p].rows = 0
    BY DEF Idle
  <1>2. Len(b') = 0 /\ b' = [j \in 1..Len(b') |-> b'[j]]
    BY <1>1
  <1>3. nrow_blks(p)' = 0 /\ 0 * ncol_blks = 0
    BY <1>1, ColumnsFit, RowCount DEF nrow_blks
  <1> QED BY <1>1, <1>2, <1>3 DEF CallRight, Idle

(* All calls, when none of them moves.                                     *)
LEMMA CallsStay ==
  ASSUME CallsRight, UNCHANGED <<vec, call>>, Grows
  PROVE  CallsRight'
  <1>1. ASSUME NEW p \in Parties PROVE CallRight(p)'
    BY CallStays DEF CallsRight
  <1> QED BY <1>1 DEF CallsRight

(* The keys of the runs, when a python program generates or sets up one.   *)
LEMMA KeysStay ==
  ASSUME KeysMade, UNCHANGED cliVars, generated \subseteq generated',
         generated' \subseteq Keys, setups' \subseteq generated'
  PROVE  KeysMade'
  <1>1. cli' = cli /\ pub' = pub /\ priv' = priv
    BY DEF cliVars
  <1>2. ASSUME NEW c \in Clis
        PROVE  /\ cli[c].sk \in generated' \cup {NoKey}
               /\ cli[c].evk \in generated' \cup {NoKey, Torn}
               /\ cli[c].pc \in {"load_pub", "load_priv"} =>
                    {pub, priv} \subseteq generated' \cup {Torn}
    BY DEF KeysMade
  <1>3. {pub, priv} \subseteq generated' \cup {Absent, Torn}
    BY DEF KeysMade
  <1> QED BY <1>1, <1>2, <1>3 DEF KeysMade

(* The product stays right.                                                *)
LEMMA ProdStays ==
  ASSUME ProdRight, UNCHANGED prod, Grows PROVE ProdRight'
  <1>1. Pieces' = Pieces
    BY DEF Pieces
  <1>2. Only(prod.for)' => Only(prod.for)
    BY DEF Only, Grows
  <1>3. CASE prod.kind \in {"matvec", "updated"}
    <2>1. ASSUME NEW r \in DOMAIN Pieces
          PROVE  PieceRight(Pieces[r], prod.want[r])'
      <3>1. PieceRight(Pieces[r], prod.want[r])
        BY <1>3 DEF ProdRight
      <3> QED BY <1>1, <1>2, <3>1 DEF PieceRight
    <2> QED BY <1>1, <1>3, <2>1 DEF ProdRight
  <1>4. CASE ~(prod.kind \in {"matvec", "updated"})
    BY <1>4 DEF ProdRight
  <1> QED BY <1>3, <1>4

(* There is none yet.                                                      *)
LEMMA NoProdRight == ASSUME prod' = NoProd PROVE ProdRight'
  BY DEF ProdRight, NoProd

-----------------------------------------------------------------------------
(* The steps of the python programs: contexts and keys *)

(* A new context has no public key; its secret key is none or a fresh one. *)
LEMMA ActivateRight ==
  ASSUME SInv, NEW p \in Parties, Activate(p), UNCHANGED cliVars PROVE DInv'
  <1>1. UNCHANGED <<setups, faults, vec, prod, call>>
        /\ mvp_context' = [mvp_context EXCEPT ![p] = Create] /\ Grows
    BY DEF Activate, card, Grows
  <1>2. VecRight' /\ CallsRight' /\ ProdRight'
    BY <1>1, VecStays, CallsStay, ProdStays DEF SInv, DInv
  <1>3. PICK k \in Keys \cup {NoKey} :
          /\ secret_key' = [secret_key EXCEPT ![p] = k]
          /\ generated' \in {generated, generated \cup {k}}
          /\ generated' \subseteq Keys
    BY DEF Activate, Fresh, SInv, DInv, KeysMade
  <1>4. KeysMade'
    <2>1. generated \subseteq generated' /\ setups' \subseteq generated'
          /\ KeysMade
      BY <1>1, <1>3 DEF SInv, DInv, KeysMade
    <2> QED BY <1>3, <2>1, KeysStay
  <1>5. PartiesRight'
    <2>1. mvp_context'[p] = Create
          /\ \A q \in Parties : q # p => mvp_context'[q] = mvp_context[q]
      BY <1>1 DEF SInv, CInv, ContextsRight
    <2>2. secret_key' \in [Parties -> Keys \cup {NoKey}]
      BY <1>3 DEF SInv, DInv, PartiesRight
    <2>3. Create.pk = NoKey
      BY DEF Create
    <2> QED BY <1>1, <2>1, <2>2, <2>3 DEF SInv, DInv, PartiesRight
  <1> QED BY <1>2, <1>4, <1>5 DEF DInv

(* A python program is gone, and its call with it.                         *)
LEMMA DiesRight ==
  ASSUME SInv, NEW p \in Parties, Dies(p), UNCHANGED cliVars PROVE DInv'
  <1>1. /\ UNCHANGED <<setups, generated, vec, prod>> /\ Grows
        /\ mvp_context' = [mvp_context EXCEPT ![p] = NoContext]
        /\ secret_key' = [secret_key EXCEPT ![p] = NoKey]
        /\ call' = [call EXCEPT ![p] = Idle]
    BY DEF Dies, Grows
  <1>2. VecRight' /\ ProdRight'
    BY <1>1, VecStays, ProdStays DEF SInv, DInv
  <1>3. KeysMade'
    BY <1>1, KeysStay DEF SInv, DInv, KeysMade
  <1>4. PartiesRight'
    <2>1. mvp_context'[p] = NoContext
          /\ \A q \in Parties : q # p => mvp_context'[q] = mvp_context[q]
      BY <1>1 DEF SInv, CInv, ContextsRight
    <2> QED BY <1>1, <2>1 DEF SInv, DInv, PartiesRight
  <1>5. CallsRight'
    <2>1. /\ call' = [q \in Parties |-> call'[q]] /\ call'[p] = Idle
          /\ \A q \in Parties : q # p => call'[q] = call[q]
      BY <1>1 DEF SInv, DInv, CallsRight
    <2>2. ASSUME NEW q \in Parties PROVE CallRight(q)'
      <3>1. CASE q = p
        BY <2>1, <3>1, IdleStays
      <3>2. CASE q # p
        BY <1>1, <2>1, <3>2, CallStays DEF SInv, DInv, CallsRight
      <3> QED BY <3>1, <3>2
    <2> QED BY <2>1, <2>2 DEF CallsRight
  <1> QED BY <1>2, <1>3, <1>4, <1>5 DEF DInv

(* A setup, whatever it fails at: the public key it left was set up.       *)
LEMMA SetupRight ==
  ASSUME SInv, NEW p \in Parties, NEW k \in EvalKeys,
         NEW f \in SetupFaults \cup {"none"}, Setup(p, k, f), UNCHANGED cliVars
  PROVE  DInv'
  <1> DEFINE old == mvp_context[p]
             ctx == SetupEvalKey(p, old, k, f).ctx
  <1>1. /\ UNCHANGED <<generated, faults, secret_key, vec, prod, call>>
        /\ mvp_context' = [mvp_context EXCEPT ![p] = ctx]
        /\ setups' = (IF f = "decode" THEN setups ELSE setups \cup {k})
        /\ old # NoContext
    BY DEF Setup, Ready
  <1>2. Grows
    BY <1>1 DEF Grows
  <1>3. VecRight' /\ CallsRight' /\ ProdRight'
    BY <1>1, <1>2, VecStays, CallsStay, ProdStays DEF SInv, DInv
  <1>4. KeysMade'
    <2>1. KeysMade /\ generated \subseteq Keys /\ setups' \subseteq generated
      BY <1>1 DEF SInv, DInv, KeysMade, EvalKeys
    <2> QED BY <1>1, <2>1, KeysStay
  <1>5. ctx.pk \in setups' \cup {NoKey}
    <2>1. old \in Objects
      BY <1>1 DEF SInv, CInv, ContextsRight, Contexts, Objects
    <2>2. old.pk \in setups \cup {NoKey}
      BY <1>1 DEF SInv, DInv, PartiesRight
    <2>3. ctx = IF f = "decode" THEN old ELSE [old EXCEPT !.pk = k]
      BY DEF SetupEvalKey
    <2>4. ASSUME NEW o \in Objects PROVE [o EXCEPT !.pk = k].pk = k
      BY DEF Objects
    <2> HIDE DEF ctx, old
    <2>5. CASE f = "decode"
      BY <1>1, <2>2, <2>3, <2>5
    <2>6. CASE f # "decode"
      <3>1. ctx.pk = k
        BY <2>1, <2>3, <2>4, <2>6
      <3> QED BY <1>1, <2>6, <3>1
    <2> QED BY <2>5, <2>6
  <1> HIDE DEF ctx
  <1>6. PartiesRight'
    <2>1. mvp_context'[p] = ctx
          /\ \A q \in Parties : q # p => mvp_context'[q] = mvp_context[q]
      BY <1>1 DEF SInv, CInv, ContextsRight
    <2> QED BY <1>1, <1>2, <1>5, <2>1 DEF SInv, DInv, PartiesRight, Grows
  <1> QED BY <1>3, <1>4, <1>6 DEF DInv

(* The card and KernelInit leave all data alone.                           *)
LEMMA CardMoves ==
  ASSUME SInv, Grows, UNCHANGED <<generated, setups, session, cliVars>>
  PROVE  DInv'
  <1>1. UNCHANGED <<mvp_context, secret_key, vec, prod, call>>
    BY DEF session
  <1>2. VecRight' /\ CallsRight' /\ ProdRight'
    BY <1>1, VecStays, CallsStay, ProdStays DEF SInv, DInv
  <1>3. KeysMade'
    BY KeysStay DEF SInv, DInv, KeysMade
  <1>4. PartiesRight'
    BY <1>1 DEF SInv, DInv, PartiesRight
  <1> QED BY <1>2, <1>3, <1>4 DEF DInv

(* SetupEvalKey returns: the public key of the context was set up.         *)
LEMMA SetupReturnsRight ==
  ASSUME SInv, NEW p \in Parties, SetupReturns(p), UNCHANGED cliVars PROVE DInv'
  <1>1. /\ Grows /\ UNCHANGED <<generated, setups>>
        /\ UNCHANGED <<secret_key, vec, prod, call>>
    BY KernelGrows DEF SetupReturns, SInv
  <1>2. /\ mvp_context' = [mvp_context EXCEPT
                             ![p] = [pk |-> KernelKey, enabled |-> TRUE]]
        /\ mvp_context'[p] = [pk |-> KernelKey, enabled |-> TRUE]
        /\ KernelKey \in setups
    BY SetupReturnsTo, PostKeeps DEF SetupReturns, SInv, CInv
  <1>3. VecRight' /\ CallsRight' /\ ProdRight'
    BY <1>1, VecStays, CallsStay, ProdStays DEF SInv, DInv
  <1>4. KeysMade'
    BY <1>1, KeysStay DEF SInv, DInv, KeysMade
  <1>5. PartiesRight'
    <2>1. \A q \in Parties : q # p => mvp_context'[q] = mvp_context[q]
      BY <1>2 DEF SInv, CInv, ContextsRight
    <2>2. mvp_context'[p].pk \in setups'
      BY <1>1, <1>2
    <2> QED BY <1>1, <2>1, <2>2 DEF SInv, DInv, PartiesRight
  <1> QED BY <1>3, <1>4, <1>5 DEF DInv

(* The other steps leave the keys and contexts alone.                      *)
LEMMA KeysSame ==
  ASSUME SInv, UNCHANGED <<machine, mvp_context, secret_key, cliVars>>
  PROVE  KeysMade' /\ PartiesRight' /\ Grows /\ UNCHANGED <<setups, faults>>
  <1>1. UNCHANGED <<faults, setups, generated>> /\ Grows
    BY DEF machine, card, Grows
  <1>2. KeysMade'
    BY <1>1, KeysStay DEF SInv, DInv, KeysMade
  <1>3. PartiesRight'
    BY <1>1 DEF SInv, DInv, PartiesRight
  <1> QED BY <1>1, <1>2, <1>3

-----------------------------------------------------------------------------
(* Vectors *)

(* Nobody multiplies, and nobody does after a step that leaves the calls.  *)
LEMMA CallsIdle ==
  ASSUME CallsRight, NobodyMultiplies, UNCHANGED call PROVE CallsRight'
  <1>1. ASSUME NEW p \in Parties PROVE CallRight(p)'
    BY IdleStays DEF NobodyMultiplies
  <1> QED BY <1>1 DEF CallsRight

(* The blocks cts of a vector, encrypted under key, hold the parts of the  *)
(* named vectors if no other key was set up.                               *)
PartsMade(cts, key, names) ==
  \A c \in 1..ncol_blks :
    /\ cts[c] = [i \in 1..SubVecs(c) |-> cts[c][i]]
    /\ \A i \in 1..SubVecs(c) :
         /\ cts[c][i] = [key |-> key, level |-> "key", body |-> cts[c][i].body]
         /\ OnlyAfter(key) =>
              cts[c][i].body = {<<<<n, c>>, i>> : n \in names}

VecOf(cts, names) ==
  [names  |-> names,
   blocks |-> [c \in 1..ncol_blks |-> [len |-> block_len(c), cts |-> cts[c]]]]

(* Such a vector is right.                                                 *)
LEMMA VecMade ==
  ASSUME NEW key \in Keys, NEW names \in SUBSET {"v", "w"}, NEW cts,
         vec' = VecOf(cts, names), PartsMade(cts, key, names)
  PROVE  VecRight'
  <1>0. /\ vec' = [names |-> names,
                   blocks |-> [c \in 1..ncol_blks |->
                                 [len |-> block_len(c), cts |-> cts[c]]]]
        /\ \A c \in 1..ncol_blks : cts[c] = [i \in 1..SubVecs(c) |-> cts[c][i]]
        /\ \A c \in 1..ncol_blks : \A i \in 1..SubVecs(c) :
             /\ cts[c][i] = [key |-> key, level |-> "key", body |-> cts[c][i].body]
             /\ OnlyAfter(key) =>
                  cts[c][i].body = {<<<<n, c>>, i>> : n \in names}
    BY DEF VecOf, PartsMade
  <1>1. vec'.names = names
        /\ vec'.blocks = [c \in 1..ncol_blks |->
                            [len |-> block_len(c), cts |-> cts[c]]]
    BY <1>0
  <1>2. \A c \in 1..ncol_blks : vec'.blocks[c] = [len |-> block_len(c), cts |-> cts[c]]
    BY <1>1
  <1>3. 1 \in 1..ncol_blks /\ 1 \in 1..SubVecs(1)
    <2>1. 1 \in 1..ncol_blks
      BY ColumnsFit
    <2>2. SubVecs(1) \in 1..4
      BY <2>1, ColumnsFit
    <2> QED BY <2>1, <2>2
  <1>4. VecKey' = key
    <2>1. vec'.blocks[1].cts = cts[1]
      <3>1. vec'.blocks[1] = [len |-> block_len(1), cts |-> cts[1]]
        BY <1>2, <1>3
      <3> QED BY <3>1
    <2>2. cts[1][1].key = key
      <3> DEFINE x == cts[1][1]
      <3>1. x = [key |-> key, level |-> "key", body |-> x.body]
        BY <1>0, <1>3
      <3> HIDE DEF x
      <3>2. x.key = key
        BY <3>1
      <3> QED BY <3>2 DEF x
    <2> QED BY <2>1, <2>2 DEF VecKey
  <1>5. vec'.blocks = [c \in 1..ncol_blks |-> vec'.blocks[c]]
    BY <1>1, <1>2
  <1>6. ASSUME NEW c \in 1..ncol_blks
        PROVE  /\ vec'.blocks[c] =
                    [len |-> block_len(c),
                     cts |-> [i \in 1..SubVecs(c) |-> vec'.blocks[c].cts[i]]]
               /\ \A i \in 1..SubVecs(c) : PartRight(vec.blocks[c].cts[i], c, i)'
    <2>1. vec'.blocks[c] = [len |-> block_len(c), cts |-> cts[c]]
      BY <1>2
    <2>2. vec'.blocks[c].cts = cts[c]
      BY <2>1
    <2>3. cts[c] = [i \in 1..SubVecs(c) |-> vec'.blocks[c].cts[i]]
      BY <1>0, <2>2
    <2>4. ASSUME NEW i \in 1..SubVecs(c)
          PROVE  PartRight(vec.blocks[c].cts[i], c, i)'
      <3>1. /\ cts[c][i] = [key |-> key, level |-> "key", body |-> cts[c][i].body]
            /\ OnlyAfter(key) =>
                 cts[c][i].body = {<<<<n, c>>, i>> : n \in names}
        BY <1>0
      <3>2. vec'.blocks[c].cts[i] = cts[c][i]
        BY <2>2
      <3> QED BY <1>1, <1>4, <3>1, <3>2 DEF PartRight, Only, OnlyAfter
    <2> QED BY <2>1, <2>3, <2>4
  <1> QED BY <1>1, <1>4, <1>5, <1>6 DEF VecRight

(* EncryptVector: each part holds its own term.                            *)
LEMMA EncryptRight ==
  ASSUME SInv, NEW p \in Parties, NEW key \in Keys, EncryptVector(p, key),
         UNCHANGED cliVars
  PROVE  DInv'
  <1> DEFINE E(c) == Encrypt(key, VecShape(block_len(c)), <<"v", c>>)
             cts == [c \in 1..ncol_blks |-> E(c)]
  <1>1. /\ NobodyMultiplies /\ prod' = NoProd
        /\ UNCHANGED <<machine, mvp_context, secret_key, call>>
        /\ vec' = [names |-> {"v"},
                   blocks |-> [c \in 1..ncol_blks |->
                                 [len |-> block_len(c), cts |-> E(c)]]]
    BY DEF EncryptVector
  <1>2. KeysMade' /\ PartiesRight' /\ CallsRight' /\ ProdRight'
    BY <1>1, KeysSame, CallsIdle, NoProdRight DEF SInv, DInv
  <1>3. ASSUME NEW c \in 1..ncol_blks
        PROVE  /\ E(c) = [i \in 1..SubVecs(c) |-> E(c)[i]]
               /\ \A i \in 1..SubVecs(c) :
                    /\ E(c)[i] = [key |-> key, level |-> "key", body |-> E(c)[i].body]
                    /\ E(c)[i].body = {<<<<n, c>>, i>> : n \in {"v"}}
    <2>1. E(c) = [i \in 1..SubVecs(c) |->
                    [key |-> key, level |-> "key", body |-> {<<<<"v", c>>, i>>}]]
      BY DEF Encrypt, SubVecs
    <2> HIDE DEF E
    <2>2. ASSUME NEW i \in 1..SubVecs(c)
          PROVE  E(c)[i] = [key |-> key, level |-> "key", body |-> {<<<<"v", c>>, i>>}]
      BY <2>1
    <2>3. ASSUME NEW i \in 1..SubVecs(c)
          PROVE  /\ E(c)[i] = [key |-> key, level |-> "key", body |-> E(c)[i].body]
                 /\ E(c)[i].body = {<<<<n, c>>, i>> : n \in {"v"}}
      <3> DEFINE x == E(c)[i]
                 b == {<<<<"v", c>>, i>>}
      <3>1. x = [key |-> key, level |-> "key", body |-> b]
        BY <2>2
      <3>2. b = {<<<<n, c>>, i>> : n \in {"v"}}
        OBVIOUS
      <3> HIDE DEF x, b
      <3>3. x = [key |-> key, level |-> "key", body |-> x.body] /\ x.body = b
        BY <3>1
      <3> QED BY <3>2, <3>3 DEF x
    <2>4. E(c) = [i \in 1..SubVecs(c) |-> E(c)[i]]
      BY <2>1
    <2> QED BY <2>3, <2>4
  <1> HIDE DEF E
  <1>4. \A c \in 1..ncol_blks : cts[c] = E(c)
    OBVIOUS
  <1>5. vec' = VecOf(cts, {"v"})
    BY <1>1 DEF VecOf
  <1> HIDE DEF cts
  <1>6. PartsMade(cts, key, {"v"})
    BY <1>3, <1>4 DEF PartsMade
  <1>7. {"v"} \in SUBSET {"v", "w"}
    OBVIOUS
  <1>9. VecRight'
    BY <1>5, <1>6, <1>7, VecMade
  <1> QED BY <1>2, <1>9 DEF DInv

(* AddPlainVector: the public key is the one of the vector if no other one
   was set up. *)
LEMMA AddPlainRight ==
  ASSUME SInv, NEW p \in Parties, AddPlainVector(p), UNCHANGED cliVars
  PROVE  DInv'
  <1> DEFINE ctx == mvp_context[p]
             key == VecKey
             old(c) == vec.blocks[c].cts
             A(c) == AddVector(ctx, old(c), <<"w", c>>)
             cts == [c \in 1..ncol_blks |-> A(c)]
  <1>1. vec # NoVec /\ vec.names = {"v"}
    BY DEF AddPlainVector, NoVec
  <1>2. Received = vec.blocks
    BY <1>1, ReceivedIs DEF SInv, DInv
  <1>3. /\ NobodyMultiplies /\ prod' = NoProd /\ ctx # NoContext
        /\ UNCHANGED <<machine, mvp_context, secret_key, call>>
        /\ \A c \in 1..ncol_blks : AddVectorOk(ctx, old(c), VecShape(block_len(c)))
        /\ vec' = [names |-> {"v", "w"},
                   blocks |-> [c \in 1..ncol_blks |->
                                 [len |-> block_len(c), cts |-> A(c)]]]
    BY <1>2 DEF AddPlainVector, Ready
  <1>4. KeysMade' /\ PartiesRight' /\ CallsRight' /\ ProdRight'
        /\ UNCHANGED <<setups, faults>>
    BY <1>3, KeysSame, CallsIdle, NoProdRight DEF SInv, DInv
  <1>5. ctx.pk # NoKey
    <2>1. 1 \in 1..ncol_blks
      BY ColumnsFit
    <2> QED BY <1>3, <2>1 DEF AddVectorOk
  <1>6. Only(key) => ctx.pk = key
    BY <1>3, <1>5 DEF SInv, DInv, PartiesRight, Only
  <1>7. ASSUME NEW c \in 1..ncol_blks
        PROVE  /\ A(c) = [i \in 1..SubVecs(c) |-> A(c)[i]]
               /\ \A i \in 1..SubVecs(c) :
                    /\ A(c)[i] = [key |-> key, level |-> "key", body |-> A(c)[i].body]
                    /\ Only(key) =>
                         A(c)[i].body = {<<<<n, c>>, i>> : n \in {"v", "w"}}
    <2>1. /\ vec.blocks[c] = [len |-> block_len(c),
                              cts |-> [i \in 1..SubVecs(c) |-> vec.blocks[c].cts[i]]]
          /\ \A i \in 1..SubVecs(c) : PartRight(vec.blocks[c].cts[i], c, i)
      BY <1>1 DEF SInv, DInv, VecRight
    <2>2. DOMAIN old(c) = 1..SubVecs(c)
      BY <2>1
    <2>3. A(c) = [i \in 1..SubVecs(c) |-> Sum(old(c)[i], ctx.pk, {<<<<"w", c>>, i>>})]
      BY <2>2 DEF AddVector
    <2>4. ASSUME NEW i \in 1..SubVecs(c)
          PROVE  /\ A(c)[i] = [key |-> key, level |-> "key", body |-> A(c)[i].body]
                 /\ Only(key) =>
                      A(c)[i].body = {<<<<n, c>>, i>> : n \in {"v", "w"}}
      <3> DEFINE x == old(c)[i]
                 t == {<<<<"w", c>>, i>>}
                 y == Sum(x, ctx.pk, t)
      <3>1. A(c)[i] = y
        BY <2>3
      <3>2. PartRight(x, c, i)
        BY <2>1
      <3>3. x = [key |-> key, level |-> "key", body |-> x.body]
            /\ (Only(key) => x.body = {<<<<n, c>>, i>> : n \in {"v"}})
        BY <1>1, <3>2 DEF PartRight
      <3> HIDE DEF x, t, A, key
      <3> DEFINE b == x.body
      <3>4. x = [key |-> key, level |-> "key", body |-> b]
        BY <3>3
      <3> HIDE DEF b
      <3>5. /\ y = [key |-> key, level |-> "key", body |-> y.body]
            /\ ctx.pk = key /\ Junk \notin b \cup t => y.body = b \cup t
        BY <3>4, SumIs
      <3>6. ASSUME Only(key)
            PROVE  y.body = {<<<<n, c>>, i>> : n \in {"v", "w"}}
        <4>1. b = {<<<<"v", c>>, i>>} /\ t = {<<<<"w", c>>, i>>}
          BY <3>3, <3>6 DEF b, t
        <4>2. Junk \notin b \cup t
          BY <4>1, JunkApart
        <4>3. b \cup t = {<<<<n, c>>, i>> : n \in {"v", "w"}}
          BY <4>1
        <4> QED BY <1>6, <3>5, <3>6, <4>2, <4>3
      <3> HIDE DEF y
      <3> QED BY <3>1, <3>5, <3>6
    <2>5. A(c) = [i \in 1..SubVecs(c) |-> A(c)[i]]
      BY <2>3
    <2> QED BY <2>4, <2>5
  <1> HIDE DEF A
  <1>8. \A c \in 1..ncol_blks : cts[c] = A(c)
    OBVIOUS
  <1>9. vec' = VecOf(cts, {"v", "w"})
    BY <1>3 DEF VecOf
  <1>10. key \in Keys
    BY <1>1 DEF SInv, DInv, VecRight
  <1> HIDE DEF cts, key
  <1>11. PartsMade(cts, key, {"v", "w"})
    BY <1>4, <1>7, <1>8 DEF PartsMade, Only, OnlyAfter
  <1>12. {"v", "w"} \in SUBSET {"v", "w"}
    OBVIOUS
  <1>14. VecRight'
    BY <1>9, <1>10, <1>11, <1>12, VecMade
  <1> QED BY <1>4, <1>14 DEF DInv

-----------------------------------------------------------------------------
(* Products *)

(* The place of the next block, and when there is none.                    *)
LEMMA NextPlace ==
  ASSUME NEW S \in Nat, S >= 1, NEW R \in Nat, NEW l \in Nat
  PROVE  /\ l \div S \in Nat /\ l % S \in 0..(S - 1)
         /\ (l \div S) + 1 <= R => l + 1 <= R * S
         /\ (l \div S) + 1 > R /\ l <= R * S => l = R * S
  <1> DEFINE q == l \div S
             u == l % S
  <1>1. q \in Nat /\ u \in 0..(S - 1) /\ l = q * S + u
    BY DivMod
  <1> HIDE DEF q, u
  <1>2. q * S \in Nat /\ R * S \in Nat
    BY <1>1
  <1>3. ASSUME q + 1 <= R PROVE l + 1 <= R * S
    <2>1. q < R
      BY <1>1, <1>3
    <2>2. q * S + S <= R * S
      BY <1>1, <2>1, Multiples
    <2> QED BY <1>1, <1>2, <2>2
  <1>4. ASSUME q + 1 > R, l <= R * S PROVE l = R * S
    <2>1. CASE q = R
      BY <1>1, <1>2, <1>4, <2>1
    <2>2. CASE R < q
      <3>1. R * S + S <= q * S
        BY <1>1, <2>2, Multiples
      <3> QED BY <1>1, <1>2, <1>4, <3>1
    <2> QED BY <1>1, <1>4, <2>1, <2>2
  <1> QED BY <1>1, <1>3, <1>4 DEF q, u

(* The card multiplies the blocks of the vector with rows of the matrix.   *)
LEMMA BlockMade ==
  ASSUME SInv, vec # NoVec, kernel = Free, faults = 0 => cardKey # NoKey,
         NEW c \in 1..ncol_blks, NEW row,
         NEW ct, ct = MatVec(vec.blocks[c].cts, {}, row)
  PROVE  /\ ct = [key |-> VecKey, level |-> "data", body |-> ct.body]
         /\ Only(VecKey) => ct.body = BlockTerms(row, c)
  <1> DEFINE cts == vec.blocks[c].cts
             m == SubVecs(c)
             body == {} \cup UNION {cts[i].body : i \in DOMAIN cts}
             right == /\ Junk \notin body /\ fetch = NoFetch
                      /\ \A i \in DOMAIN cts : cts[i].key = cardKey
             out == IF right THEN {<<row, t>> : t \in body} ELSE {Junk}
  <1>1. ct = [key |-> cts[1].key, level |-> "data", body |-> out]
    BY DEF MatVec
  <1>2. /\ vec.blocks[c] = [len |-> block_len(c),
                            cts |-> [i \in 1..m |-> vec.blocks[c].cts[i]]]
        /\ \A i \in 1..m : PartRight(vec.blocks[c].cts[i], c, i)
    BY DEF SInv, DInv, VecRight
  <1>3. DOMAIN cts = 1..m /\ 1 \in 1..m
    <2>1. DOMAIN cts = 1..m
      BY <1>2
    <2>2. m \in 1..4
      BY ColumnsFit
    <2> QED BY <2>1, <2>2
  <1>4. ASSUME NEW i \in 1..m
        PROVE  cts[i].key = VecKey
               /\ (Only(VecKey) => cts[i].body = {<<<<n, c>>, i>> : n \in vec.names})
    <2>1. PartRight(cts[i], c, i)
      BY <1>2
    <2> HIDE DEF cts
    <2> QED BY <2>1 DEF PartRight
  <1> HIDE DEF out
  <1>5. ct = [key |-> VecKey, level |-> "data", body |-> ct.body] /\ ct.body = out
    <2>1. cts[1].key = VecKey
      BY <1>3, <1>4
    <2> HIDE DEF cts
    <2> QED BY <1>1, <2>1
  <1>6. ASSUME Only(VecKey) PROVE out = BlockTerms(row, c)
    <2>1. cardKey = VecKey /\ fetch = NoFetch
      BY <1>6, KernelAts DEF SInv, CInv, MInv, CardRight, Only
    <2>2. \A i \in DOMAIN cts : cts[i].key = cardKey
      BY <1>3, <1>4, <2>1
    <2>3. \A i \in 1..m : cts[i].body = {<<<<n, c>>, i>> : n \in vec.names}
      BY <1>4, <1>6
    <2> HIDE DEF cts, m
    <2>4. body = {<<<<n, c>>, i>> : n \in vec.names, i \in 1..m}
      BY <1>3, <2>3
    <2>5. Junk \notin body
      BY <2>4, JunkApart
    <2>6. out = {<<row, t>> : t \in body}
      BY <2>1, <2>2, <2>5 DEF out
    <2> HIDE DEF body
    <2>7. {<<row, t>> : t \in body}
            = {<<row, <<<<n, c>>, i>>>> : n \in vec.names, i \in 1..m}
      BY <2>4
    <2> QED BY <2>6, <2>7 DEF BlockTerms, m
  <1> QED BY <1>5, <1>6

(* The list of blocks grows by one.                                        *)
GrownBy(g, b, x) ==
  /\ Len(g) = Len(b) + 1 /\ g = [j \in 1..Len(g) |-> g[j]]
  /\ \A j \in 1..Len(b) : g[j] = b[j]
  /\ g[Len(b) + 1] = x

(* Append does that.                                                       *)
LEMMA Grown ==
  ASSUME NEW b, Len(b) \in Nat, b = [j \in 1..Len(b) |-> b[j]], NEW x
  PROVE  GrownBy(Append(b, x), b, x)
  <1> DEFINE D == {b[j] : j \in 1..Len(b)} \cup {x}
             n == Len(b)
             g == Append(b, x)
  <1>1. b \in [1..n -> D] /\ x \in D
    OBVIOUS
  <1> HIDE DEF D, n
  <1>2. n \in Nat
    BY DEF n
  <1>3. b \in Seq(D)
    BY <1>1, <1>2, FunctionIsSeq
  <1>4. /\ g \in Seq(D) /\ Len(g) = Len(b) + 1
        /\ \A j \in 1..Len(b) : g[j] = b[j]
        /\ g[Len(b) + 1] = x
    BY <1>1, <1>3, AppendProperties
  <1>5. DOMAIN g = 1..Len(g) /\ g = [j \in DOMAIN g |-> g[j]]
    BY <1>4, LenProperties, SeqDef
  <1> QED BY <1>4, <1>5 DEF GrownBy

(* A change of one call.                                                   *)
LEMMA OneCall ==
  ASSUME SInv, NEW p \in Parties, NEW x, call' = [call EXCEPT ![p] = x],
         UNCHANGED <<machine, mvp_context, secret_key, vec, cliVars>>,
         CallRight(p)', ProdRight'
  PROVE  DInv'
  <1>1. KeysMade' /\ PartiesRight' /\ Grows
    BY KeysSame
  <1>2. VecRight'
    BY <1>1, VecStays DEF SInv, DInv
  <1>3. call = [q \in Parties |-> call[q]]
    BY DEF SInv, DInv, CallsRight
  <1>4. call' = [q \in Parties |-> call'[q]]
        /\ \A q \in Parties : q # p => call'[q] = call[q]
    BY <1>3
  <1>5. ASSUME NEW q \in Parties, q # p PROVE CallRight(q)'
    BY <1>1, <1>4, <1>5, CallStays DEF SInv, DInv, CallsRight
  <1>6. CallsRight'
    BY <1>4, <1>5 DEF CallsRight
  <1> QED BY <1>1, <1>2, <1>6 DEF DInv

(* The product of a step that leaves it alone.                             *)
LEMMA ProdSame ==
  ASSUME SInv, UNCHANGED <<machine, prod>> PROVE ProdRight'
  BY ProdStays DEF SInv, DInv, machine, card, Grows

(* A call begins, with no block.                                           *)
LEMMA CallRowsRight ==
  ASSUME SInv, NEW p \in Parties, NEW rows \in Rows, CallMatVec(p, rows),
         UNCHANGED cliVars
  PROVE  DInv'
  <1> DEFINE x == [rows |-> rows, blocks |-> <<>>]
  <1>1. /\ UNCHANGED <<machine, mvp_context, secret_key, vec, prod>>
        /\ call' = [call EXCEPT ![p].rows = rows]
        /\ call[p] = Idle /\ vec # NoVec
    BY DEF CallMatVec, Ready, InCall
  <1>2. [call[p] EXCEPT !.rows = rows] = x
    BY <1>1 DEF Idle
  <1>3. call' = [call EXCEPT ![p] = x]
    BY <1>1, <1>2
  <1>4. call'[p] = x
    BY <1>3 DEF SInv, DInv, CallsRight
  <1>5. rows \in Nat /\ rows # 0
    BY SessionAssumption
  <1>6. CallRight(p)'
    <2> DEFINE b == call[p].blocks
    <2>1. b' = <<>> /\ call'[p].rows = rows
      BY <1>4
    <2>2. Len(b') = 0 /\ b' = [j \in 1..Len(b') |-> b'[j]]
      BY <2>1
    <2>3. nrow_blks(p)' \in Nat
      BY <1>5, <2>1, RowCount DEF nrow_blks
    <2>4. nrow_blks(p)' * ncol_blks >= 0
      <3>1. ncol_blks \in Nat
        BY ColumnsFit
      <3> QED BY <2>3, <3>1
    <2>5. 1..0 = {}
      OBVIOUS
    <2> QED BY <1>1, <1>4, <1>5, <2>1, <2>2, <2>4, <2>5 DEF CallRight
  <1> HIDE DEF x
  <1> QED BY <1>1, <1>3, <1>6, OneCall, ProdSame

(* A call fails and drops its blocks.                                      *)
LEMMA RaisesRight ==
  ASSUME SInv, NEW p \in Parties, MatVecRaises(p), UNCHANGED cliVars
  PROVE  DInv'
  <1>1. /\ UNCHANGED <<machine, mvp_context, secret_key, vec, prod>>
        /\ call' = [call EXCEPT ![p] = Idle]
    BY DEF MatVecRaises
  <1>2. call'[p] = Idle
    BY <1>1 DEF SInv, DInv, CallsRight
  <1> QED BY <1>1, <1>2, IdleStays, OneCall, ProdSame

(* The card computes the next block of a call.                             *)
LEMMA BlockStepRight ==
  ASSUME SInv, NEW p \in Parties, MatVecBlock(p), UNCHANGED cliVars
  PROVE  DInv'
  <1> DEFINE b == call[p].blocks
             l == Len(b)
             j == l + 1
             R == nrow_blks(p)
             C == ncol_blks
             row == next_row(p)
             col == next_col(p)
             ct == MatVec(vec.blocks[col].cts, {}, row)
             g == Append(b, ct)
             x == [rows |-> call[p].rows, blocks |-> g]
  <1>1. CallRight(p)
    BY DEF SInv, DInv, CallsRight
  <1>2. /\ call[p] = [rows |-> call[p].rows, blocks |-> b]
        /\ call[p].rows \in Rows \cup {0}
        /\ l \in Nat /\ b = [i \in 1..l |-> b[i]]
        /\ l <= R * C
        /\ call[p] # Idle => call[p].rows # 0 /\ vec # NoVec
        /\ \A i \in 1..l : BlockRight(b[i], i)
    BY <1>1 DEF CallRight
  <1>3. /\ UNCHANGED <<machine, mvp_context, secret_key, vec, prod>>
        /\ call[p] # Idle /\ row <= R /\ CanMultiply(p) /\ kernel = Free
        /\ call' = [call EXCEPT ![p].blocks =
                      Append(@, MatVec(Received[col].cts, {}, row))]
    BY DEF MatVecBlock
  <1>4. vec # NoVec /\ call[p].rows \in Nat /\ call[p].rows # 0
    BY <1>2, <1>3, SessionAssumption
  <1>5. Received = vec.blocks
    BY <1>4, ReceivedIs DEF SInv, DInv
  <1>6. R \in Nat /\ C \in Nat /\ C >= 1
    BY <1>4, RowCount, ColumnsFit DEF nrow_blks
  <1>7. /\ row = (l \div C) + 1 /\ col = (l % C) + 1
    BY DEF next_row, next_col
  <1>8. col \in 1..C /\ j <= R * C /\ RowOf(j) = row /\ ColOf(j) = col
    <2>1. l \in Nat /\ row <= R
      BY <1>2, <1>3
    <2> HIDE DEF l, R, C, row, col
    <2>2. l \div C \in Nat /\ l % C \in 0..(C - 1)
          /\ ((l \div C) + 1 <= R => l + 1 <= R * C)
      BY <1>6, <2>1, NextPlace
    <2>3. j - 1 = l
      BY <2>1
    <2>4. col \in 1..C
      BY <1>6, <1>7, <2>2
    <2> HIDE DEF j
    <2>5. RowOf(j) = row /\ ColOf(j) = col
      BY <1>7, <2>3 DEF RowOf, ColOf, C
    <2> QED BY <1>7, <2>1, <2>2, <2>4, <2>5 DEF j
  <1>9. faults = 0 => cardKey # NoKey
    <2>1. mvp_context[p].enabled
      BY <1>3 DEF CanMultiply, MatVecOk
    <2> QED BY <2>1 DEF SInv, CInv, ContextsRight
  <1> HIDE DEF col, row, C
  <1>10. ct = [key |-> VecKey, level |-> "data", body |-> ct.body]
         /\ (Only(VecKey) => ct.body = BlockTerms(row, col))
    <2>1. col \in 1..ncol_blks
      BY <1>8 DEF C
    <2>2. ct = MatVec(vec.blocks[col].cts, {}, row)
      OBVIOUS
    <2> HIDE DEF ct
    <2> QED BY <1>3, <1>4, <1>9, <2>1, <2>2, BlockMade
  <1>11. call' = [call EXCEPT ![p] = x]
    <2> DEFINE y == MatVec(Received[col].cts, {}, row)
    <2>0. y = ct /\ call' = [call EXCEPT ![p].blocks = Append(@, y)]
      BY <1>3, <1>5
    <2> HIDE DEF ct, y
    <2> DEFINE z == Append(call[p].blocks, y)
    <2>1. call' = [call EXCEPT ![p] = [call[p] EXCEPT !.blocks = z]]
      BY <2>0
    <2>2. z = g
      BY <2>0
    <2> HIDE DEF z, g
    <2>3. [call[p] EXCEPT !.blocks = z] = x
      BY <1>2, <2>2
    <2> QED BY <2>1, <2>3
  <1>12. /\ Len(g) = l + 1 /\ g = [i \in 1..Len(g) |-> g[i]]
         /\ \A i \in 1..l : g[i] = b[i]
         /\ g[l + 1] = ct
    <2>1. g = Append(b, ct)
      OBVIOUS
    <2>2. Len(b) \in Nat /\ b = [i \in 1..Len(b) |-> b[i]]
      BY <1>2
    <2> HIDE DEF ct, b
    <2>3. GrownBy(g, b, ct)
      BY <2>2, Grown
    <2> HIDE DEF g
    <2> QED BY <2>3 DEF GrownBy
  <1>13. call'[p] = x
    BY <1>11 DEF SInv, DInv, CallsRight
  <1> HIDE DEF g, ct
  <1>14. call'[p].blocks = g /\ call'[p].rows = call[p].rows
    BY <1>13
  <1>15. nrow_blks(p)' = R
    BY <1>14 DEF nrow_blks
  <1>16. Grows /\ VecKey' = VecKey
    BY <1>3 DEF VecKey, machine, card, Grows
  <1>17. ASSUME NEW i \in 1..Len(g)
         PROVE  /\ g[i] = [key |-> VecKey', level |-> "data", body |-> g[i].body]
                /\ Only(VecKey)' => g[i].body = BlockTerms(RowOf(i), ColOf(i))'
    <2>1. BlockRight(g[i], i)
      <3>1. CASE i = j
        <4>1. g[i] = ct
          BY <1>12, <3>1
        <4> HIDE DEF j
        <4> QED BY <1>8, <1>10, <3>1, <4>1 DEF BlockRight
      <3>2. CASE i # j
        <4>1. i \in 1..l
          BY <1>2, <1>12, <3>2
        <4> QED BY <1>2, <1>12, <4>1
      <3> QED BY <3>1, <3>2
    <2> DEFINE y == g[i]
    <2>2. BlockRight(y, i)
      BY <2>1
    <2> HIDE DEF y
    <2>3. /\ y = [key |-> VecKey', level |-> "data", body |-> y.body]
          /\ Only(VecKey)' => y.body = BlockTerms(RowOf(i), ColOf(i))'
      BY <1>3, <1>16, <2>2, BlockStays
    <2> QED BY <2>3 DEF y
  <1>18. CallRight(p)'
    <2>1. call'[p] = [rows |-> call'[p].rows, blocks |-> call'[p].blocks]
      BY <1>13, <1>14
    <2>2. Len(g) \in Nat /\ Len(g) <= R * ncol_blks
      BY <1>2, <1>8, <1>12 DEF C
    <2>3. ASSUME NEW i \in 1..Len(g) PROVE BlockRight(call[p].blocks[i], i)'
      BY <1>14, <1>17 DEF BlockRight
    <2>4. Len(call'[p].blocks) = Len(g) /\ (vec # NoVec)'
          /\ call'[p].rows \in Rows \cup {0} /\ call'[p].rows # 0
      BY <1>2, <1>3, <1>4, <1>14
    <2>5. call'[p].blocks = [i \in 1..Len(g) |-> call'[p].blocks[i]]
      BY <1>12, <1>14
    <2> QED BY <1>15, <2>1, <2>2, <2>3, <2>4, <2>5 DEF CallRight
  <1> HIDE DEF x
  <1> QED BY <1>3, <1>11, <1>18, OneCall, ProdSame

(* The pieces f of a product, under key, hold what they should if no other *)
(* key was set up.                                                         *)
PiecesMade(f, n, want, key) ==
  /\ f = [r \in 1..n |-> f[r]] /\ want = [r \in 1..n |-> want[r]]
  /\ \A r \in 1..n :
       /\ f[r] = [key |-> key, level |-> "data", body |-> f[r].body]
       /\ OnlyAfter(key) => f[r].body = want[r] /\ Junk \notin want[r]

(* Such pieces make a product that is right.                               *)
LEMMA ProdMade ==
  ASSUME NEW len \in Nat \ {0}, NEW n, n = CeilDiv(len, BLK_NROWS),
         NEW key \in Keys, NEW kind \in {"matvec", "updated"}, NEW f, NEW want,
         PiecesMade(f, n, want, key),
         prod' = [data |-> Merge(f), len |-> len, kind |-> kind, want |-> want,
                  for |-> key]
  PROVE  ProdRight'
  <1>1. f = [r \in 1..n |-> f[r]] /\ want = [r \in 1..n |-> want[r]]
    BY DEF PiecesMade
  <1>2. Reads(Cut(Merge(f), len), f)
    <2>1. len \in Nat /\ len >= 1
      OBVIOUS
    <2> QED BY <1>1, <2>1, PiecesAre
  <1>3. [r \in 1..n |-> Load(Cut(Merge(f), len)[r])] = f
    BY <1>1, <1>2, ReadBack, ZenonT(60)
  <1> DEFINE data == Merge(f)
  <1> HIDE DEF data
  <1>4. /\ prod'.data = data /\ prod'.len = len /\ prod'.kind = kind
        /\ prod'.want = want /\ prod'.for = key
        /\ prod' = [data |-> prod'.data, len |-> prod'.len, kind |-> prod'.kind,
                    want |-> prod'.want, for |-> prod'.for]
    <2>1. prod' = [data |-> data, len |-> len, kind |-> kind, want |-> want,
                   for |-> key]
      BY DEF data
    <2> QED BY <2>1
  <1>5. Pieces' = f
    BY <1>3, <1>4 DEF Pieces, data
  <1>6. DOMAIN f = 1..n
    BY <1>1
  <1>7. ASSUME NEW r \in 1..n PROVE PieceRight(Pieces[r], prod.want[r])'
    <2>1. /\ f[r] = [key |-> key, level |-> "data", body |-> f[r].body]
          /\ OnlyAfter(key) => f[r].body = want[r] /\ Junk \notin want[r]
      BY DEF PiecesMade
    <2> QED BY <1>4, <1>5, <2>1 DEF PieceRight, Only, OnlyAfter
  <1> QED BY <1>1, <1>4, <1>5, <1>6, <1>7 DEF ProdRight, data

(* MatVec returns: all blocks are there, and each row is summed up.        *)
LEMMA ReturnsRight ==
  ASSUME SInv, NEW p \in Parties, MatVecReturns(p), UNCHANGED cliVars
  PROVE  DInv'
  <1> DEFINE b == call[p].blocks
             l == Len(b)
             R == nrow_blks(p)
             C == ncol_blks
             len == call[p].rows
             f == [r \in 1..R |-> RowSum(p, r)]
             want == [r \in 1..R |-> Wanted(r, vec.names)]
             key == VecKey
  <1>1. CallRight(p)
    BY DEF SInv, DInv, CallsRight
  <1>2. /\ len \in Rows \cup {0} /\ l \in Nat /\ l <= R * C
        /\ call[p] # Idle => len # 0 /\ vec # NoVec
        /\ \A i \in 1..l : BlockRight(b[i], i)
    BY <1>1 DEF CallRight
  <1>3. /\ UNCHANGED <<machine, mvp_context, secret_key, vec>>
        /\ call[p] # Idle /\ next_row(p) > R
        /\ call' = [call EXCEPT ![p] = Idle]
        /\ prod' = [data |-> Merge(f), len |-> len, kind |-> "matvec",
                    want |-> want, for |-> b[1].key]
    BY DEF MatVecReturns
  <1>4. vec # NoVec /\ len \in Nat \ {0} /\ key \in Keys
    <2>1. vec # NoVec /\ len \in Nat \ {0}
      BY <1>2, <1>3, SessionAssumption
    <2> QED BY <2>1 DEF SInv, DInv, VecRight
  <1>5. R \in Nat /\ R >= 1 /\ R = CeilDiv(len, BLK_NROWS) /\ C \in Nat /\ C >= 1
    BY <1>4, RowCount, ColumnsFit DEF nrow_blks
  <1>6. l = R * C /\ 1 \in 1..l
    <2>1. (l \div C) + 1 > R
      BY <1>3 DEF next_row
    <2> HIDE DEF l, R, C
    <2>2. l = R * C
      BY <1>2, <1>5, <2>1, NextPlace
    <2>3. R * C >= 1
      BY <1>5
    <2> QED BY <1>2, <2>2, <2>3
  <1>7. b[1].key = key
    <2>1. BlockRight(b[1], 1)
      BY <1>2, <1>6
    <2> DEFINE y == b[1]
    <2>2. BlockRight(y, 1)
      BY <2>1
    <2> HIDE DEF y
    <2>3. y.key = key
      BY <2>2 DEF BlockRight
    <2> QED BY <2>3 DEF y
  <1>8. UNCHANGED <<setups, faults>>
    BY <1>3 DEF machine, card
  <1>9. ASSUME NEW r \in 1..R
        PROVE  /\ f[r] = [key |-> key, level |-> "data", body |-> f[r].body]
               /\ OnlyAfter(key) => f[r].body = want[r] /\ Junk \notin want[r]
    <2> DEFINE y == RowSum(p, r)
               w == Wanted(r, vec.names)
    <2>1. f[r] = y /\ want[r] = w
      OBVIOUS
    <2>2. /\ y = [key |-> VecKey, level |-> "data", body |-> y.body]
          /\ Only(VecKey) => y.body = w /\ Junk \notin w
      BY <1>1, <1>5, <1>6, RowSumIs
    <2> HIDE DEF f, want, y, w
    <2> QED BY <1>8, <2>1, <2>2 DEF Only, OnlyAfter
  <1>10. f = [r \in 1..R |-> f[r]] /\ want = [r \in 1..R |-> want[r]]
    OBVIOUS
  <1> HIDE DEF f, want, key, R, len
  <1>11. PiecesMade(f, R, want, key)
    BY <1>9, <1>10 DEF PiecesMade
  <1>12. prod' = [data |-> Merge(f), len |-> len, kind |-> "matvec",
                  want |-> want, for |-> key]
    BY <1>3, <1>7
  <1>13. ProdRight'
    <2>1. "matvec" \in {"matvec", "updated"}
      OBVIOUS
    <2> QED BY <1>4, <1>5, <1>11, <1>12, <2>1, ProdMade
  <1>14. call'[p] = Idle
    BY <1>3 DEF SInv, DInv, CallsRight
  <1>15. CallRight(p)'
    BY <1>14, IdleStays
  <1> QED BY <1>3, <1>13, <1>15, OneCall

(* The vector and the calls stay.                                          *)
LEMMA OnlyProd ==
  ASSUME SInv, UNCHANGED <<machine, mvp_context, secret_key, vec, call, cliVars>>,
         ProdRight'
  PROVE  DInv'
  <1>1. KeysMade' /\ PartiesRight' /\ Grows
    BY KeysSame
  <1>2. VecRight' /\ CallsRight'
    BY <1>1, VecStays, CallsStay DEF SInv, DInv
  <1> QED BY <1>1, <1>2 DEF DInv

(* MatVecFMA: a ciphertext without header.                                 *)
LEMMA FmaRight ==
  ASSUME SInv, NEW p \in Parties, NEW rows \in 1..N, MatVecFMA(p, rows),
         UNCHANGED cliVars
  PROVE  DInv'
  <1> DEFINE b == Received[1]
             ct == MatVec(b.cts, {<<<<"w", 1>>, i>> : i \in DOMAIN b.cts}, 1)
  <1>1. /\ UNCHANGED <<machine, mvp_context, secret_key, vec, call>>
        /\ vec # NoVec
        /\ prod' = [data |-> Serialize(ct, 1), len |-> b.len, kind |-> "fma",
                    want |-> <<>>, for |-> b.cts[1].key]
    BY DEF MatVecFMA
  <1>2. b.len \in Nat \ {0}
    <2>1. 1 \in 1..ncol_blks
      BY ColumnsFit
    <2>2. Received = vec.blocks
      BY <1>1, ReceivedIs DEF SInv, DInv
    <2>3. vec.blocks[1] = [len |-> block_len(1),
                  cts |-> [i \in 1..SubVecs(1) |-> vec.blocks[1].cts[i]]]
      BY <1>1, <2>1 DEF SInv, DInv, VecRight
    <2>4. b.len = block_len(1)
      BY <2>2, <2>3
    <2> QED BY <2>1, <2>4, ColumnsFit
  <1> DEFINE s == Serialize(ct, 1)
  <1> HIDE DEF ct, b
  <1>3. s[1] = <<"ct", ct, CtSize(1)>>
    <2>1. 1 \in 1..CtSize(1)
      BY HeaderDigits
    <2> QED BY <2>1 DEF Serialize
  <1>4. s[1][2] = ct /\ s = Serialize(ct, 1)
    BY <1>3
  <1> HIDE DEF s
  <1>5. /\ prod'.data = s /\ prod'.len = b.len /\ prod'.kind = "fma"
        /\ prod' = [data |-> prod'.data, len |-> prod'.len, kind |-> prod'.kind,
                    want |-> prod'.want, for |-> prod'.for]
    <2>1. prod' = [data |-> s, len |-> b.len, kind |-> "fma", want |-> <<>>,
                   for |-> b.cts[1].key]
      BY <1>1, <1>4
    <2> QED BY <2>1
  <1>6. prod'.data = Serialize(prod'.data[1][2], 1)
    BY <1>4, <1>5
  <1>7. ProdRight'
    BY <1>2, <1>5, <1>6 DEF ProdRight
  <1> QED BY <1>1, <1>7, OnlyProd

(* What can be read of a product.                                          *)
LEMMA ProdReads ==
  ASSUME ProdRight, prod.kind \in {"matvec", "updated"},
         NEW n, n = CeilDiv(prod.len, BLK_NROWS)
  PROVE  /\ Reads(Cut(prod.data, prod.len), Pieces) /\ DOMAIN Pieces = 1..n
         /\ Pieces = [r \in 1..n |-> Pieces[r]]
  <1>1. prod.len \in Nat /\ prod.len >= 1 /\ prod.data = Merge(Pieces)
    BY DEF ProdRight
  <1>2. Pieces = [r \in 1..n |-> Pieces[r]] /\ DOMAIN Pieces = 1..n
    BY DEF Pieces
  <1>3. Reads(Cut(Merge(Pieces), prod.len), Pieces)
    <2> DEFINE f == Pieces
               len == prod.len
    <2>1. f = [r \in 1..n |-> f[r]]
      BY <1>2
    <2> HIDE DEF f, len
    <2>2. len \in Nat /\ len >= 1 /\ n = CeilDiv(len, BLK_NROWS)
      BY <1>1 DEF len
    <2>3. Reads(Cut(Merge(f), len), f)
      BY <2>1, <2>2, PiecesAre
    <2> QED BY <2>3 DEF f, len
  <1> QED BY <1>1, <1>2, <1>3

(* UpdateVector never takes a product of MatVecFMA, and adds to every record. *)
LEMMA UpdateRight ==
  ASSUME SInv, NEW p \in Parties, UpdateVector(p), UNCHANGED cliVars
  PROVE  DInv'
  <1> DEFINE recs == Cut(prod.data, prod.len)
             t(r) == <<r, <<<<"u", 0>>, 0>>>>
             n == CeilDiv(prod.len, BLK_NROWS)
             key == prod.for
             len == prod.len
             upd == [r \in DOMAIN recs |-> UpdateMatVec(Load(recs[r]), t(r))]
             want == [r \in DOMAIN prod.want |-> prod.want[r] \cup {t(r)}]
  <1>1. /\ UNCHANGED <<machine, mvp_context, secret_key, vec, call>>
        /\ prod.kind \in {"matvec", "fma"}
        /\ \A r \in DOMAIN recs : LoadOk(recs[r])
        /\ prod' = [prod EXCEPT !.data = Merge(upd), !.kind = "updated",
                                !.want = want]
    BY DEF UpdateVector, RecordsLoad
  <1>2. ProdRight
    BY DEF SInv, DInv
  <1>3. prod.kind = "matvec"
    <2> SUFFICES ASSUME prod.kind = "fma" PROVE FALSE
      BY <1>1
    <2> DEFINE ct == prod.data[1][2]
    <2>1. len \in Nat /\ len >= 1 /\ prod.data = Serialize(ct, 1)
      BY <1>2 DEF ProdRight
    <2> HIDE DEF ct, len
    <2>2. \E r \in DOMAIN Cut(Serialize(ct, 1), len) :
            ~LoadOk(Cut(Serialize(ct, 1), len)[r])
      BY <2>1, CutSerialized
    <2> QED BY <1>1, <2>1, <2>2 DEF len
  <1>4. /\ key \in Keys /\ len \in Nat \ {0}
        /\ prod = [data |-> prod.data, len |-> prod.len, kind |-> prod.kind,
                   want |-> prod.want, for |-> prod.for]
        /\ prod.want = [r \in DOMAIN Pieces |-> prod.want[r]]
        /\ \A r \in DOMAIN Pieces : PieceRight(Pieces[r], prod.want[r])
    BY <1>2, <1>3 DEF ProdRight
  <1>5. /\ Reads(recs, Pieces) /\ DOMAIN Pieces = 1..n
    BY <1>2, <1>3, ProdReads
  <1>6. /\ DOMAIN recs = 1..n /\ \A r \in 1..n : Load(recs[r]) = Pieces[r]
    BY <1>5 DEF Reads
  <1>7. DOMAIN prod.want = 1..n
    BY <1>4, <1>5
  <1>8. UNCHANGED <<setups, faults>>
    BY <1>1 DEF machine, card
  <1> HIDE DEF recs
  <1>9. ASSUME NEW r \in 1..n
        PROVE  /\ upd[r] = [key |-> key, level |-> "data", body |-> upd[r].body]
               /\ OnlyAfter(key) =>
                    upd[r].body = want[r] /\ Junk \notin want[r]
    <2> DEFINE y == Pieces[r]
               w == prod.want[r]
               x == Sum(y, y.key, {t(r)})
               h == y.body
    <2>1. upd[r] = x
      BY <1>6 DEF UpdateMatVec
    <2>2. want[r] = w \cup {t(r)}
      BY <1>7
    <2>3. PieceRight(y, w)
      BY <1>4, <1>5
    <2> HIDE DEF y, w
    <2>4. /\ y = [key |-> key, level |-> "data", body |-> h] /\ y.key = key
          /\ Only(key) => h = w /\ Junk \notin w
      BY <2>3 DEF PieceRight
    <2> HIDE DEF h, key
    <2> DEFINE ts == {t(r)}
               k == y.key
    <2> HIDE DEF ts, k
    <2>5. /\ x = Sum(y, k, ts) /\ k = key
      BY <2>4 DEF ts, k
    <2>6. /\ Sum(y, k, ts) = [key |-> key, level |-> "data", body |-> Sum(y, k, ts).body]
          /\ k = key /\ Junk \notin h \cup ts => Sum(y, k, ts).body = h \cup ts
      BY <2>4, SumIs
    <2>7. Junk \notin ts
      BY JunkApart DEF ts
    <2> HIDE DEF x, upd, want
    <2>8. ASSUME OnlyAfter(key)
          PROVE  x.body = w \cup ts /\ Junk \notin w \cup ts
      BY <1>8, <2>4, <2>5, <2>6, <2>7, <2>8 DEF Only, OnlyAfter
    <2> QED BY <2>1, <2>2, <2>5, <2>6, <2>8 DEF ts
  <1>10. upd = [r \in 1..n |-> upd[r]] /\ want = [r \in 1..n |-> want[r]]
    BY <1>6, <1>7
  <1> HIDE DEF upd, want, t
  <1>11. PiecesMade(upd, n, want, key)
    BY <1>9, <1>10 DEF PiecesMade
  <1>12. prod' = [data |-> Merge(upd), len |-> len, kind |-> "updated",
                  want |-> want, for |-> key]
    <2> DEFINE m == Merge(upd)
    <2> HIDE DEF m
    <2>1. prod' = [prod EXCEPT !.data = m, !.kind = "updated", !.want = want]
      BY <1>1 DEF m
    <2>2. prod' = [data |-> m, len |-> prod.len, kind |-> "updated",
                   want |-> want, for |-> prod.for]
      BY <1>4, <2>1
    <2> QED BY <2>2 DEF m
  <1>13. n = CeilDiv(len, BLK_NROWS) /\ "updated" \in {"matvec", "updated"}
    OBVIOUS
  <1> HIDE DEF n, len, key
  <1>14. ProdRight'
    BY <1>4, <1>11, <1>12, <1>13, ProdMade
  <1> QED BY <1>1, <1>14, OnlyProd

-----------------------------------------------------------------------------
(* The theorems *)

(* At first there is nothing.                                              *)
LEMMA SInvInit == Init => SInv
  <1> SUFFICES ASSUME Init PROVE SInv
    OBVIOUS
  <1>1. CInv
    BY CInvInit
  <1>2. \A c \in Clis : cli[c] = NoRun
    BY DEF Init, FilesInit
  <1>3. KeysMade
    <2>1. \A c \in Clis : /\ cli[c].sk = NoKey /\ cli[c].evk = NoKey
                          /\ cli[c].pc = "idle"
      BY <1>2 DEF NoRun
    <2> QED BY <2>1 DEF Init, MachineInit, FilesInit, KeysMade
  <1>4. PartiesRight
    BY DEF Init, SessionInit, PartiesRight
  <1>5. VecRight /\ ProdRight
    BY DEF Init, SessionInit, VecRight, NoVec, ProdRight, NoProd
  <1>6. ASSUME NEW p \in Parties PROVE CallRight(p)
    <2> DEFINE b == call[p].blocks
    <2>1. call[p] = Idle
      BY DEF Init, SessionInit
    <2>2. b = <<>> /\ call[p].rows = 0
      BY <2>1 DEF Idle
    <2>3. Len(b) = 0 /\ b = [j \in 1..Len(b) |-> b[j]]
      BY <2>2
    <2>4. nrow_blks(p) = 0 /\ 0 * ncol_blks = 0
      BY <2>2, ColumnsFit, RowCount DEF nrow_blks
    <2> QED BY <2>1, <2>2, <2>3, <2>4 DEF CallRight, Idle
  <1>7. CallsRight
    BY <1>6 DEF Init, SessionInit, CallsRight
  <1> QED BY <1>1, <1>3, <1>4, <1>5, <1>7 DEF SInv, DInv

(* Every step of a python program keeps the data right,                    *)
LEMMA SessionRight ==
  ASSUME SInv, NEW p \in Parties, SessionNext(p), UNCHANGED cliVars PROVE DInv'
  <1>1. ASSUME NEW k \in EvalKeys, NEW f \in SetupFaults \cup {"none"},
               Setup(p, k, f)
        PROVE  DInv'
    BY <1>1, SetupRight
  <1>2. ASSUME NEW k \in Keys, EncryptVector(p, k) PROVE DInv'
    BY <1>2, EncryptRight
  <1>3. ASSUME NEW n \in Rows, CallMatVec(p, n) PROVE DInv'
    BY <1>3, CallRowsRight
  <1>4. ASSUME NEW n \in 1..N, MatVecFMA(p, n) PROVE DInv'
    BY <1>4, FmaRight
  <1>5. CASE Activate(p) \/ Dies(p) \/ AddPlainVector(p)
    BY <1>5, ActivateRight, DiesRight, AddPlainRight
  <1>6. CASE MatVecBlock(p) \/ MatVecRaises(p) \/ MatVecReturns(p)
               \/ UpdateVector(p)
    BY <1>6, BlockStepRight, RaisesRight, ReturnsRight, UpdateRight
  <1>7. CASE SetupInit(p)
    <2>1. Grows /\ UNCHANGED <<generated, setups, session>>
      BY <1>7, KernelGrows DEF SetupInit, SInv
    <2> QED BY <2>1, CardMoves
  <1>8. CASE SetupReturns(p)
    BY <1>8, SetupReturnsRight
  <1> QED BY <1>1, <1>2, <1>3, <1>4, <1>5, <1>6, <1>7, <1>8 DEF SessionNext

(* and so does every step of a command line run.                           *)
LEMMA CliRunRight ==
  ASSUME SInv, NEW c \in Clis, CliNext(c), UNCHANGED session PROVE DInv'
  <1>1. KeysMade' /\ Grows
    BY CliKeys, CliGrows DEF SInv, DInv
  <1>2. UNCHANGED <<mvp_context, secret_key, vec, prod, call>>
    BY DEF session
  <1>3. VecRight' /\ CallsRight' /\ ProdRight'
    BY <1>1, <1>2, VecStays, CallsStay, ProdStays DEF SInv, DInv
  <1>4. PartiesRight'
    BY <1>1, <1>2 DEF SInv, DInv, PartiesRight, Grows
  <1> QED BY <1>1, <1>3, <1>4 DEF DInv

(* SInv is inductive.                                                      *)
LEMMA SInvStep == SInv /\ [Next]_vars => SInv'
  <1> SUFFICES ASSUME SInv, [Next]_vars PROVE SInv'
    OBVIOUS
  <1>1. CInv'
    BY CInvStep DEF SInv
  <1>2. CASE UNCHANGED vars
    <2>1. UNCHANGED <<machine, mvp_context, secret_key, vec, prod, call, cliVars>>
      BY <1>2 DEF vars, session
    <2>2. ProdRight'
      BY <2>1, ProdSame
    <2>3. DInv'
      BY <2>1, <2>2, OnlyProd
    <2> QED BY <1>1, <2>3 DEF SInv
  <1>3. ASSUME NEW p \in Parties, SessionNext(p), UNCHANGED cliVars PROVE SInv'
    BY <1>1, <1>3, SessionRight DEF SInv
  <1>4. ASSUME NEW c \in Clis, CliNext(c), UNCHANGED session PROVE SInv'
    BY <1>1, <1>4, CliRunRight DEF SInv
  <1>5. ASSUME CardLoads, UNCHANGED <<session, cliVars>> PROVE SInv'
    <2>1. Grows /\ UNCHANGED <<generated, setups>>
      BY <1>5 DEF CardLoads, Grows
    <2> QED BY <1>1, <1>5, <2>1, CardMoves DEF SInv
  <1> QED BY <1>2, <1>3, <1>4, <1>5 DEF Next

(* Every variable of the machine and its programs keeps its type: only     *)
(* keys that were generated are set up, the card has one of them or a      *)
(* mixture, KernelInit is where it may be whoever was killed in it, and a  *)
(* call never computes more blocks than the matrix has.                    *)
THEOREM HostTypeCorrect == Spec => []TypeOK
  <1>1. SInv => TypeOK
    <2> SUFFICES ASSUME SInv PROVE TypeOK
      OBVIOUS
    <2>1. generated \subseteq Keys /\ setups \subseteq generated
      BY DEF SInv, DInv, KeysMade
    <2>2. /\ {cardKey, dram} \subseteq generated \cup {NoKey, Mixed}
          /\ fetch \in generated \cup {NoKey, Mixed, NoFetch}
          /\ faults \in 0..MaxFaults
      BY <2>1 DEF SInv, CInv, MInv, MachineRight
    <2>3. kernel \in {Free, Lost} \cup [by : Parties \cup Clis, at : KernelPcs]
      BY DEF SInv, CInv, MInv, KernelRight
    <2>4. mvp_context \in [Parties -> Contexts]
      BY DEF SInv, CInv, ContextsRight
    <2>5. secret_key \in [Parties -> Keys \cup {NoKey}]
      BY DEF SInv, DInv, PartiesRight
    <2>6. vec.names \subseteq {"v", "w"}
          /\ prod.kind \in {"none", "matvec", "updated", "fma"}
      BY DEF SInv, DInv, VecRight, ProdRight
    <2>7. \A p \in Parties : /\ call[p].rows \in Rows \cup {0}
                             /\ Len(call[p].blocks) <= nrow_blks(p) * ncol_blks
      BY DEF SInv, DInv, CallsRight, CallRight
    <2>8. priv \in Files /\ pub \in Files
      BY DEF SInv, CInv, FilesRight
    <2>9. \A c \in Clis : /\ cli[c].sk \in Keys \cup {NoKey}
                          /\ cli[c].evk \in Keys \cup {NoKey, Torn}
      BY <2>1 DEF SInv, DInv, KeysMade
    <2> QED BY <2>1, <2>2, <2>3, <2>4, <2>5, <2>6, <2>7, <2>8, <2>9 DEF TypeOK
  <1> QED BY <1>1, SInvInit, SInvStep, PTL DEF Spec

(* What Decrypt finds in a product of MatVec or UpdateVector.              *)
LEMMA DecryptFinds ==
  ASSUME SInv, prod.kind \in {"matvec", "updated"}, NEW p \in Parties,
         mvp_context[p] # NoContext, secret_key[p] # NoKey
  PROVE  DecryptOk(p)
  <1> DEFINE recs == Cut(prod.data, prod.len)
             n == CeilDiv(prod.len, BLK_NROWS)
  <1>1. ProdRight
    BY DEF SInv, DInv
  <1>2. Reads(recs, Pieces) /\ DOMAIN Pieces = 1..n
    BY <1>1, ProdReads
  <1>3. DOMAIN recs = 1..n
        /\ \A r \in 1..n : LoadOk(recs[r]) /\ Load(recs[r]) = Pieces[r]
    BY <1>2 DEF Reads
  <1>4. prod.len \in Nat /\ prod.len >= 1
    BY <1>1 DEF ProdRight
  <1> HIDE DEF recs
  <1>5. ASSUME NEW r \in 1..n PROVE RowBlocks(prod.len)[r] \in 1..kMaxNumRows
    <2> DEFINE len == prod.len
    <2> HIDE DEF len
    <2>1. len \in Nat /\ len >= 1 /\ n = CeilDiv(len, BLK_NROWS)
      BY <1>4 DEF len
    <2> HIDE DEF n
    <2>2. RowBlocks(len)[r] \in 1..N
      BY <2>1, RowBlocksFit
    <2> QED BY <2>2 DEF len, kMaxNumRows
  <1>6. ASSUME NEW r \in 1..n PROVE Pieces[r].level = "data"
    <2> DEFINE y == Pieces[r]
    <2>1. PieceRight(y, prod.want[r])
      BY <1>1, <1>2 DEF ProdRight
    <2> HIDE DEF y
    <2>2. y.level = "data"
      BY <2>1 DEF PieceRight
    <2> QED BY <2>2 DEF y
  <1>7. RecordsLoad(p)
    BY <1>3 DEF RecordsLoad, recs
  <1>8. ASSUME NEW r \in DOMAIN recs
        PROVE  DecryptMatVecOk(secret_key[p], Load(recs[r]), RowBlocks(prod.len)[r])
    BY <1>3, <1>5, <1>6 DEF DecryptMatVecOk
  <1> QED BY <1>7, <1>8 DEF DecryptOk, recs

(* Decrypt accepts every product of MatVec and UpdateVector and no product *)
(* of MatVecFMA: for all lengths, block sizes and numbers of records, all  *)
(* sizes of ciphertexts that the header can tell, and whatever keys were   *)
(* used.                                                                   *)
THEOREM ProductsAlwaysReadable == Spec => []ProductsReadable
  <1>1. SInv => ProductsReadable
    <2> SUFFICES ASSUME SInv, NEW p \in Parties, mvp_context[p] # NoContext,
                        secret_key[p] # NoKey
                 PROVE  /\ prod.kind \in {"matvec", "updated"} => DecryptOk(p)
                        /\ prod.kind = "fma" => ~DecryptOk(p)
      BY DEF ProductsReadable
    <2>1. prod.kind \in {"matvec", "updated"} => DecryptOk(p)
      BY DecryptFinds
    <2>2. ASSUME prod.kind = "fma" PROVE ~DecryptOk(p)
      <3> DEFINE ct == prod.data[1][2]
                 len == prod.len
      <3>1. len \in Nat /\ len >= 1 /\ prod.data = Serialize(ct, 1)
        BY <2>2 DEF SInv, DInv, ProdRight
      <3> HIDE DEF ct, len
      <3>2. \E r \in DOMAIN Cut(Serialize(ct, 1), len) :
              ~LoadOk(Cut(Serialize(ct, 1), len)[r])
        BY <3>1, CutSerialized
      <3> QED BY <3>1, <3>2 DEF DecryptOk, RecordsLoad, len
    <2> QED BY <2>1, <2>2
  <1> QED BY <1>1, SInvInit, SInvStep, PTL DEF Spec

(* As long as no other key was ever set up on the machine, and the card's  *)
(* input and output worked, the owner of the secret key decrypts exactly   *)
(* the product: for any number of parties, matrices of any size in blocks  *)
(* of any size, every ring degree up to 4096, calls that overlap, fail or  *)
(* are repeated in any order, and programs that are killed.                *)
THEOREM SingleOwnerAlwaysRight == Spec => []SingleOwnerRight
  <1>1. SInv => SingleOwnerRight
    <2> SUFFICES ASSUME SInv, faults = 0, NEW p \in Parties,
                        prod.kind \in {"matvec", "updated"},
                        mvp_context[p] # NoContext, secret_key[p] = prod.for,
                        setups \subseteq {prod.for}
                 PROVE  DecryptOk(p) /\ Decrypt(p) = prod.want
      BY DEF SingleOwnerRight
    <2> DEFINE recs == Cut(prod.data, prod.len)
               n == CeilDiv(prod.len, BLK_NROWS)
               sk == secret_key[p]
    <2>1. ProdRight
      BY DEF SInv, DInv
    <2>2. Reads(recs, Pieces) /\ DOMAIN Pieces = 1..n
      BY <2>1, ProdReads
    <2>3. DOMAIN recs = 1..n /\ \A r \in 1..n : Load(recs[r]) = Pieces[r]
      BY <2>2 DEF Reads
    <2>4. prod.for \in Keys /\ prod.want = [r \in 1..n |-> prod.want[r]]
      BY <2>1, <2>2 DEF ProdRight
    <2>5. DecryptOk(p)
      <3>1. secret_key[p] # NoKey
        BY <2>4, KeysAssumption
      <3> QED BY <3>1, DecryptFinds
    <2>6. ASSUME NEW r \in 1..n PROVE DecryptMatVec(sk, Pieces[r]) = prod.want[r]
      <3> DEFINE y == Pieces[r]
                 w == prod.want[r]
      <3>1. PieceRight(y, w)
        BY <2>1, <2>2 DEF ProdRight
      <3> HIDE DEF y, w
      <3>2. y.key = sk /\ y.body = w /\ Junk \notin w
        BY <3>1 DEF PieceRight, Only
      <3>3. DecryptMatVec(sk, y) = w
        BY <3>2 DEF DecryptMatVec
      <3> QED BY <3>3 DEF y, w
    <2> HIDE DEF recs, n
    <2>7. Decrypt(p) = [r \in DOMAIN recs |-> DecryptMatVec(sk, Load(recs[r]))]
      BY DEF Decrypt, recs
    <2>8. Decrypt(p) = [r \in 1..n |-> prod.want[r]]
      BY <2>3, <2>6, <2>7
    <2> QED BY <2>4, <2>5, <2>8
  <1> QED BY <1>1, SInvInit, SInvStep, PTL DEF Spec
=============================================================================
