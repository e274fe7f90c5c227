------------------------------ MODULE MvpHost -------------------------------
(***************************************************************************)
(* A machine with one card, the python protocol objects and the runs of    *)
(* the command line program that share it.                                 *)
(***************************************************************************)
EXTENDS MvpSession, MvpCli

CONSTANT Teams   \* bound: the sets of programs that use the machine together

ASSUME TeamsAssumption ==
  /\ Teams \subseteq SUBSET (Parties \cup Clis)
  /\ Parties \cap Clis = {}

VARIABLE team

vars == <<machine, session, cliVars, team>>

Init == MachineInit /\ SessionInit /\ FilesInit /\ team \in Teams

Next ==
  /\ \/ \E p \in Parties \cap team : SessionNext(p) /\ UNCHANGED cliVars
     \/ \E c \in Clis \cap team : CliNext(c) /\ UNCHANGED session
     \/ CardLoads /\ UNCHANGED <<session, cliVars>>
  /\ UNCHANGED team

Spec == Init /\ [][Next]_vars

-----------------------------------------------------------------------------
(* The type invariant.                                                     *)
TypeOK ==
  /\ {cardKey, dram} \subseteq generated \cup {NoKey, Mixed}
  /\ fetch \in generated \cup {NoKey, Mixed, NoFetch}
  /\ kernel \in {Free, Lost} \cup [by : Parties \cup Clis, at : KernelPcs]
  /\ faults \in 0..MaxFaults
  /\ generated \subseteq Keys /\ setups \subseteq generated
  /\ mvp_context \in [Parties -> Contexts]
  /\ secret_key \in [Parties -> Keys \cup {NoKey}]
  /\ vec.names \subseteq {"v", "w"}
  /\ prod.kind \in {"none", "matvec", "updated", "fma"}
  /\ \A p \in Parties : /\ call[p].rows \in Rows \cup {0}
                        /\ Len(call[p].blocks) <= nrow_blks(p) * ncol_blks
  /\ priv \in Files /\ pub \in Files
  /\ \A c \in Clis : /\ cli[c].sk \in Keys \cup {NoKey}
                      /\ cli[c].evk \in Keys \cup {NoKey, Torn}

(* As long as SetupEvalKey was never given another key, on this machine or *)
(* in any program of it, and the card's input and output worked, whoever   *)
(* has the secret key of a product decrypts exactly the rows of the matrix *)
(* times all vectors that were added, in all row blocks: through failed    *)
(* setups, killed programs, new contexts, pickled vectors, UpdateVector    *)
(* and the records cut by two separate loops.                              *)
SingleOwnerRight ==
  faults = 0 => \A p \in Parties :
    /\ prod.kind \in {"matvec", "updated"}
    /\ mvp_context[p] # NoContext
    /\ secret_key[p] = prod.for
    /\ setups \subseteq {prod.for}
    => DecryptOk(p) /\ Decrypt(p) = prod.want

(* Decrypt accepts every product of MatVec and UpdateVector, whatever keys *)
(* are involved: each record is found although substr is given an end for  *)
(* a length (wrapper.cc 359, 914) and the pieces overlap.  It refuses the  *)
(* headerless product of MatVecFMA and never decrypts other bytes of it.   *)
ProductsReadable ==
  \A p \in Parties :
    mvp_context[p] # NoContext /\ secret_key[p] # NoKey
      => /\ prod.kind \in {"matvec", "updated"} => DecryptOk(p)
         /\ prod.kind = "fma" => ~DecryptOk(p)

(* As long as the card's input and output worked, no sequence of setups    *)
(* that fail half-way, kills, renewed contexts and other programs makes a  *)
(* context that MatVec accepts while it has no public key, or the card has *)
(* no whole set of keys, or is still reading them.                         *)
EnabledHasKeys ==
  LET hasKeys == cardKey \in Keys /\ fetch = NoFetch
  IN faults = 0 /\ kernel = Free =>
       /\ \A p \in Parties : mvp_context[p].enabled =>
            mvp_context[p].pk \in Keys /\ hasKeys
       /\ \A c \in Clis : At(c, "multiply") => hasKeys

(* As long as the card's input and output worked, the card has, whenever   *)
(* the semaphore is free, the keys of the last SetupEvalKey that returned  *)
(* OK, and no others: the program that returns has the public key that     *)
(* belongs to them and may multiply, and neither a setup that fails nor a  *)
(* program that is killed changes what another one works with.             *)
CardFollowsSetup ==
  [][faults' = 0 /\ kernel' = Free =>
       IF kernel = Free THEN cardKey' = cardKey
       ELSE \/ \E p \in Parties :
                 /\ kernel.by = p
                 /\ mvp_context'[p] = [pk |-> cardKey', enabled |-> TRUE]
            \/ \E c \in Clis :
                 /\ kernel.by = c
                 /\ cli'[c].pc = "multiply" /\ cli'[c].evk = cardKey']_vars

(* A "matvec" run on such files that nobody disturbs, on a machine where   *)
(* no other key was set up and the card's input and output worked,         *)
(* decrypts the right product.                                             *)
CliRight ==
  faults = 0 => \A c \in Clis :
    At(c, "save") /\ cli[c].solo /\ trusted /\ setups = {cli[c].evk}
      => CliResult(c) = CliWanted(c)
=============================================================================
