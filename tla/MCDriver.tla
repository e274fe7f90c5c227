------------------------------ MODULE MCDriver ------------------------------
(* Values for the constants of FpgaDriver.                                 *)
EXTENDS FpgaDriver, TLC

OneKey   == [p \in Callers |-> "evk"]
Perms    == Permutations(Callers)
=============================================================================
