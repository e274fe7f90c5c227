------------------------------ MODULE PackTree ------------------------------
(***************************************************************************)
(* What the pipeline computes in a run: the leaves arrive in order, two    *)
(* neighbouring blocks of equal size whose union is aligned are packed     *)
(* into one, and the run ends with the one block that has every leaf.      *)
(***************************************************************************)
EXTENDS Naturals, FiniteSets

CONSTANT MaxLevel

VARIABLES
  running,
  level,   \* a run has 2^(level-1) leaves
  forest,  \* the blocks packed so far
  result   \* what the run that ended last delivered

vars == <<running, level, forest, result>>

All == 0..(2^(level - 1) - 1)

Init ==
  /\ running = FALSE
  /\ level \in 1..MaxLevel
  /\ forest = {}
  /\ result = {}

Begin ==
  /\ ~running
  /\ running' = TRUE
  /\ level' \in 1..MaxLevel
  /\ forest' = {}
  /\ result' = {}

Arrive ==
  LET next == Cardinality(UNION forest)
  IN /\ running
     /\ next \in All
     /\ forest' = forest \cup {{next}}
     /\ UNCHANGED <<running, level, result>>

Siblings(a, b) ==
  \E k \in 0..(level - 2) : \E i \in 0..(2^(level - 2 - k) - 1) :
    /\ a = (2 * i * 2^k)..((2 * i + 1) * 2^k - 1)
    /\ b = ((2 * i + 1) * 2^k)..((2 * i + 2) * 2^k - 1)

Pack ==
  /\ running
  /\ \E a, b \in forest : /\ Siblings(a, b)
                          /\ forest' = (forest \ {a, b}) \cup {a \cup b}
  /\ UNCHANGED <<running, level, result>>

Deliver ==
  /\ running
  /\ forest = {All}
  /\ running' = FALSE
  /\ forest' = {}
  /\ result' = All
  /\ UNCHANGED level

Next == Begin \/ Arrive \/ Pack \/ Deliver

Spec == /\ Init /\ [][Next]_vars
        /\ WF_vars(Arrive) /\ WF_vars(Pack) /\ WF_vars(Deliver)
=============================================================================
