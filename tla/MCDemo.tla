------------------------------- MODULE MCDemo -------------------------------
(* Two columns, one to three rows; entries up to 7 in absolute value.      *)
EXTENDS LoopDemo

MCq     == <<29, 31>>
MCCases ==
  {[mat   |-> [r \in 1..n |-> [c \in 1..2 |-> IF (r + c) % 2 = 0 THEN a ELSE b]],
    vec   |-> v, v1 |-> w, rand |-> x, noise |-> e] :
     n \in {1, 2, 3}, a \in {1, 57}, b \in {6, 63},
     v \in {<<5, 40>>, <<0, 63>>}, w \in {<<0, 0>>, <<33, 7>>},
     x \in {0, 450, 898}, e \in {-2, 0, 2}}
=============================================================================
