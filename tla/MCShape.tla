------------------------------ MODULE MCShape -------------------------------
(* Values for the constants of KernelShape.                                *)
EXTENDS KernelShape

(* Every shape, those that are refused at the edges included.              *)
AllShapes == [nrows : 0..(N + 1), ncols : 0..(4 * N + 1)]

(* The largest shape that the constructor takes with three vector parts.   *)
WideShapes == {[nrows |-> N, ncols |-> 3 * N - 1]}

(* One thread, as many as there are row blocks of some shapes, and eight.  *)
FewPoolSizes == {1, 3, 8}
=============================================================================
