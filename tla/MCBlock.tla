------------------------------ MODULE MCBlock -------------------------------
(* Values for the constants of BlockMatVec.                                *)
EXTENDS BlockMatVec, TLC

Shape(r, c) == [nrows |-> r, ncols |-> c]

(* One block, a second row block that the special case makes, and column   *)
(* blocks beside it.                                                       *)
FewShapes == {Shape(3, 2), Shape(5, 1), Shape(5, 3)}

(* Up to four row blocks with every remainder, and up to three column      *)
(* blocks beside one or two of them.                                       *)
ManyShapes == [nrows : 1..13, ncols : {2}] \cup [nrows : 1..5, ncols : 1..5]

Perms == Permutations(Workers)
=============================================================================
