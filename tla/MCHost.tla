------------------------------- MODULE MCHost -------------------------------
(* One machine on a small instance: two row blocks, and either two python  *)
(* objects or two command line runs.                                       *)
EXTENDS MvpHost, TLC

MCCtSizes   == <<7, 3>>
MCCliShapes == {[nrows |-> r, ncols |-> 5] : r \in {1, 2}}
MCTeams     == {Parties, Clis}
Symmetry    == Permutations(Keys) \cup Permutations(Parties)
                 \cup Permutations(Clis)
=============================================================================
