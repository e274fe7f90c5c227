----------------------------- MODULE MCPipeline -----------------------------
(* Values for the constants of MvpPipeline.                                *)
EXTENDS MvpPipeline

Job(l, s, i) == [level |-> l, split |-> s, index |-> i]

(* Every shape with at most MaxN levels that the driver can ask for.       *)
AllJobs == {j \in [level : 1..MaxN, split : 1..4, index : {2^k : k \in 0..MaxN}] :
              (j.split = 1 \/ j.index = 1) /\ j.index <= 2^(j.level - 1)}
=============================================================================
