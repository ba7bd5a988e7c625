------------------------- MODULE MCOpportunityServer -------------------------
(* Small instances of the gRPC server for TLC.                             *)
EXTENDS OpportunityServer

Opp(profit, stage1, valid) == [profit |-> profit, stage1 |-> stage1, valid |-> valid]

(* Nothing; one that passes; one the simulation rejects before one that    *)
(* passes and one that cannot be built.                                    *)
SomeDetections ==
    {<<>>, <<Opp(1, TRUE, TRUE)>>,
     <<Opp(2, FALSE, TRUE), Opp(2, TRUE, FALSE), Opp(1, TRUE, TRUE)>>}

OneMin == [s \in Subscribers |-> 2]
=============================================================================
