------------------------- MODULE MCFaultDisputeGame -------------------------
EXTENDS FaultDisputeGame
MCVm == [v \in Values |-> IF v = "merge" THEN "right" ELSE IF v = "junk" THEN None ELSE v]
=============================================================================
