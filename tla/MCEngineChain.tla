--------------------------- MODULE MCEngineChain ---------------------------
(***************************************************************************)
(* An L1 chain without forks and a chain of L2 blocks, one per L1 block,   *)
(* long enough for a reset to move the safe head back by a sequencing      *)
(* window; the batch of an L2 block is included one L1 block after its     *)
(* origin, that of the last one with the one before.                       *)
(***************************************************************************)
EXTENDS EngineQueue

MCBlocks == 0..4

MCNoBlock == -1

MCRefs == MCBlocks \cup {NoBlock}

At(n) == [num |-> n, fork |-> 0]

MCParent == [b \in MCRefs |-> IF b > 0 THEN b - 1 ELSE NoBlock]
MCNumber == [b \in MCRefs |-> IF b > 0 THEN b ELSE 0]
MCChain == [b \in MCRefs |-> IF b = NoBlock THEN {NoBlock} ELSE 0..b]
MCL1Origin == [b \in MCRefs |-> IF b = NoBlock THEN NoL1 ELSE At(b)]
MCIncluded == [b \in MCRefs |-> IF b = NoBlock THEN NoL1 ELSE
                                IF b \in 1..3 THEN At(b + 1) ELSE At(b)]
MCSize == [b \in MCBlocks |-> 1]
=============================================================================
