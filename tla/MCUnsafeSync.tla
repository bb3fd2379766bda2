---------------------------- MODULE MCUnsafeSync ----------------------------
(* Three blocks of the sequencer's chain, the last two of them gossiped, a *)
(* block of another chain among those that peers serve, and a payloads     *)
(* queue with room for two.                                                *)
EXTENDS UnsafeSync

MCPayloads == {"c1", "c2", "c3", "f2"}
MCBlockNumber == [p \in MCPayloads |-> CASE p = "c1" -> 1 [] p \in {"c2", "f2"} -> 2 [] p = "c3" -> 3]
MCParentHash == [p \in MCPayloads |-> CASE p = "c1" -> "g" [] p \in {"c2", "f2"} -> "c1" [] p = "c3" -> "c2"]
MCPayloadSize == [p \in MCPayloads |-> 1]
=============================================================================
