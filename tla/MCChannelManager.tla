------------------------- MODULE MCChannelManager -------------------------
(* Model-checking instances of ChannelManager: a chain of L2 blocks, one   *)
(* per L1 epoch.                                                           *)
EXTENDS ChannelManager

CONSTANTS MaxBlock, c1, c2, c3

Ids == {c1, c2, c3}
Symmetry == Permutations(Ids)

Chain == 1..MaxBlock
ChainParent == [b \in Chain |-> b - 1]
ChainEpoch == [b \in Chain |-> b]
=============================================================================
