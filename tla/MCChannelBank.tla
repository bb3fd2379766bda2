-------------------------- MODULE MCChannelBank --------------------------
(* Model-checking instances of ChannelBank. *)
EXTENDS ChannelBank

CONSTANTS c1, c2

Ids == {c1, c2}
Sizes == {1, 2}
Symmetry == Permutations(Ids)
=============================================================================
