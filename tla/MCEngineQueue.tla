--------------------------- MODULE MCEngineQueue ---------------------------
(***************************************************************************)
(* An L1 chain that forks at height 2, and five L2 blocks: a1 and its      *)
(* competitor b1 at height 1; on a1, a2 with its batch in the L1 block     *)
(* that a fork replaces, and on a2, a3 with its origin there too.          *)
(***************************************************************************)
EXTENDS EngineQueue

CONSTANTS g, a1, b1, a2, a3

MCBlocks == {g, a1, b1, a2, a3}

At(n, f) == [num |-> n, fork |-> f]

Tree ==
    [b \in MCBlocks \cup {NoBlock} |->
        CASE b = g  -> [parent |-> NoBlock, number |-> 0, origin |-> At(0, 0), included |-> At(0, 0)]
          [] b = a1 -> [parent |-> g,  number |-> 1, origin |-> At(1, 0), included |-> At(1, 0)]
          [] b = b1 -> [parent |-> g,  number |-> 1, origin |-> At(1, 0), included |-> At(1, 0)]
          [] b = a2 -> [parent |-> a1, number |-> 2, origin |-> At(1, 0), included |-> At(2, 0)]
          [] b = a3 -> [parent |-> a2, number |-> 3, origin |-> At(2, 0), included |-> At(2, 0)]
          [] OTHER  -> [parent |-> NoBlock, number |-> 0, origin |-> NoL1, included |-> NoL1]]

MCParent == [b \in MCBlocks \cup {NoBlock} |-> Tree[b].parent]
MCNumber == [b \in MCBlocks \cup {NoBlock} |-> Tree[b].number]
MCL1Origin == [b \in MCBlocks \cup {NoBlock} |-> Tree[b].origin]
MCIncluded == [b \in MCBlocks \cup {NoBlock} |-> Tree[b].included]
MCChain == [b \in MCBlocks \cup {NoBlock} |->
               CASE b \in {g, NoBlock} -> {b}
                 [] b \in {a1, b1} -> {g, b}
                 [] b = a2 -> {g, a1, a2}
                 [] OTHER -> {g, a1, a2, a3}]
MCSize == [b \in MCBlocks |-> 1]
=============================================================================
