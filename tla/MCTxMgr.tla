------------------------------ MODULE MCTxMgr ------------------------------
(* Model-checking instances of TxMgr: the fees of s1 can be raised once. *)
EXTENDS TxMgr

CONSTANTS s1, s2

Two == {s1, s2}
MCVersions == [s \in Sends |-> IF s = s1 THEN 2 ELSE 1]
=============================================================================
