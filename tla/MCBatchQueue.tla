---------------------------- MODULE MCBatchQueue ----------------------------
(***************************************************************************)
(* Three sequencer chains that part after block 1 and one that is silent   *)
(* until block 6, cut into batches.                                        *)
(***************************************************************************)
EXTENDS BatchQueue

B(e, t) == [epoch |-> e, txs |-> t]

MCL1Time == [n \in 0..5 |-> <<0, 3, 5, 11, 12, 15>>[n + 1]]

\* The first chain uses every origin in time; its block 5 is past the drift of
\* epoch 2 and empty, since L1 block 3 is late.
Main == <<B(0, "ok"), B(1, "ok"), B(1, "ok"), B(2, "ok"), B(2, "none"), B(3, "ok")>>
\* The second stays at epoch 0 past its drift, which is valid for nobody who
\* knows L1 block 1, and has a transaction no batch may hold.
Side == <<B(0, "ok"), B(0, "none"), B(0, "forbidden")>>
\* The third advances at once and has transactions the engine rejects.
Fast == <<B(0, "ok"), B(1, "none"), B(2, "ok"), B(2, "bad")>>

\* The chain that is derived without any batch, and a block on it that skips
\* epoch 3, whose window is still open when epoch 2 is given up.
Silent == <<B(0, "none"), B(1, "none"), B(2, "none"), B(2, "none"), B(2, "none"), B(4, "ok")>>

Segment(type, c, i, j) ==
    [type |-> type, time |-> i * BlockTime, parent |-> SubSeq(c, 1, i - 1),
     blocks |-> SubSeq(c, i, j), originOk |-> TRUE]
Single(c, i) == Segment("singular", c, i, i)
Span(c, i, j) == Segment("span", c, i, j)

\* A span batch whose time is not that of a block, and a batch for an L1 block
\* that was reorganised away.
Misaligned == [Span(Main, 2, 3) EXCEPT !.time = 3]
Orphaned == [Span(Main, 2, 4) EXCEPT !.originOk = FALSE]

MCChannels ==
    { <<Single(Main, 1)>>,
      <<Single(Main, 1), Misaligned, Single(Main, 2)>>,
      <<Orphaned, Single(Side, 2), Garbage>>,
      <<Span(Side, 2, 3)>>,
      <<Single(Fast, 2)>>,
      <<Span(Main, 1, 3)>>,
      <<Span(Main, 2, 5)>>,
      <<Span(Fast, 2, 4)>>,
      <<Single(Silent, 6)>> }

MCBatches == UNION {Range(ch) : ch \in MCChannels} \ {Garbage}
=============================================================================
