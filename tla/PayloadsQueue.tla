--------------------------- MODULE PayloadsQueue ---------------------------
(***************************************************************************)
(* The bounded buffer of unsafe payloads of the engine queue               *)
(* (derive/payloads_queue.go): a heap ordered by block number, the set of  *)
(* hashes it holds, and the memory it uses.  A payload is identified by    *)
(* its block hash; the heap is the set of payloads in it, from which any   *)
(* one with the lowest block number may be at the top.                     *)
(***************************************************************************)
EXTENDS Integers, FiniteSets, FiniteSetsExt

CONSTANTS
    Payloads,      \* payloads that may be received, one per block hash
    BlockNumber,   \* [Payloads -> Nat]
    PayloadSize,   \* [Payloads -> Nat]: what SizeFn returns
    MaxSize        \* memory limit of the queue

ASSUME PayloadsQueueAssumption ==
    /\ BlockNumber \in [Payloads -> Nat]
    /\ PayloadSize \in [Payloads -> Nat \ {0}]
    /\ MaxSize \in Nat

VARIABLES
    pq,            \* payloads in the heap
    currentSize,   \* memory counted so far
    blockHashes    \* hashes that Push refuses as duplicates

pqVars == <<pq, currentSize, blockHashes>>

SizeOf(S) == SumFunctionOnSet(PayloadSize, S)

(* S holds only payloads that the heap yields before those of Q outside S. *)
Lowest(S, Q) == \A p \in S, q \in Q \ S : BlockNumber[p] <= BlockNumber[q]

(* Mutant of Evicted: the highest payloads go. *)
EvictedHighest(Q, size) ==
    {E \in SUBSET Q :
        /\ size - SizeOf(E) <= MaxSize
        /\ E = {} \/ \E p \in E : size - SizeOf(E \ {p}) > MaxSize
        /\ \A p \in E, q \in Q \ E : BlockNumber[p] >= BlockNumber[q]}

(* The payloads that popping the heap Q removes until its size, size at    *)
(* first, is within the limit: the last one popped was still needed.       *)
Evicted(Q, size) ==
    {E \in SUBSET Q :
        /\ size - SizeOf(E) <= MaxSize
        /\ Lowest(E, Q)
        /\ E = {} \/ \E p \in E : /\ Lowest(E \ {p}, Q)
                                  /\ size - SizeOf(E \ {p}) > MaxSize}

(* Push of a payload that is neither a known hash nor larger than the      *)
(* queue; a refused one changes nothing.  Its hash is recorded last, after *)
(* the evictions have removed theirs.                                      *)
Push(p) ==
    /\ p \notin blockHashes
    /\ PayloadSize[p] <= MaxSize
    /\ \E E \in Evicted(pq \cup {p}, currentSize + PayloadSize[p]) :
          /\ pq' = (pq \cup {p}) \ E
          /\ currentSize' = currentSize + PayloadSize[p] - SizeOf(E)
          /\ blockHashes' = (blockHashes \ E) \cup {p}

(* What Peek may return: the top of the heap. *)
Peek == {p \in pq : \A q \in pq : BlockNumber[p] <= BlockNumber[q]}

Pop(p) ==
    /\ p \in Peek
    /\ pq' = pq \ {p}
    /\ currentSize' = currentSize - PayloadSize[p]
    /\ blockHashes' = blockHashes \ {p}

Init ==
    /\ pq = {}
    /\ currentSize = 0
    /\ blockHashes = {}

Next == \E p \in Payloads : Push(p) \/ Pop(p)

Spec == Init /\ [][Next]_pqVars

-----------------------------------------------------------------------------
(* Push gives up payloads for higher block numbers only, and only as many  *)
(* as it has to: what one Push removes, itself included, would not fit     *)
(* with what it keeps, and has no higher number than anything kept.        *)
KeepsHighest ==
    [][\A p \in Payloads :
          p \in blockHashes' \ blockHashes =>
              LET lost == (pq \cup {p}) \ pq'
              IN  /\ Lowest(lost, pq \cup {p})
                  /\ \E q \in lost \cup {p} : lost = {} \/ SizeOf(pq' \cup {q}) > MaxSize]_pqVars

(* A payload refused as a duplicate is in the queue: the error that Push   *)
(* returns is true.                                                        *)
DuplicatesAreQueued == blockHashes \subseteq pq
=============================================================================
