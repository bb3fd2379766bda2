------------------------- MODULE EngineQueueProofs -------------------------
(***************************************************************************)
(* Proofs about EngineQueue, for any tree of L2 blocks, any L1 chain with  *)
(* a fork, any windows and delays, with and without engine sync and lost   *)
(* replies.  The buffer of unsafe payloads is not looked into.             *)
(***************************************************************************)
EXTENDS EngineQueue, TLAPS

L1Refs == L1Blocks \cup {NoL1}

Entries == [l2 : Blocks, l1 : L1Refs]

(* The L1 chain and the pipeline's position on it. *)
L1Typed ==
    /\ l1Head \in 0..MaxL1 /\ l1Fork \in {0, 1}
    /\ origin \in L1Refs /\ prevOrigin \in L1Refs

(* What the engine finalized is on its chain. *)
EngineInv ==
    /\ eng \in [head : Blocks, safe : Blocks, finalized : Blocks]
    /\ eng.finalized \in Chain[eng.head]

(* The heads are ordered, in every mode; once a reset has set them they    *)
(* are blocks, and the finalized head descends from the engine's.          *)
HeadsInv ==
    /\ {finalized, safeHead, pendingSafeHead, unsafeHead, engineSyncTarget} \subseteq Refs
    /\ finalized \in Chain[safeHead] /\ safeHead \in Chain[pendingSafeHead]
    /\ mode = "run" => /\ {finalized, safeHead, pendingSafeHead} \subseteq Blocks
                       /\ eng.finalized \in Chain[finalized]

(* Attributes are for a child of the pending safe head. *)
AttributesInv ==
    safeAttributes # NoAttributes =>
        /\ safeAttributes.block \in Blocks \ {Genesis}
        /\ safeAttributes.parent = pendingSafeHead
        /\ Parent[safeAttributes.block] = pendingSafeHead

(* fd tracks ancestors of the safe head only. *)
Tracks(fd, safe) ==
    /\ fd \in Seq(Entries)
    /\ \A i \in DOMAIN fd : fd[i].l2 \in Chain[safe]

(* The inductive invariant. *)
IInv == L1Typed /\ EngineInv /\ HeadsInv /\ AttributesInv /\ Tracks(finalityData, safeHead)

(* L1 block a is not above b, and on the same fork. *)
SameFork(a, b) == a.num <= b.num /\ (a.num >= ForkPoint => a.fork = b.fork)

(* Block b is an ancestor of r, or its batch is in the L1 blocks up to o. *)
Derived(r, b, o) == b \in Chain[r] \/ OnL1Chain(Included[b], o)

(* fd tracks blocks derived from L1 data up to the block they are tracked  *)
(* at, on the chain of o.                                                  *)
TracksDerived(r, fd, o) ==
    \A i \in DOMAIN fd : SameFork(fd[i].l1, o) /\ Derived(r, fd[i].l2, fd[i].l1)

(* Unless the engine is still to be told, and while it syncs to a target,  *)
(* the safe head is on the unsafe chain.                                   *)
SettledInv ==
    mode = "run" /\ (~needForkchoiceUpdate \/ unsafeHead # engineSyncTarget) =>
        safeHead \in Chain[unsafeHead]

(* Where the pipeline is on L1, and the L1 block that is final for good. *)
FinalL1Inv ==
    /\ finalizedL1 \in L1Refs /\ l1Final \in Nat /\ resetSafe \in Refs
    /\ finalizedL1 = NoL1 \/ (Canonical(finalizedL1) /\ finalizedL1.num <= l1Final)
    /\ SameFork(origin, prevOrigin)

(* The safe head and the block of the attributes were derived from L1 data *)
(* up to the origin, the finalized head from finalized L1 data.            *)
DerivedInv ==
    /\ Derived(resetSafe, safeHead, origin)
    /\ safeAttributes # NoAttributes => OnL1Chain(Included[safeAttributes.block], origin)
    /\ TracksDerived(resetSafe, finalityData, origin)
    /\ Derived(resetSafe, finalized, finalizedL1)
    /\ finalized \notin Chain[resetSafe] => finalizedL1 # NoL1

(* The part of the invariant that rests on IInv. *)
IInv2 == SettledInv /\ ResetSafeComplete /\ FinalL1Inv /\ DerivedInv

-----------------------------------------------------------------------------
(* The tree of L2 blocks                                                   *)

(* A chain holds its own head and refs only, and the chains of all its     *)
(* members; only blocks have blocks on their chain.                        *)
LEMMA ChainBasic ==
    ASSUME NEW b \in Refs
    PROVE  /\ b \in Chain[b] /\ Chain[b] \subseteq Refs
           /\ \A c \in Chain[b] : Chain[c] \subseteq Chain[b]
           /\ \A c \in Chain[b] : c \in Blocks => b \in Blocks
<1>1. b \in Chain[b]
  <2>1. /\ Chain[Genesis] = {Genesis} /\ Chain[NoBlock] = {NoBlock}
        /\ \A c \in Blocks \ {Genesis} : Chain[c] = Chain[Parent[c]] \cup {c}
    BY EngineQueueAssumption
  <2> QED BY <2>1 DEF Refs
<1>2. Chain[b] \subseteq Refs
  BY EngineQueueAssumption
<1>3. \A c \in Chain[b] : Chain[c] \subseteq Chain[b]
  BY EngineQueueAssumption
<1>4. \A c \in Chain[b] : c \in Blocks => b \in Blocks
  BY EngineQueueAssumption DEF Refs
<1> QED BY <1>1, <1>2, <1>3, <1>4

(* Of two blocks of a chain the lower is an ancestor of the higher. *)
LEMMA ChainOrder ==
    ASSUME NEW b \in Refs, NEW c \in Chain[b], NEW d \in Chain[b], Number[c] <= Number[d]
    PROVE  c \in Chain[d]
BY EngineQueueAssumption

LEMMA ChainParent ==
    ASSUME NEW b \in Blocks \ {Genesis}
    PROVE  /\ Parent[b] \in Blocks /\ Parent[b] \in Chain[b]
           /\ Number[b] = Number[Parent[b]] + 1 /\ Chain[Parent[b]] \subseteq Chain[b]
<1>1. Parent[b] \in Blocks /\ Chain[b] = Chain[Parent[b]] \cup {b}
      /\ Number[b] = Number[Parent[b]] + 1
  BY EngineQueueAssumption
<1>2. Parent[b] \in Chain[Parent[b]]
  BY <1>1, ChainBasic DEF Refs
<1> QED BY <1>1, <1>2

(* Highest returns a member that no other is above. *)
LEMMA HighestOfChain ==
    ASSUME NEW b \in Refs, NEW S \in SUBSET Chain[b], S # {}
    PROVE  Highest(S) \in S /\ \A c \in S : Number[c] <= Number[Highest(S)]
<1>1. \A r \in Refs : \A T \in SUBSET Chain[r] :
         T # {} => \E c \in T : \A d \in T : Number[d] <= Number[c]
  BY EngineQueueAssumption
<1>2. \E c \in S : \A d \in S : Number[d] <= Number[c]
  BY <1>1, Zenon
<1> QED BY <1>2 DEF Highest

LEMMA HighestIsRef ==
    ASSUME NEW b \in Refs, NEW S \in SUBSET Chain[b]
    PROVE  Highest(S) \in Refs
<1>1. CASE S = {}
  BY <1>1 DEF Highest, Refs
<1>2. CASE S # {}
  BY <1>2, HighestOfChain, ChainBasic
<1> QED BY <1>1, <1>2

-----------------------------------------------------------------------------
(* The helpers of the engine queue                                         *)

(* A valid update leaves the finalized block on the engine's chain. *)
LEMMA FcuKeepsEngine ==
    ASSUME EngineInv, NEW h \in Refs, NEW s \in Blocks, NEW f \in Blocks, FcuValid(h, s, f)
    PROVE  /\ Fcu(h, s, f) \in [head : Blocks, safe : Blocks, finalized : Blocks]
           /\ Fcu(h, s, f).finalized = f
           /\ Fcu(h, s, f).finalized \in Chain[Fcu(h, s, f).head]
<1>1. h \in Blocks
  BY ChainBasic DEF FcuValid
<1>2. eng.head \in Refs /\ (h \in Chain[eng.head] => Chain[h] \subseteq Chain[eng.head])
  BY ChainBasic DEF EngineInv, Refs
<1> QED BY <1>1, <1>2 DEF Fcu, FcuValid, EngineInv

(* Finality data stays with ancestors of the safe head. *)
LEMMA TracksDescendant ==
    ASSUME NEW fd, NEW s, NEW t \in Refs, s \in Chain[t], Tracks(fd, s)
    PROVE  Tracks(fd, t)
BY ChainBasic DEF Tracks

(* What the finality data has after an update: old entries, the safe head  *)
(* at o, or in place of the last L2 block if that was tracked at o too.    *)
LEMMA PostProcessEntries ==
    ASSUME NEW fd \in Seq(Entries), NEW safe \in Blocks, NEW o \in L1Refs
    PROVE  LET new == PostProcessSafeL2(fd, safe, o)
           IN  /\ new \in Seq(Entries)
               /\ \A i \in DOMAIN new :
                     \/ \E j \in DOMAIN fd : new[i] = fd[j]
                     \/ new[i].l2 = safe /\ new[i].l1 = o
                     \/ \E j \in DOMAIN fd : /\ new[i].l2 = safe /\ new[i].l1 = fd[j].l1
                                            /\ ~(fd[j].l1.num < o.num)
<1> DEFINE kept == IF Len(fd) >= FinalityLookback THEN SubSeq(fd, 2, FinalityLookback) ELSE fd
           e == [l2 |-> safe, l1 |-> o]
           n == Len(kept)
           moved == [kept EXCEPT ![n].l2 = safe]
           new == PostProcessSafeL2(fd, safe, o)
<1>1. e \in Entries /\ e.l2 = safe /\ e.l1 = o
  BY DEF Entries
<1>2. kept \in Seq(Entries) /\ \A i \in DOMAIN kept : \E j \in DOMAIN fd : kept[i] = fd[j]
  <2>1. CASE Len(fd) >= FinalityLookback
    <3> DEFINE k == FinalityLookback
    <3>1. k \in Nat /\ k <= Len(fd)
      BY <2>1, EngineQueueAssumption
    <3>2. kept = SubSeq(fd, 2, k)
      BY <2>1
    <3> HIDE DEF k, kept
    <3>3. kept \in Seq(Entries)
      <4>1. \A i \in 2..k : fd[i] \in Entries
        BY <3>1
      <4> QED BY <3>1, <3>2, <4>1
    <3>4. \A i \in DOMAIN kept : i + 1 \in DOMAIN fd /\ kept[i] = fd[i + 1]
      BY <3>1, <3>2
    <3> QED BY <3>3, <3>4
  <2>2. CASE ~(Len(fd) >= FinalityLookback)
    BY <2>2
  <2> QED BY <2>1, <2>2
<1>3. \/ new = Append(kept, e)
      \/ kept # <<>> /\ ~(kept[n].l1.num < o.num) /\ new = moved
  BY DEF PostProcessSafeL2
<1> HIDE DEF kept, e, new
<1>4. CASE new = Append(kept, e)
  <2>1. new \in Seq(Entries) /\ DOMAIN new = 1..(n + 1) /\ n \in Nat /\ new[n + 1] = e
        /\ \A i \in 1..n : new[i] = kept[i] /\ i \in DOMAIN kept
    BY <1>1, <1>2, <1>4
  <2>2. \A i \in 1..(n + 1) : i \in 1..n \/ i = n + 1
    BY <2>1
  <2> QED BY <1>1, <1>2, <2>1, <2>2 DEF new
<1>5. CASE kept # <<>> /\ ~(kept[n].l1.num < o.num) /\ new = moved
  <2>1. n \in 1..n /\ DOMAIN kept = 1..n /\ n \in Nat
    BY <1>2, <1>5
  <2>2. moved = [i \in 1..n |-> IF i = n THEN [kept[n] EXCEPT !.l2 = safe] ELSE kept[i]]
    BY <2>1
  <2>3. kept[n] \in Entries
    BY <1>2, <2>1
  <2>4. /\ [kept[n] EXCEPT !.l2 = safe] \in Entries /\ [kept[n] EXCEPT !.l2 = safe].l2 = safe
        /\ [kept[n] EXCEPT !.l2 = safe].l1 = kept[n].l1
    BY <2>3 DEF Entries
  <2>5. DOMAIN new = 1..n /\ new = [i \in 1..n |-> new[i]]
    BY <1>5, <2>2
  <2>6. new[n] = [kept[n] EXCEPT !.l2 = safe] /\ \A i \in 1..n : i # n => new[i] = kept[i]
    BY <1>5, <2>1, <2>2
  <2>7. new[n] \in Entries /\ new[n].l2 = safe /\ new[n].l1 = kept[n].l1
    BY <2>4, <2>6
  <2>8. \A i \in 1..n : new[i] \in Entries
    BY <1>2, <2>1, <2>6, <2>7
  <2>9. new \in Seq(Entries)
    BY <2>1, <2>5, <2>8
  <2>10. PICK j \in DOMAIN fd : kept[n] = fd[j]
    BY <1>2, <2>1
  <2>11. new[n].l2 = safe /\ new[n].l1 = fd[j].l1 /\ ~(fd[j].l1.num < o.num)
    BY <1>5, <2>7, <2>10
  <2>12. \A i \in 1..n : i # n => \E k \in DOMAIN fd : new[i] = fd[k]
    BY <1>2, <2>1, <2>6
  <2> QED BY <2>5, <2>9, <2>11, <2>12 DEF new
<1> QED BY <1>3, <1>4, <1>5

LEMMA PostProcessTracks ==
    ASSUME NEW fd, NEW safe \in Blocks, NEW o \in L1Refs, Tracks(fd, safe)
    PROVE  Tracks(PostProcessSafeL2(fd, safe, o), safe)
<1> DEFINE new == PostProcessSafeL2(fd, safe, o)
<1>1. fd \in Seq(Entries) /\ safe \in Chain[safe] /\ \A i \in DOMAIN fd : fd[i].l2 \in Chain[safe]
  BY ChainBasic DEF Tracks, Refs
<1>2. new \in Seq(Entries)
      /\ \A i \in DOMAIN new : new[i].l2 = safe \/ \E j \in DOMAIN fd : new[i] = fd[j]
  BY <1>1, PostProcessEntries
<1> HIDE DEF new
<1> QED BY <1>1, <1>2 DEF Tracks, new

(* tryFinalizeL2 moves the finalized head up the chain of the safe head. *)
LEMMA FinalizeAdvances ==
    ASSUME NEW fd, NEW b, NEW o, Tracks(fd, safeHead), safeHead \in Refs,
           finalized \in Chain[safeHead], TryFinalizeL2(fd, b, o)
    PROVE  /\ finalized' \in Chain[safeHead] /\ finalized \in Chain[finalized']
           /\ finalized' \in Refs /\ (finalized \in Blocks => finalized' \in Blocks)
<1>0. finalized \in Refs /\ finalized \in Chain[finalized] /\ Number \in [Refs -> Nat]
  BY ChainBasic, EngineQueueAssumption
<1>1. CASE Finalizable(fd, b) = {}
  BY <1>0, <1>1 DEF TryFinalizeL2
<1>2. CASE Finalizable(fd, b) # {}
  <2>1. PICK i \in Finalizable(fd, b) : finalized' = fd[i].l2
    BY <1>2 DEF TryFinalizeL2
  <2>2. /\ fd[i].l2 \in Blocks /\ fd[i].l2 \in Chain[safeHead]
        /\ Number[fd[i].l2] > Number[finalized]
    <3>1. i \in DOMAIN fd /\ Number[fd[i].l2] > Number[finalized]
      BY DEF Finalizable
    <3>2. fd \in Seq(Entries) /\ fd[i].l2 \in Chain[safeHead]
      BY <3>1 DEF Tracks
    <3>3. fd[i] \in Entries
      BY <3>1, <3>2
    <3> QED BY <3>1, <3>2, <3>3 DEF Entries
  <2>3. finalized \in Chain[fd[i].l2]
    BY <1>0, <2>2, ChainOrder DEF Refs
  <2> QED BY <2>1, <2>2, <2>3 DEF Refs
<1> QED BY <1>1, <1>2

(* A reset finds a safe head that descends from the engine's finalized     *)
(* block.                                                                  *)
LEMMA ResetHeads ==
    ASSUME EngineInv, NEW n, n = WalkEnd, ~FindL2HeadsFails(n)
    PROVE  FoundSafe(n) \in Blocks /\ eng.finalized \in Chain[FoundSafe(n)]
<1> DEFINE S == {m \in Chain[eng.head] : Number[m] = Number[eng.finalized] \/ WindowComplete(m)}
<1>0. /\ eng.head \in Refs /\ eng.finalized \in Blocks /\ eng.finalized \in Refs
      /\ Chain[eng.head] \subseteq Refs /\ Number \in [Refs -> Nat]
  BY ChainBasic, EngineQueueAssumption DEF EngineInv, Refs
<1>1. eng.finalized \in S
  BY DEF EngineInv
<1>2. n \in S /\ Number[eng.finalized] <= Number[n]
  BY <1>0, <1>1, HighestOfChain DEF WalkEnd
<1>3. CASE Number[n] = Number[eng.finalized]
  <2>1. n = eng.finalized
    BY <1>3 DEF FindL2HeadsFails
  <2> QED BY <1>0, <1>3, <2>1, ChainBasic DEF FoundSafe
<1>4. CASE Number[n] # Number[eng.finalized]
  <2>1. n \in Blocks \ {Genesis}
    BY <1>0, <1>2, <1>4, EngineQueueAssumption DEF Refs
  <2>2. /\ Parent[n] \in Blocks /\ Parent[n] \in Chain[n] /\ Number[n] = Number[Parent[n]] + 1
    BY <2>1, ChainParent
  <2>3. Parent[n] \in Chain[eng.head]
    BY <1>0, <1>2, <2>2, ChainBasic
  <2>4. Number[eng.finalized] <= Number[Parent[n]]
    BY <1>0, <1>2, <1>4, <2>2 DEF Refs
  <2>5. eng.finalized \in Chain[Parent[n]]
    BY <1>0, <1>1, <2>3, <2>4, ChainOrder
  <2> QED BY <1>4, <2>2, <2>5 DEF FoundSafe
<1> QED BY <1>3, <1>4

-----------------------------------------------------------------------------
(* Steps                                                                   *)

(* A step of the driver leaves the engine alone or sends it a valid        *)
(* forkchoice with the finalized head of the queue.                        *)
EngineStep ==
    \/ eng' = eng
    \/ mode = "run" /\ \E h \in Refs, s \in Blocks :
                          FcuValid(h, s, finalized) /\ eng' = Fcu(h, s, finalized)

(* What every step does to the heads and to the engine. *)
Advances ==
    /\ Running /\ mode' = "run" => finalized \in Chain[finalized'] /\ safeHead \in Chain[safeHead']
    /\ eng.finalized \in Chain[eng.finalized']

LEMMA EngineStepKeeps ==
    ASSUME IInv, EngineStep
    PROVE  /\ EngineInv' /\ eng.finalized \in Chain[eng.finalized']
           /\ mode = "run" => eng.finalized' \in Chain[finalized]
<1>1. eng.finalized \in Chain[eng.finalized] /\ (mode = "run" => finalized \in Chain[finalized])
  BY ChainBasic DEF IInv, EngineInv, HeadsInv, Refs
<1>2. CASE eng' = eng
  BY <1>1, <1>2 DEF IInv, EngineInv, HeadsInv
<1>3. CASE eng' # eng
  <2>1. PICK h \in Refs, s \in Blocks : FcuValid(h, s, finalized) /\ eng' = Fcu(h, s, finalized)
    BY <1>3 DEF EngineStep
  <2>2. mode = "run" /\ finalized \in Blocks /\ eng.finalized \in Chain[finalized]
    BY <1>3 DEF EngineStep, IInv, HeadsInv
  <2>3. /\ eng' \in [head : Blocks, safe : Blocks, finalized : Blocks]
        /\ eng'.finalized = finalized /\ eng'.finalized \in Chain[eng'.head]
    BY <2>1, <2>2, FcuKeepsEngine DEF IInv
  <2> QED BY <1>1, <2>2, <2>3 DEF EngineInv
<1> QED BY <1>2, <1>3

(* Steps that move neither the heads above nor the attributes. *)
LEMMA HeadsUnmoved ==
    ASSUME IInv, EngineStep, L1Typed', mode' = "run" => mode = "run",
           unsafeHead' \in Refs, engineSyncTarget' \in Refs,
           UNCHANGED <<finalized, safeHead, pendingSafeHead, safeAttributes, finalityData>>
    PROVE  IInv' /\ Advances
<1>1. /\ EngineInv' /\ eng.finalized \in Chain[eng.finalized']
      /\ mode = "run" => eng.finalized' \in Chain[finalized]
  BY EngineStepKeeps
<1>2. finalized \in Chain[finalized] /\ safeHead \in Chain[safeHead]
  BY ChainBasic DEF IInv, HeadsInv
<1>3. HeadsInv'
  BY <1>1 DEF IInv, HeadsInv
<1>4. AttributesInv'
  BY DEF IInv, AttributesInv
<1>5. Tracks(finalityData, safeHead)'
  BY DEF IInv, Tracks
<1> QED BY <1>1, <1>2, <1>3, <1>4, <1>5 DEF IInv, Advances

(* Blocks of the L1 chain that the fetcher shows. *)
LEMMA L1AtTyped ==
    ASSUME l1Fork \in {0, 1}, NEW n \in 0..MaxL1
    PROVE  L1At(n) \in L1Refs
<1>0. ForkPoint \in Nat /\ MaxL1 \in Nat
  BY EngineQueueAssumption
<1>1. CASE n >= ForkPoint
  BY <1>0, <1>1 DEF L1At, L1Refs, L1Blocks
<1>2. CASE ~(n >= ForkPoint)
  BY <1>0, <1>2 DEF L1At, L1Refs, L1Blocks
<1> QED BY <1>1, <1>2

(* The block that the attributes are for extends the pending safe head. *)
LEMMA AttributesExtend ==
    ASSUME IInv, mode = "run", safeAttributes # NoAttributes
    PROVE  /\ safeAttributes.block \in Blocks
           /\ pendingSafeHead \in Chain[safeAttributes.block]
           /\ safeHead \in Chain[safeAttributes.block]
           /\ finalized \in Chain[safeAttributes.block]
           /\ safeAttributes.block \in Chain[safeAttributes.block]
<1> DEFINE b == safeAttributes.block
<1>1. b \in Blocks \ {Genesis} /\ Parent[b] = pendingSafeHead
  BY DEF IInv, AttributesInv
<1>2. pendingSafeHead \in Chain[b] /\ b \in Refs /\ b \in Chain[b]
  BY <1>1, ChainParent, ChainBasic DEF Refs
<1>3. safeHead \in Chain[b]
  BY <1>2, ChainBasic DEF IInv, HeadsInv
<1>4. finalized \in Chain[b]
  BY <1>2, <1>3, ChainBasic DEF IInv, HeadsInv
<1> QED BY <1>1, <1>2, <1>3, <1>4

(* The attributes' block becomes the pending safe head and, at the end of  *)
(* a span, the safe head.                                                  *)
LEMMA AttributesApplied ==
    ASSUME IInv, EngineStep, L1Typed', mode = "run", safeAttributes # NoAttributes,
           unsafeHead' \in Refs, engineSyncTarget' \in Refs,
           finalized' = finalized, pendingSafeHead' = safeAttributes.block,
           safeHead' = SafeIfLast(safeAttributes.block), safeAttributes' = NoAttributes,
           finalityData' = IF safeAttributes.last
                           THEN PostProcessSafeL2(finalityData, safeAttributes.block, origin)
                           ELSE finalityData
    PROVE  IInv' /\ Advances
<1> DEFINE b == safeAttributes.block
<1>1. /\ b \in Blocks /\ pendingSafeHead \in Chain[b] /\ safeHead \in Chain[b]
      /\ finalized \in Chain[b] /\ b \in Chain[b]
  BY AttributesExtend
<1>2. /\ EngineInv' /\ eng.finalized \in Chain[eng.finalized']
      /\ eng.finalized' \in Chain[finalized]
  BY EngineStepKeeps
<1>3. /\ {finalized, safeHead, pendingSafeHead} \subseteq Blocks
      /\ finalized \in Chain[safeHead]
      /\ finalized \in Chain[finalized] /\ safeHead \in Chain[safeHead]
  BY ChainBasic DEF IInv, HeadsInv
<1>4. safeHead' \in {b, safeHead}
  BY DEF SafeIfLast
<1>5. HeadsInv'
  BY <1>1, <1>2, <1>3, <1>4 DEF HeadsInv, Refs
<1>6. AttributesInv'
  BY DEF AttributesInv
<1>7. Tracks(finalityData', safeHead')
  <2>1. Tracks(finalityData, safeHead) /\ origin \in L1Refs
    BY DEF IInv, L1Typed
  <2>2. CASE safeAttributes.last
    <3>1. Tracks(finalityData, b)
      BY <1>1, <2>1, TracksDescendant DEF Refs
    <3>2. Tracks(PostProcessSafeL2(finalityData, b, origin), b)
      BY <1>1, <2>1, <3>1, PostProcessTracks
    <3> QED BY <2>2, <3>2 DEF SafeIfLast
  <2>3. CASE ~safeAttributes.last
    BY <2>1, <2>3 DEF SafeIfLast
  <2> QED BY <2>2, <2>3
<1> QED BY <1>1, <1>2, <1>3, <1>4, <1>5, <1>6, <1>7 DEF IInv, Advances

(* A step that takes the new origin and finalizes on the way.              *)
LEMMA OriginTaken ==
    ASSUME IInv, TakesOrigin
    PROVE  /\ finalized' \in Chain[safeHead] /\ finalized \in Chain[finalized']
           /\ finalized' \in Blocks /\ origin' \in L1Refs
           /\ Tracks(finalityData', safeHead)
           /\ UNCHANGED <<safeHead, pendingSafeHead, unsafeHead, engineSyncTarget, l1Head, l1Fork, eng>>
           /\ mode = "run"
<1>1. /\ mode = "run" /\ safeHead \in Blocks /\ finalized \in Blocks /\ safeHead \in Refs
      /\ finalized \in Chain[safeHead] /\ prevOrigin \in L1Refs /\ origin' = prevOrigin
      /\ finalityData' = TrackedFinality /\ finalized \in Chain[finalized]
  BY ChainBasic DEF IInv, HeadsInv, L1Typed, TakesOrigin, StepsOn, Refs
<1>2. Tracks(TrackedFinality, safeHead)
  BY <1>1, PostProcessTracks DEF IInv, TrackedFinality
<1>3. finalized' \in Chain[safeHead] /\ finalized \in Chain[finalized'] /\ finalized' \in Blocks
  <2>1. CASE FinalizesPast
    <3>1. TryFinalizeL2(TrackedFinality, finalizedL1, prevOrigin)
      BY <2>1 DEF TakesOrigin
    <3> QED BY <1>1, <1>2, <3>1, FinalizeAdvances
  <2>2. CASE ~FinalizesPast
    BY <1>1, <2>2 DEF TakesOrigin
  <2> QED BY <2>1, <2>2
<1> QED BY <1>1, <1>2, <1>3 DEF TakesOrigin, l1

(* The finalized head moves and nothing else of the heads does.            *)
LEMMA FinalizedMoved ==
    ASSUME IInv, L1Typed', mode' = "run" => mode = "run",
           UNCHANGED <<safeHead, pendingSafeHead, unsafeHead, engineSyncTarget, eng>>,
           finalized' \in Chain[safeHead], finalized \in Chain[finalized'],
           finalized' \in Refs, finalized \in Blocks => finalized' \in Blocks,
           Tracks(finalityData', safeHead), AttributesInv'
    PROVE  IInv' /\ Advances
<1>1. EngineInv' /\ eng.finalized \in Chain[eng.finalized'] /\ safeHead \in Chain[safeHead]
  BY ChainBasic DEF IInv, EngineInv, HeadsInv, Refs
<1>2. mode = "run" => eng.finalized \in Chain[finalized']
  BY ChainBasic DEF IInv, HeadsInv
<1>3. HeadsInv'
  BY <1>2 DEF IInv, HeadsInv
<1> QED BY <1>1, <1>3 DEF IInv, Advances

(* A reset takes ordered heads from the engine.                            *)
LEMMA ResetKeeps ==
    ASSUME IInv, Reset
    PROVE  IInv' /\ Advances
<1>1. PICK n \in {WalkEnd} :
         /\ ~FindL2HeadsFails(n)
         /\ unsafeHead' = UnsafeAt(n) /\ engineSyncTarget' = unsafeHead'
         /\ safeHead' = FoundSafe(n) /\ pendingSafeHead' = PendingSafeAfterReset(safeHead')
         /\ origin' = L1Origin[PipelineStart(safeHead')]
  BY DEF Reset
<1>2. safeHead' \in Blocks /\ eng.finalized \in Chain[safeHead'] /\ pendingSafeHead' = safeHead'
  BY <1>1, ResetHeads DEF IInv, PendingSafeAfterReset
<1>3. eng.head \in Refs /\ eng.finalized \in Blocks /\ eng.finalized \in Chain[eng.finalized]
      /\ safeHead' \in Chain[safeHead'] /\ safeHead' \in Refs
  BY <1>2, ChainBasic DEF IInv, EngineInv, Refs
<1>4. unsafeHead' \in Refs /\ engineSyncTarget' \in Refs
  <2>1. {b \in Walked(n) : \A c \in Walked(n) : c \in Chain[b] => Plausible(c)} \subseteq Chain[eng.head]
    BY DEF Walked
  <2> QED BY <1>1, <1>3, <2>1, HighestIsRef DEF UnsafeAt
<1>5. origin' \in L1Refs
  <2>1. PipelineStart(safeHead') \in Refs
    BY <1>3, HighestIsRef DEF PipelineStart
  <2> QED BY <1>1, <2>1, EngineQueueAssumption DEF L1Refs
<1>6. L1Typed' /\ EngineInv'
  BY <1>5 DEF Reset, IInv, L1Typed, EngineInv, l1
<1>7. HeadsInv'
  BY <1>2, <1>3, <1>4 DEF Reset, HeadsInv, FinalizedAfterReset, Refs
<1>8. AttributesInv' /\ Tracks(finalityData, safeHead)'
  BY DEF Reset, AttributesInv, Tracks, FinalityDataAfterReset
<1>9. Advances
  BY <1>3 DEF Reset, Advances, Running
<1> QED BY <1>6, <1>7, <1>8, <1>9 DEF IInv

-----------------------------------------------------------------------------
(* The invariant                                                           *)

LEMMA InitEstablishes == Init => IInv
<1> SUFFICES ASSUME Init PROVE IInv
  OBVIOUS
<1>1. Genesis \in Blocks /\ Genesis \in Refs /\ NoBlock \in Refs
      /\ L1Origin[Genesis] \in L1Refs /\ MaxL1 \in Nat
  BY EngineQueueAssumption DEF Refs, L1Refs
<1>2. L1Typed
  BY <1>1 DEF Init, L1Typed, L1Refs, L1Blocks, NoL1
<1>3. EngineInv
  BY <1>1, ChainBasic DEF Init, EngineInv
<1>4. HeadsInv
  BY <1>1, ChainBasic DEF Init, HeadsInv
<1>5. AttributesInv /\ Tracks(finalityData, safeHead)
  BY DEF Init, AttributesInv, Tracks
<1> QED BY <1>2, <1>3, <1>4, <1>5 DEF IInv

(* Every step, from a state that satisfies the invariant, keeps it and     *)
(* moves the heads and the engine's finalized block forward only.          *)
LEMMA StepKeeps ==
    ASSUME IInv, [Next]_vars
    PROVE  IInv' /\ Advances
<1> USE DEF heads, finality, l1, derivation
<1>0. /\ L1Typed /\ EngineInv /\ HeadsInv /\ AttributesInv
      /\ unsafeHead \in Refs /\ engineSyncTarget \in Refs /\ pendingSafeHead \in Refs
      /\ mode = "run" => {finalized, safeHead, pendingSafeHead} \subseteq Blocks
  BY DEF IInv, HeadsInv
<1>1. ASSUME UNCHANGED <<origin, prevOrigin, l1Head, l1Fork>>
      PROVE  L1Typed'
  BY <1>0, <1>1 DEF L1Typed
<1>2. CASE TryUpdateEngine
  <2>1. EngineStep
    BY <1>0, <1>2 DEF TryUpdateEngine, EngineStep
  <2> QED BY <1>0, <1>1, <1>2, <2>1, HeadsUnmoved DEF TryUpdateEngine
<1>3. ASSUME NEW p \in Blocks, DropUnsafePayload(p)
      PROVE  IInv' /\ Advances
  BY <1>0, <1>1, <1>3, HeadsUnmoved DEF DropUnsafePayload, EngineStep
<1>4. ASSUME NEW p \in Blocks, ApplyUnsafePayload(p)
      PROVE  IInv' /\ Advances
  <2>1. EngineStep
    BY <1>0, <1>4 DEF ApplyUnsafePayload, EngineStep, Refs
  <2>2. unsafeHead' \in Refs /\ engineSyncTarget' \in Refs
    BY <1>0, <1>4 DEF ApplyUnsafePayload, Refs
  <2> QED BY <1>1, <1>4, <2>1, <2>2, HeadsUnmoved DEF ApplyUnsafePayload
<1>5. CASE Consolidate
  <2>1. PICK b \in AtNextHeight :
           /\ pendingSafeHead' = b
           /\ IF safeAttributes.last
              THEN /\ safeHead' = b
                   /\ needForkchoiceUpdate' = TRUE
                   /\ finalityData' = PostProcessSafeL2(finalityData, b, origin)
              ELSE UNCHANGED <<safeHead, needForkchoiceUpdate, finalityData>>
    BY <1>5 DEF Consolidate
  <2>2. b = safeAttributes.block
    BY <1>5 DEF Consolidate, Matches
  <2>3. mode = "run" /\ safeAttributes # NoAttributes /\ L1Typed' /\ EngineStep
    BY <1>1, <1>5 DEF Consolidate, StepsOn, EngineStep
  <2> QED BY <1>0, <1>5, <2>1, <2>2, <2>3, AttributesApplied DEF Consolidate, SafeIfLast
<1>6. CASE ConsolidateMissing
  BY <1>0, <1>1, <1>6, HeadsUnmoved DEF ConsolidateMissing, EngineStep
<1>7. CASE CorrectUnsafeHead
  BY <1>0, <1>1, <1>7, HeadsUnmoved DEF CorrectUnsafeHead, EngineStep
<1>8. CASE ForceInserted
  <2>1. mode = "run" /\ safeAttributes # NoAttributes /\ L1Typed'
    BY <1>1, <1>8 DEF ForceInserted, Forces, StepsOn
  <2>2. safeAttributes.block \in Blocks
    BY <2>1, AttributesExtend
  <2>3. EngineStep
    BY <1>0, <1>8, <2>1, <2>2 DEF ForceInserted, Confirmed, SafeIfLast, EngineStep, Refs
  <2> QED BY <1>8, <2>1, <2>2, <2>3, AttributesApplied DEF ForceInserted, Refs
<1>9. ASSUME Forces, StartValid
      PROVE  mode = "run" /\ (eng' \in {eng, Started} => EngineStep)
  BY <1>0, <1>9 DEF Forces, StepsOn, StartValid, Started, EngineStep
<1>10. CASE ForceInterrupted
  <2>1. mode = "run" /\ safeAttributes # NoAttributes
    BY <1>10 DEF ForceInterrupted, Forces, StepsOn
  <2>2. safeAttributes.block \in Blocks /\ safeHead \in Blocks /\ finalized \in Blocks
    BY <1>0, <2>1, AttributesExtend
  <2>3. FcuValid(safeAttributes.block, SafeIfLast(safeAttributes.block), finalized)
    BY <2>1, AttributesExtend DEF FcuValid, SafeIfLast
  <2>4. EngineStep
    <3>1. CASE eng' = Started
      BY <1>9, <1>10, <3>1 DEF ForceInterrupted
    <3>2. CASE eng' = Confirmed
      BY <2>1, <2>2, <2>3, <3>2 DEF Confirmed, SafeIfLast, EngineStep, Refs
    <3> QED BY <1>10, <3>1, <3>2 DEF ForceInterrupted
  <2> QED BY <1>0, <1>1, <1>10, <2>4, HeadsUnmoved DEF ForceInterrupted
<1>11. CASE ForceRejected
  <2>1. EngineStep /\ mode = "run" /\ L1Typed'
    BY <1>1, <1>9, <1>11 DEF ForceRejected
  <2>2. CASE safeAttributes.block \in DepositOnly
    BY <1>0, <1>11, <2>1, <2>2, HeadsUnmoved DEF ForceRejected
  <2>3. CASE safeAttributes.block \notin DepositOnly
    <3>1. /\ EngineInv' /\ eng.finalized \in Chain[eng.finalized']
          /\ eng.finalized' \in Chain[finalized]
      BY <2>1, EngineStepKeeps
    <3>2. /\ finalized \in Chain[finalized] /\ safeHead \in Chain[safeHead]
          /\ UNCHANGED <<finalized, safeHead, unsafeHead, engineSyncTarget, finalityData>>
          /\ pendingSafeHead' = safeHead /\ safeAttributes' = NoAttributes
      BY <1>0, <1>11, <2>3, ChainBasic DEF ForceRejected, HeadsInv
    <3>3. HeadsInv'
      BY <1>0, <2>1, <3>1, <3>2 DEF HeadsInv
    <3>4. AttributesInv' /\ Tracks(finalityData, safeHead)'
      BY <3>2 DEF AttributesInv, Tracks, IInv
    <3> QED BY <2>1, <3>1, <3>2, <3>3, <3>4 DEF IInv, Advances
  <2> QED BY <2>2, <2>3
<1>12. CASE ForcePrestateError
  <2>1. EngineStep
    BY <1>9, <1>12 DEF ForcePrestateError, EngineStep
  <2> QED BY <1>0, <1>1, <1>12, <2>1, HeadsUnmoved DEF ForcePrestateError
<1>13. CASE DeriveReset
  <2>1. mode = "run" /\ L1Typed' /\ EngineStep
    BY <1>0, <1>13 DEF DeriveReset, StepsOn, L1Typed, EngineStep
  <2>2. Tracks(finalityData', safeHead)
    BY <1>0, <1>13, <2>1, PostProcessTracks DEF DeriveReset, TrackedFinality, IInv, L1Typed
  <2>3. /\ finalized \in Refs /\ finalized \in Chain[finalized] /\ finalized \in Chain[safeHead]
        /\ UNCHANGED <<finalized, safeHead, pendingSafeHead, unsafeHead, engineSyncTarget, eng>>
    BY <1>0, <1>13, ChainBasic DEF DeriveReset, HeadsInv
  <2>4. AttributesInv'
    BY <1>0, <1>13 DEF DeriveReset, AttributesInv
  <2> QED BY <2>1, <2>2, <2>3, <2>4, FinalizedMoved
<1>14. CASE DeriveAttributes
  <2>1. L1Typed' /\ TakesOrigin /\ mode' = mode
    BY <1>0, <1>14, OriginTaken DEF DeriveAttributes, L1Typed
  <2>2. AttributesInv'
    BY <1>14, <2>1, OriginTaken DEF DeriveAttributes, AttributesInv
  <2> QED BY <2>1, <2>2, OriginTaken, FinalizedMoved DEF Refs
<1>15. CASE DeriveEOF
  <2>1. prevOrigin' \in L1Refs
    <3>1. CASE UNCHANGED prevOrigin
      BY <1>0, <3>1 DEF L1Typed
    <3>2. CASE prevOrigin' = L1At(prevOrigin.num + 1) /\ prevOrigin.num < l1Head
      <4>1. prevOrigin.num \in Nat /\ l1Head \in 0..MaxL1 /\ MaxL1 \in Nat
        BY <1>0, EngineQueueAssumption DEF L1Typed, L1Refs, L1Blocks, NoL1
      <4>2. prevOrigin.num + 1 \in 0..MaxL1
        BY <3>2, <4>1
      <4> QED BY <1>0, <3>2, <4>2, L1AtTyped DEF L1Typed
    <3> QED BY <1>15, <3>1, <3>2 DEF DeriveEOF
  <2>2. L1Typed' /\ TakesOrigin /\ (mode' = "run" => mode = "run")
    BY <1>0, <1>15, <2>1, OriginTaken DEF DeriveEOF, L1Typed
  <2>3. AttributesInv'
    BY <1>0, <1>15, <2>2, OriginTaken DEF DeriveEOF, AttributesInv
  <2> QED BY <2>2, <2>3, OriginTaken, FinalizedMoved DEF Refs
<1>16. CASE Reset
  BY <1>16, ResetKeeps
<1>17. CASE RequestReset
  BY <1>0, <1>1, <1>17, HeadsUnmoved DEF RequestReset, EngineStep
<1>18. CASE Restart
  <2>1. NoBlock \in Refs /\ NoBlock \in Chain[NoBlock]
    BY ChainBasic DEF Refs
  <2>2. EngineInv' /\ eng.finalized \in Chain[eng.finalized']
    BY <1>18, EngineStepKeeps DEF Restart, EngineStep
  <2>3. L1Typed' /\ HeadsInv' /\ AttributesInv' /\ Tracks(finalityData, safeHead)'
    BY <1>0, <1>18, <2>1 DEF Restart, L1Typed, L1Refs, HeadsInv, AttributesInv, Tracks
  <2> QED BY <1>18, <2>2, <2>3 DEF IInv, Advances, Restart
<1>19. ASSUME NEW p \in Gossip, AddUnsafePayload(p)
       PROVE  IInv' /\ Advances
  BY <1>0, <1>1, <1>19, HeadsUnmoved DEF AddUnsafePayload, EngineStep
<1>20. ASSUME NEW n \in 0..MaxL1, Finalize(n)
       PROVE  IInv' /\ Advances
  <2>1. /\ finalized \in Refs /\ finalized \in Chain[finalized] /\ finalized \in Chain[safeHead]
        /\ safeHead \in Refs /\ Tracks(finalityData, safeHead)
    BY <1>0, ChainBasic DEF HeadsInv, IInv
  <2>2. /\ finalized' \in Chain[safeHead] /\ finalized \in Chain[finalized']
        /\ finalized' \in Refs /\ (finalized \in Blocks => finalized' \in Blocks)
    <3>1. CASE UNCHANGED finalized
      BY <2>1, <3>1
    <3>2. CASE TryFinalizeL2(finalityData, L1At(n), origin)
      BY <2>1, <3>2, FinalizeAdvances
    <3> QED BY <1>20, <3>1, <3>2 DEF Finalize
  <2>3. L1Typed' /\ AttributesInv' /\ Tracks(finalityData', safeHead) /\ mode' = mode
        /\ UNCHANGED <<safeHead, pendingSafeHead, unsafeHead, engineSyncTarget, eng>>
    BY <1>0, <1>1, <1>20, <2>1 DEF Finalize, AttributesInv
  <2> QED BY <2>2, <2>3, FinalizedMoved
<1>21. CASE SequencerStart
  <2>1. EngineStep
    BY <1>0, <1>21 DEF SequencerStart, EngineStep
  <2> QED BY <1>0, <1>1, <1>21, <2>1, HeadsUnmoved DEF SequencerStart
<1>22. CASE SequencerConfirm
  <2>1. EngineStep /\ unsafeHead' \in Refs /\ engineSyncTarget' \in Refs
    BY <1>0, <1>22 DEF SequencerConfirm, EngineStep, Refs
  <2> QED BY <1>1, <1>22, <2>1, HeadsUnmoved DEF SequencerConfirm
<1>23. CASE L1Advance
  <2>1. L1Typed'
    BY <1>0, <1>23, EngineQueueAssumption DEF L1Advance, L1Typed
  <2> QED BY <1>0, <1>23, <2>1, HeadsUnmoved DEF L1Advance, EngineStep
<1>24. CASE L1Reorg
  <2>1. L1Typed'
    BY <1>0, <1>24 DEF L1Reorg, L1Typed
  <2> QED BY <1>0, <1>24, <2>1, HeadsUnmoved DEF L1Reorg, EngineStep
<1>25. CASE UNCHANGED vars
  BY <1>0, <1>1, <1>25, HeadsUnmoved DEF vars, EngineStep
<1> QED
  BY <1>2, <1>3, <1>4, <1>5, <1>6, <1>7, <1>8, <1>10, <1>11, <1>12, <1>13, <1>14, <1>15, <1>16,
     <1>17, <1>18, <1>19, <1>20, <1>21, <1>22, <1>23, <1>24, <1>25 DEF Next, Step

-----------------------------------------------------------------------------
(* The second part of the invariant                                        *)

LEMMA L1RefNum ==
    ASSUME NEW b \in L1Refs
    PROVE  b.num \in Nat
  BY EngineQueueAssumption DEF L1Refs, L1Blocks, NoL1

(* Of a chain of L1 blocks. *)
LEMMA SameForkFacts ==
    ASSUME NEW a \in L1Refs, NEW b \in L1Refs, NEW c \in L1Refs
    PROVE  /\ SameFork(a, a)
           /\ SameFork(a, b) /\ SameFork(b, c) => SameFork(a, c)
           /\ OnL1Chain(a, b) => SameFork(a, b)
           /\ OnL1Chain(a, b) /\ SameFork(b, c) => OnL1Chain(a, c)
           /\ SameFork(a, c) /\ SameFork(b, c) /\ a.num <= b.num => SameFork(a, b)
<1> DEFINE F == ForkPoint
<1>1. a.num \in Nat /\ b.num \in Nat /\ c.num \in Nat /\ ForkPoint \in Nat
  BY L1RefNum, EngineQueueAssumption
<1> QED BY <1>1 DEF SameFork, OnL1Chain

LEMMA CanonicalFacts ==
    ASSUME NEW a \in L1Refs, NEW b \in L1Refs, a = L1At(a.num), b = L1At(b.num), a.num <= b.num
    PROVE  SameFork(a, b)
<1>1. a.num \in Nat /\ b.num \in Nat /\ ForkPoint \in Nat
  BY L1RefNum, EngineQueueAssumption
<1>2. \A n \in Nat : n >= ForkPoint => L1At(n).fork = l1Fork
  BY DEF L1At
<1>3. a.num >= ForkPoint => a.fork = b.fork
  BY <1>1, <1>2
<1> QED BY <1>3 DEF SameFork

LEMMA DerivedFurther ==
    ASSUME NEW r, NEW b \in Refs, NEW o \in L1Refs, NEW p \in L1Refs, SameFork(o, p), Derived(r, b, o)
    PROVE  Derived(r, b, p)
<1>1. Included[b] \in L1Refs
  BY EngineQueueAssumption DEF L1Refs
<1> QED BY <1>1, SameForkFacts DEF Derived

LEMMA TracksFurther ==
    ASSUME NEW r, NEW fd \in Seq(Entries), NEW o \in L1Refs, NEW p \in L1Refs, SameFork(o, p),
           TracksDerived(r, fd, o)
    PROVE  TracksDerived(r, fd, p)
<1> SUFFICES ASSUME NEW i \in DOMAIN fd PROVE SameFork(fd[i].l1, p)
  BY DEF TracksDerived
<1>1. fd[i] \in Entries
  OBVIOUS
<1>2. fd[i].l1 \in L1Refs
  BY <1>1 DEF Entries
<1> QED BY <1>2, SameForkFacts DEF TracksDerived

(* postProcessSafeL2 with a safe head derived from L1 data up to o. *)
LEMMA PostProcessDerived ==
    ASSUME NEW r, NEW fd \in Seq(Entries), NEW safe \in Blocks, NEW o \in L1Refs,
           TracksDerived(r, fd, o), Derived(r, safe, o)
    PROVE  TracksDerived(r, PostProcessSafeL2(fd, safe, o), o)
<1> DEFINE new == PostProcessSafeL2(fd, safe, o)
<1>1. \A i \in DOMAIN new :
         \/ \E j \in DOMAIN fd : new[i] = fd[j]
         \/ new[i].l2 = safe /\ new[i].l1 = o
         \/ \E j \in DOMAIN fd : /\ new[i].l2 = safe /\ new[i].l1 = fd[j].l1
                                /\ ~(fd[j].l1.num < o.num)
  BY PostProcessEntries
<1> HIDE DEF new
<1> SUFFICES ASSUME NEW i \in DOMAIN new
             PROVE  SameFork(new[i].l1, o) /\ Derived(r, new[i].l2, new[i].l1)
  BY DEF TracksDerived, new
<1>2. CASE \E j \in DOMAIN fd : new[i] = fd[j]
  BY <1>2 DEF TracksDerived
<1>3. CASE new[i].l2 = safe /\ new[i].l1 = o
  BY <1>3, SameForkFacts
<1>4. ASSUME NEW j \in DOMAIN fd, new[i].l2 = safe, new[i].l1 = fd[j].l1, ~(fd[j].l1.num < o.num)
      PROVE  SameFork(new[i].l1, o) /\ Derived(r, new[i].l2, new[i].l1)
  <2>1. fd[j] \in Entries /\ SameFork(fd[j].l1, o)
    BY DEF TracksDerived
  <2>2. fd[j].l1 \in L1Refs /\ fd[j].l1.num \in Nat /\ o.num \in Nat
    BY <2>1, L1RefNum DEF Entries
  <2>3. SameFork(o, fd[j].l1)
    <3>1. o.num <= fd[j].l1.num
      BY <1>4, <2>2
    <3> QED BY <2>1, <2>2, <3>1, SameForkFacts
  <2>4. Derived(r, safe, fd[j].l1)
    BY <2>2, <2>3, DerivedFurther DEF Refs
  <2> QED BY <1>4, <2>1, <2>4
<1> QED BY <1>1, <1>2, <1>3, <1>4

(* tryFinalizeL2: what it finalizes was tracked at an L1 block up to b. *)
LEMMA FinalizedTracked ==
    ASSUME NEW fd \in Seq(Entries), NEW b, NEW o, TryFinalizeL2(fd, b, o)
    PROVE  \/ finalized' = finalized
           \/ \E i \in DOMAIN fd : /\ finalized' = fd[i].l2 /\ fd[i].l1.num <= b.num
                                  /\ fd[i].l1 \in L1Refs /\ fd[i].l2 \in Blocks
<1>1. CASE Finalizable(fd, b) = {}
  BY <1>1 DEF TryFinalizeL2
<1>2. CASE Finalizable(fd, b) # {}
  <2>1. PICK i \in Finalizable(fd, b) : finalized' = fd[i].l2
    BY <1>2 DEF TryFinalizeL2
  <2>2. i \in DOMAIN fd /\ fd[i].l1.num <= b.num
    BY DEF Finalizable
  <2>3. fd[i] \in Entries
    BY <2>2
  <2> QED BY <2>1, <2>2, <2>3 DEF Entries
<1> QED BY <1>1, <1>2

(* It finalizes what was derived from the chain of b. *)
LEMMA FinalizedDerived ==
    ASSUME NEW fd \in Seq(Entries), NEW b \in L1Refs, NEW o, TryFinalizeL2(fd, b, o),
           Derived(resetSafe, finalized, b),
           \A i \in DOMAIN fd : fd[i].l1.num <= b.num => SameFork(fd[i].l1, b),
           \A i \in DOMAIN fd : Derived(resetSafe, fd[i].l2, fd[i].l1)
    PROVE  Derived(resetSafe, finalized', b)
<1>1. CASE finalized' = finalized
  BY <1>1
<1>2. ASSUME NEW i \in DOMAIN fd, finalized' = fd[i].l2, fd[i].l1.num <= b.num,
             fd[i].l1 \in L1Refs, fd[i].l2 \in Blocks
      PROVE  Derived(resetSafe, finalized', b)
  BY <1>2, DerivedFurther DEF Refs
<1> QED BY <1>1, <1>2, FinalizedTracked

(* The forkchoice is settled only on a chain with the safe head. *)
LEMMA SettledKept ==
    ASSUME IInv, SettledInv, [Next]_vars
    PROVE  SettledInv'
<1> USE DEF heads, finality, l1, derivation
<1> DEFINE Same == /\ UNCHANGED <<safeHead, unsafeHead>>
                   /\ mode' = "run" => mode = "run"
                   /\ unsafeHead' # engineSyncTarget' \/ ~needForkchoiceUpdate' =>
                         unsafeHead # engineSyncTarget \/ ~needForkchoiceUpdate
<1>1. ASSUME Same PROVE SettledInv'
  BY <1>1 DEF SettledInv
<1>2. ASSUME mode' = "run" => safeHead' \in Chain[unsafeHead']
      PROVE  SettledInv'
  BY <1>2 DEF SettledInv
<1>3. CASE TryUpdateEngine
  BY <1>1, <1>2, <1>3 DEF TryUpdateEngine, isEngineSyncing, FcuValid
<1>4. ASSUME NEW p \in Blocks, DropUnsafePayload(p) \/ ApplyUnsafePayload(p)
      PROVE  SettledInv'
  BY <1>1, <1>2, <1>4 DEF DropUnsafePayload, ApplyUnsafePayload, FcuValid
<1>5. CASE Consolidate
  <2>1. mode = "run" /\ ~needForkchoiceUpdate /\ ~isEngineSyncing
        /\ UNCHANGED <<unsafeHead, engineSyncTarget>>
    BY <1>5 DEF Consolidate, StepsOn
  <2>2. \/ needForkchoiceUpdate' = TRUE
        \/ UNCHANGED <<safeHead, needForkchoiceUpdate>>
    BY <1>5 DEF Consolidate
  <2> QED BY <2>1, <2>2 DEF SettledInv, isEngineSyncing
<1>6. CASE ConsolidateMissing \/ RequestReset \/ ForcePrestateError \/ DeriveReset \/ Restart
  BY <1>6 DEF ConsolidateMissing, RequestReset, ForcePrestateError, DeriveReset, Restart, SettledInv
<1>7. CASE CorrectUnsafeHead
  BY <1>2, <1>7 DEF CorrectUnsafeHead, IInv, HeadsInv
<1>8. CASE ForceInserted
  BY <1>2, <1>8 DEF ForceInserted, FcuValid
<1>9. CASE ForceInterrupted \/ ForceRejected \/ SequencerStart
  <2>1. UNCHANGED <<safeHead, unsafeHead, engineSyncTarget, needForkchoiceUpdate>>
    BY <1>9 DEF ForceInterrupted, ForceRejected, SequencerStart
  <2>2. mode' = "run" => mode = "run"
    BY <1>9 DEF ForceInterrupted, ForceRejected, SequencerStart
  <2> QED BY <1>1, <2>1, <2>2
<1>10. CASE TakesOrigin /\ (DeriveAttributes \/ DeriveEOF)
  <2>1. mode = "run" /\ ~needForkchoiceUpdate /\ UNCHANGED <<safeHead, unsafeHead>>
    BY <1>10 DEF TakesOrigin, StepsOn
  <2> QED BY <2>1 DEF SettledInv
<1>11. CASE Reset
  BY <1>11 DEF Reset, SettledInv
<1>12. ASSUME NEW n \in 0..MaxL1, Finalize(n)
       PROVE  SettledInv'
  <2>1. UNCHANGED <<safeHead, unsafeHead, engineSyncTarget, mode>>
    BY <1>12 DEF Finalize
  <2>2. ~needForkchoiceUpdate' => ~needForkchoiceUpdate
    BY <1>12 DEF Finalize, TryFinalizeL2
  <2> QED BY <1>1, <2>1, <2>2
<1>13. CASE SequencerConfirm
  <2>1. \/ \E b \in Blocks : FcuValid(b, safeHead, finalized) /\ unsafeHead' = b
        \/ UNCHANGED <<unsafeHead, engineSyncTarget>>
    BY <1>13 DEF SequencerConfirm
  <2>2. UNCHANGED <<safeHead, needForkchoiceUpdate, mode>>
    BY <1>13 DEF SequencerConfirm
  <2> QED BY <1>1, <1>2, <2>1, <2>2 DEF FcuValid
<1>14. CASE (\E p \in Gossip : AddUnsafePayload(p)) \/ L1Advance \/ L1Reorg \/ UNCHANGED vars
  <2>1. UNCHANGED <<safeHead, unsafeHead, engineSyncTarget, needForkchoiceUpdate, mode>>
    BY <1>14 DEF AddUnsafePayload, L1Advance, L1Reorg, vars
  <2> QED BY <1>1, <2>1
<1>15. DeriveAttributes \/ DeriveEOF => TakesOrigin
  BY DEF DeriveAttributes, DeriveEOF
<1> QED BY <1>3, <1>4, <1>5, <1>6, <1>7, <1>8, <1>9, <1>10, <1>11, <1>12, <1>13, <1>14, <1>15
        DEF Next, Step

(* What every step but a reset and a restart leaves alone. *)
LEMMA BetweenResets ==
    ASSUME L1Typed, [Next]_vars, ~Reset, ~Restart
    PROVE  /\ resetSafe' = resetSafe /\ (mode' = "run" => mode = "run")
           /\ l1Head' \in Int /\ l1Head <= l1Head'
<1> USE DEF heads, finality, l1, derivation
<1>1. L1Advance => /\ UNCHANGED <<resetSafe, mode>> /\ l1Head' = l1Head + 1
  BY DEF L1Advance
<1>2. ~L1Advance => UNCHANGED <<resetSafe, l1Head>>
  <2>1. ASSUME NEW p \in Blocks, DropUnsafePayload(p) \/ ApplyUnsafePayload(p)
        PROVE  UNCHANGED <<resetSafe, l1Head>>
    BY <2>1 DEF DropUnsafePayload, ApplyUnsafePayload
  <2>2. CASE TryUpdateEngine \/ Consolidate \/ ConsolidateMissing \/ CorrectUnsafeHead
    BY <2>2 DEF TryUpdateEngine, Consolidate, ConsolidateMissing, CorrectUnsafeHead
  <2>3. CASE ForceInserted \/ ForceInterrupted \/ ForceRejected \/ ForcePrestateError
    BY <2>3 DEF ForceInserted, ForceInterrupted, ForceRejected, ForcePrestateError
  <2>4. CASE DeriveReset \/ DeriveAttributes \/ DeriveEOF
    BY <2>4 DEF DeriveReset, DeriveAttributes, DeriveEOF, TakesOrigin
  <2>5. CASE RequestReset \/ (\E p \in Gossip : AddUnsafePayload(p)) \/ L1Reorg \/ UNCHANGED vars
    BY <2>5 DEF RequestReset, AddUnsafePayload, L1Reorg, vars
  <2>6. CASE (\E n \in 0..MaxL1 : Finalize(n)) \/ SequencerStart \/ SequencerConfirm
    BY <2>6 DEF Finalize, SequencerStart, SequencerConfirm
  <2> QED BY <2>1, <2>2, <2>3, <2>4, <2>5, <2>6 DEF Next, Step
<1>3. mode' = "run" => mode = "run"
  <2> SUFFICES ASSUME mode' = "run" PROVE mode = "run"
    OBVIOUS
  <2>1. ASSUME NEW p \in Blocks, DropUnsafePayload(p) \/ ApplyUnsafePayload(p)
        PROVE  mode = "run"
    BY <2>1 DEF DropUnsafePayload, ApplyUnsafePayload
  <2>2. CASE TryUpdateEngine \/ Consolidate \/ ConsolidateMissing \/ CorrectUnsafeHead
    BY <2>2 DEF TryUpdateEngine, Consolidate, ConsolidateMissing, CorrectUnsafeHead, StepsOn
  <2>3. CASE ForceInserted \/ ForceInterrupted \/ ForceRejected \/ ForcePrestateError
    BY <2>3 DEF ForceInserted, ForceInterrupted, ForceRejected, ForcePrestateError, Forces, StepsOn
  <2>4. CASE DeriveReset \/ DeriveAttributes \/ DeriveEOF
    BY <2>4 DEF DeriveReset, DeriveAttributes, DeriveEOF, TakesOrigin, StepsOn
  <2>5. CASE \/ RequestReset \/ (\E p \in Gossip : AddUnsafePayload(p)) \/ L1Reorg \/ L1Advance
             \/ UNCHANGED vars
    BY <2>5 DEF RequestReset, AddUnsafePayload, L1Reorg, L1Advance, vars
  <2>6. CASE (\E n \in 0..MaxL1 : Finalize(n)) \/ SequencerStart \/ SequencerConfirm
    BY <2>6 DEF Finalize, SequencerStart, SequencerConfirm
  <2> QED BY <2>1, <2>2, <2>3, <2>4, <2>5, <2>6 DEF Next, Step
<1>4. l1Head \in Int
  BY DEF L1Typed
<1> QED BY <1>1, <1>2, <1>3, <1>4

(* A safe head that the search for the heads found behind a whole window. *)
LEMMA WindowBehind ==
    ASSUME IInv, NEW n \in Blocks \ {Genesis}, WindowComplete(n)
    PROVE  L1Origin[Parent[n]].num + 1 + SeqWindowSize < l1Head
<1> DEFINE h == HighestCanonicalAt(n)
           S == {b \in Walked(n) \cap Chain[UnsafeAt(n)] : Canonical(L1Origin[b])}
<1>1. /\ n \in Refs /\ Parent[n] \in Refs /\ NoBlock \in Refs /\ SeqWindowSize \in Nat
      /\ \A b \in Refs : L1Origin[b] \in L1Refs
      /\ L1Origin[n] # L1Origin[Parent[n]] => L1Origin[Parent[n]].num < L1Origin[n].num
  BY EngineQueueAssumption DEF Refs, L1Refs
<1>2. L1Origin[Parent[n]].num < L1Origin[n].num /\ L1Origin[n].num + SeqWindowSize < L1Origin[h].num
  BY <1>1 DEF WindowComplete
<1>3. l1Head \in Nat
  BY EngineQueueAssumption DEF IInv, L1Typed
<1>4. h \in Refs /\ L1Origin[h].num <= l1Head
  <2>1. eng.head \in Refs /\ S \subseteq Chain[eng.head] /\ h = Highest(S)
    BY DEF IInv, EngineInv, Refs, Walked, HighestCanonicalAt
  <2>2. CASE S = {}
    <3>1. h = NoBlock
      BY <2>1, <2>2 DEF Highest
    <3>2. FALSE
      <4>1. L1Origin[n].num \in Nat
        BY <1>1, L1RefNum
      <4>2. L1Origin[NoBlock].num = 0
        BY EngineQueueAssumption DEF NoL1
      <4> QED BY <1>1, <1>2, <3>1, <4>1, <4>2
    <3> QED BY <3>2
  <2>3. CASE S # {}
    <3>1. h \in S
      BY <2>1, <2>3, HighestOfChain
    <3> QED BY <2>1, <3>1, ChainBasic DEF Canonical
  <2> QED BY <2>2, <2>3
<1>5. L1Origin[Parent[n]].num \in Nat /\ L1Origin[n].num \in Nat /\ L1Origin[h].num \in Nat
  BY <1>1, <1>4, L1RefNum
<1> QED BY <1>1, <1>2, <1>3, <1>4, <1>5

LEMMA ResetSafeKept ==
    ASSUME IInv, IInv', Advances, FinalL1Inv, ResetSafeComplete, [Next]_vars
    PROVE  ResetSafeComplete'
<1> DEFINE Behind(b) == L1Origin[b].num + 1 + SeqWindowSize
<1>1. CASE Restart
  BY <1>1 DEF Restart, ResetSafeComplete, Running
<1>2. CASE Reset
  <2>1. PICK n \in {WalkEnd} : ~FindL2HeadsFails(n) /\ safeHead' = FoundSafe(n)
    BY <1>2 DEF Reset
  <2>2. resetSafe' = FoundSafe(n) /\ eng' = eng /\ l1Head' = l1Head
    BY <1>2, <2>1 DEF Reset, l1
  <2>3. /\ eng.head \in Refs /\ eng.finalized \in Refs /\ eng.finalized \in Chain[eng.head]
        /\ eng.finalized \in Chain[eng.finalized]
        /\ Chain[eng.head] \subseteq Refs /\ Number \in [Refs -> Nat]
    BY ChainBasic, EngineQueueAssumption DEF IInv, EngineInv, Refs
  <2>4. CASE Number[n] = Number[eng.finalized]
    BY <2>1, <2>2, <2>3, <2>4 DEF FindL2HeadsFails, FoundSafe, ResetSafeComplete
  <2>5. CASE Number[n] # Number[eng.finalized]
    <3> DEFINE S == {m \in Chain[eng.head] : Number[m] = Number[eng.finalized] \/ WindowComplete(m)}
    <3>1. n \in S /\ Number[eng.finalized] <= Number[n]
      BY <2>3, HighestOfChain DEF WalkEnd
    <3>2. n \in Blocks \ {Genesis} /\ WindowComplete(n)
      BY <2>3, <2>5, <3>1, EngineQueueAssumption DEF Refs
    <3>3. Behind(Parent[n]) < l1Head
      BY <3>2, WindowBehind
    <3> QED BY <2>2, <2>5, <3>3 DEF FoundSafe, ResetSafeComplete
  <2> QED BY <2>4, <2>5
<1>3. CASE ~Reset /\ ~Restart
  <2>1. /\ resetSafe' = resetSafe /\ (mode' = "run" => mode = "run")
        /\ l1Head' \in Int /\ l1Head <= l1Head' /\ l1Head \in Int
    BY <1>3, BetweenResets DEF IInv, L1Typed
  <2>2. Chain[eng.finalized] \subseteq Chain[eng.finalized']
    BY ChainBasic DEF IInv, EngineInv, Advances, Refs
  <2>3. Behind(resetSafe) \in Int
    <3>1. L1Origin[resetSafe] \in L1Refs /\ SeqWindowSize \in Nat
      BY EngineQueueAssumption DEF FinalL1Inv, L1Refs
    <3> QED BY <3>1, L1RefNum
  <2>4. Behind(resetSafe) < l1Head => Behind(resetSafe) < l1Head'
    <3> HIDE DEF Behind
    <3> QED BY <2>1, <2>3
  <2> QED BY <2>1, <2>2, <2>4 DEF ResetSafeComplete, Running
<1> QED BY <1>1, <1>2, <1>3

(* A step that does not touch what was derived or finalized. *)
LEMMA NothingDerived ==
    ASSUME FinalL1Inv, DerivedInv, safeAttributes' \in {safeAttributes, NoAttributes},
           UNCHANGED <<finalized, safeHead, origin, prevOrigin, resetSafe, finalityData,
                       finalizedL1, l1>>
    PROVE  FinalL1Inv' /\ DerivedInv'
<1>1. FinalL1Inv'
  BY DEF FinalL1Inv, l1, Canonical, L1At
<1>2. DerivedInv'
  BY DEF DerivedInv
<1> QED BY <1>1, <1>2

(* The attributes' block is applied; at the end of a span it is tracked. *)
LEMMA AttributesDerived ==
    ASSUME IInv, FinalL1Inv, DerivedInv, mode = "run", safeAttributes # NoAttributes,
           safeHead' = SafeIfLast(safeAttributes.block), safeAttributes' = NoAttributes,
           finalityData' = IF safeAttributes.last
                           THEN PostProcessSafeL2(finalityData, safeAttributes.block, origin)
                           ELSE finalityData,
           UNCHANGED <<finalized, origin, prevOrigin, resetSafe, finalizedL1, l1>>
    PROVE  FinalL1Inv' /\ DerivedInv'
<1> DEFINE b == safeAttributes.block
<1>1. FinalL1Inv'
  BY DEF FinalL1Inv, l1, Canonical, L1At
<1>2. /\ b \in Blocks /\ Derived(resetSafe, b, origin) /\ origin \in L1Refs
      /\ finalityData \in Seq(Entries) /\ TracksDerived(resetSafe, finalityData, origin)
  BY AttributesExtend DEF DerivedInv, Derived, IInv, L1Typed, Tracks
<1>3. TracksDerived(resetSafe, PostProcessSafeL2(finalityData, b, origin), origin)
  BY <1>2, PostProcessDerived
<1>4. TracksDerived(resetSafe, finalityData', origin)
  BY <1>2, <1>3
<1>5. Derived(resetSafe, safeHead', origin)
  BY <1>2 DEF SafeIfLast, DerivedInv
<1>6. DerivedInv'
  BY <1>4, <1>5 DEF DerivedInv
<1> QED BY <1>1, <1>6

(* The pipeline takes the origin of the stages before it. *)
LEMMA OriginDerived ==
    ASSUME IInv, FinalL1Inv, DerivedInv, mode = "run"
    PROVE  /\ Derived(resetSafe, safeHead, prevOrigin)
           /\ TracksDerived(resetSafe, finalityData, prevOrigin)
           /\ TrackedFinality \in Seq(Entries)
           /\ TracksDerived(resetSafe, TrackedFinality, prevOrigin)
<1>1. /\ origin \in L1Refs /\ prevOrigin \in L1Refs /\ SameFork(origin, prevOrigin)
      /\ safeHead \in Blocks /\ safeHead \in Refs /\ finalityData \in Seq(Entries)
  BY DEF IInv, L1Typed, HeadsInv, Tracks, FinalL1Inv
<1>2. Derived(resetSafe, safeHead, prevOrigin)
  BY <1>1, DerivedFurther DEF DerivedInv
<1>3. TracksDerived(resetSafe, finalityData, prevOrigin)
  BY <1>1, TracksFurther DEF DerivedInv
<1>4. TrackedFinality \in Seq(Entries)
  BY <1>1, PostProcessEntries DEF TrackedFinality
<1>5. TracksDerived(resetSafe, TrackedFinality, prevOrigin)
  BY <1>1, <1>2, <1>3, PostProcessDerived DEF TrackedFinality
<1> QED BY <1>2, <1>3, <1>4, <1>5

(* It finalizes only what was derived from finalized L1 blocks. *)
LEMMA TakesOriginDerived ==
    ASSUME IInv, FinalL1Inv, DerivedInv, TakesOrigin
    PROVE  /\ Derived(resetSafe, finalized', finalizedL1)
           /\ finalized' \notin Chain[resetSafe] => finalizedL1 # NoL1
<1>1. CASE ~FinalizesPast
  BY <1>1 DEF TakesOrigin, DerivedInv
<1>2. CASE FinalizesPast
  <2> DEFINE fd == TrackedFinality
  <2>1. /\ TryFinalizeL2(fd, finalizedL1, prevOrigin) /\ finalizedL1 # NoL1
        /\ L1At(prevOrigin.num) = prevOrigin /\ finalizedL1.num >= prevOrigin.num
        /\ mode = "run"
    BY <1>2 DEF TakesOrigin, FinalizesPast, OnFinalizingChain, StepsOn
  <2>2. /\ prevOrigin \in L1Refs /\ finalizedL1 \in L1Refs /\ Canonical(finalizedL1)
        /\ prevOrigin.num \in Nat /\ finalizedL1.num \in Nat
    BY <2>1, L1RefNum DEF IInv, L1Typed, FinalL1Inv
  <2>3. SameFork(prevOrigin, finalizedL1)
    BY <2>1, <2>2, CanonicalFacts DEF Canonical
  <2>4. fd \in Seq(Entries) /\ TracksDerived(resetSafe, fd, prevOrigin)
    BY <2>1, OriginDerived
  <2>5. TracksDerived(resetSafe, fd, finalizedL1)
    BY <2>2, <2>3, <2>4, TracksFurther
  <2> HIDE DEF fd
  <2>6. Derived(resetSafe, finalized', finalizedL1)
    BY <2>1, <2>2, <2>4, <2>5, FinalizedDerived DEF DerivedInv, TracksDerived
  <2> QED BY <2>1, <2>6
<1> QED BY <1>1, <1>2

(* A new finality signal. *)
LEMMA FinalizeDerived ==
    ASSUME IInv, FinalL1Inv, DerivedInv, NEW n \in 0..MaxL1, Finalize(n)
    PROVE  FinalL1Inv' /\ DerivedInv'
<1>1. UNCHANGED <<safeHead, origin, prevOrigin, resetSafe, finalityData, safeAttributes, l1Head, l1Fork>>
      /\ n <= l1Head /\ l1Final' = IF n > l1Final THEN n ELSE l1Final
  BY DEF Finalize, derivation
<1>2. n \in Nat /\ l1Final \in Nat /\ l1Final' \in Nat /\ l1Final <= l1Final' /\ n <= l1Final'
  BY <1>1, EngineQueueAssumption DEF FinalL1Inv
<1>3. finalizedL1 \in L1Refs /\ finalizedL1.num \in Nat
  BY L1RefNum DEF FinalL1Inv
<1>4. \A b : Canonical(b)' <=> Canonical(b)
  BY <1>1 DEF Canonical, L1At
<1>5. CASE n < finalizedL1.num
  <2>1. UNCHANGED <<finalizedL1, finalized>>
    BY <1>5 DEF Finalize
  <2>2. finalizedL1.num <= l1Final => finalizedL1.num <= l1Final'
    BY <1>2, <1>3
  <2>3. FinalL1Inv'
    BY <1>1, <1>2, <2>1, <2>2 DEF FinalL1Inv, Canonical, L1At
  <2>4. DerivedInv'
    BY <1>1, <2>1 DEF DerivedInv
  <2> QED BY <2>3, <2>4
<1>6. CASE ~(n < finalizedL1.num)
  <2> DEFINE f == L1At(n)
  <2>1. finalizedL1' = f /\ f \in L1Refs /\ f.num = n /\ f = L1At(f.num) /\ Canonical(f)
    BY <1>1, <1>6, L1AtTyped DEF Finalize, IInv, L1Typed, L1At, Canonical
  <2>2. f # NoL1
    BY <1>2, EngineQueueAssumption DEF L1At, NoL1, IInv, L1Typed
  <2> HIDE DEF f
  <2>3. FinalL1Inv'
    <3>1. Canonical(finalizedL1)'
      BY <1>1, <2>1 DEF Canonical, L1At
    <3> QED BY <1>1, <1>2, <2>1, <3>1 DEF FinalL1Inv
  <2>4. Derived(resetSafe, finalized, f)
    <3>1. CASE finalized \in Chain[resetSafe]
      BY <3>1 DEF Derived
    <3>2. CASE finalized \notin Chain[resetSafe]
      <4>1. Canonical(finalizedL1) /\ finalized \in Refs /\ finalizedL1.num <= f.num
        BY <1>2, <1>3, <1>6, <2>1, <3>2 DEF DerivedInv, FinalL1Inv, IInv, HeadsInv
      <4>2. SameFork(finalizedL1, f)
        BY <1>3, <2>1, <4>1, CanonicalFacts DEF Canonical
      <4> QED BY <1>3, <2>1, <4>1, <4>2, DerivedFurther DEF DerivedInv
    <3> QED BY <3>1, <3>2
  <2>5. Derived(resetSafe, finalized', f)
    <3> DEFINE fd == finalityData
    <3>1. CASE finalized' = finalized
      BY <2>4, <3>1
    <3>2. CASE (\E i \in DOMAIN fd : fd[i].l1 = f) /\ TryFinalizeL2(fd, f, origin)
      <4>1. fd \in Seq(Entries) /\ TracksDerived(resetSafe, fd, origin) /\ origin \in L1Refs
        BY DEF IInv, Tracks, DerivedInv, L1Typed
      <4>2. SameFork(f, origin)
        BY <3>2, <4>1 DEF TracksDerived
      <4>3. \A i \in DOMAIN fd : fd[i].l1 \in L1Refs
        <5>1. \A i \in DOMAIN fd : fd[i] \in Entries
          BY <4>1
        <5> QED BY <5>1 DEF Entries
      <4>4. \A i \in DOMAIN fd : fd[i].l1.num <= f.num => SameFork(fd[i].l1, f)
        BY <2>1, <4>1, <4>2, <4>3, SameForkFacts DEF TracksDerived
      <4>5. \A i \in DOMAIN fd : Derived(resetSafe, fd[i].l2, fd[i].l1)
        BY <4>1 DEF TracksDerived
      <4> QED BY <2>1, <2>4, <3>2, <4>1, <4>4, <4>5, FinalizedDerived
    <3> QED BY <1>6, <2>1, <3>1, <3>2 DEF Finalize, f
  <2>6. DerivedInv'
    BY <1>1, <2>1, <2>2, <2>5 DEF DerivedInv
  <2> QED BY <2>3, <2>6
<1> QED BY <1>5, <1>6

(* A step that takes the new origin, and perhaps attributes derived from   *)
(* it, or moves the earlier stages on to the next L1 block.                *)
LEMMA OriginKept ==
    ASSUME IInv, FinalL1Inv, DerivedInv, mode = "run", IInv',
           origin' = prevOrigin, finalityData' = TrackedFinality, SameFork(prevOrigin, prevOrigin'),
           UNCHANGED <<safeHead, resetSafe, finalizedL1, l1>>,
           safeAttributes' # NoAttributes => OnL1Chain(Included[safeAttributes'.block], prevOrigin),
           Derived(resetSafe, finalized', finalizedL1),
           finalized' \notin Chain[resetSafe] => finalizedL1 # NoL1
    PROVE  FinalL1Inv' /\ DerivedInv'
<1>1. FinalL1Inv'
  BY DEF FinalL1Inv, l1, Canonical, L1At
<1>2. Derived(resetSafe, safeHead, prevOrigin) /\ TracksDerived(resetSafe, TrackedFinality, prevOrigin)
  BY OriginDerived
<1>3. DerivedInv'
  BY <1>2 DEF DerivedInv
<1> QED BY <1>1, <1>3

(* The finalized L1 block stays canonical while L1 grows and reorganises. *)
LEMMA FinalL1Kept ==
    ASSUME IInv, FinalL1Inv, DerivedInv, L1Advance \/ L1Reorg
    PROVE  FinalL1Inv' /\ DerivedInv'
<1>1. UNCHANGED <<finalized, safeHead, origin, prevOrigin, resetSafe, finalityData, finalizedL1,
                  safeAttributes, l1Final>>
  BY DEF L1Advance, L1Reorg, heads, finality, derivation
<1>2. /\ l1Head \in Nat /\ l1Final \in Nat /\ ForkPoint \in Nat
      /\ finalizedL1 \in L1Refs /\ finalizedL1.num \in Nat
  BY L1RefNum, EngineQueueAssumption DEF IInv, L1Typed, FinalL1Inv
<1>3. ASSUME Canonical(finalizedL1), finalizedL1.num <= l1Final
      PROVE  Canonical(finalizedL1)'
  <2>1. l1Head <= l1Head' /\ l1Head' \in Nat
    BY <1>2 DEF L1Advance, L1Reorg
  <2>2. L1At(finalizedL1.num)' = L1At(finalizedL1.num)
    <3>1. CASE L1Advance
      BY <1>1, <3>1 DEF L1Advance, L1At
    <3>2. CASE L1Reorg
      <4>1. ~(finalizedL1.num >= ForkPoint)
        BY <1>2, <1>3, <3>2 DEF L1Reorg
      <4> QED BY <1>1, <4>1 DEF L1At
    <3> QED BY <3>1, <3>2
  <2> QED BY <1>1, <1>2, <1>3, <2>1, <2>2 DEF Canonical
<1>4. FinalL1Inv'
  BY <1>1, <1>3 DEF FinalL1Inv
<1>5. DerivedInv'
  BY <1>1 DEF DerivedInv
<1> QED BY <1>4, <1>5

LEMMA FinalityKept ==
    ASSUME IInv, IInv', FinalL1Inv, DerivedInv, [Next]_vars
    PROVE  FinalL1Inv' /\ DerivedInv'
<1> USE DEF heads, finality, derivation
<1>0. /\ origin \in L1Refs /\ prevOrigin \in L1Refs /\ finalizedL1 \in L1Refs
      /\ NoBlock \in Refs /\ NoBlock \in Chain[NoBlock]
  BY ChainBasic DEF IInv, L1Typed, FinalL1Inv, Refs
<1>1. ASSUME NEW p \in Blocks, DropUnsafePayload(p) \/ ApplyUnsafePayload(p)
      PROVE  FinalL1Inv' /\ DerivedInv'
  BY <1>1, NothingDerived DEF DropUnsafePayload, ApplyUnsafePayload
<1>2. CASE TryUpdateEngine \/ ConsolidateMissing \/ CorrectUnsafeHead
  BY <1>2, NothingDerived DEF TryUpdateEngine, ConsolidateMissing, CorrectUnsafeHead
<1>3. CASE ForceInterrupted \/ ForceRejected \/ ForcePrestateError
  BY <1>3, NothingDerived DEF ForceInterrupted, ForceRejected, ForcePrestateError
<1>4. CASE Consolidate
  <2>1. PICK b \in AtNextHeight :
           IF safeAttributes.last
           THEN /\ safeHead' = b
                /\ finalityData' = PostProcessSafeL2(finalityData, b, origin)
           ELSE UNCHANGED <<safeHead, finalityData>>
    BY <1>4 DEF Consolidate
  <2>2. b = safeAttributes.block
    BY <1>4, <2>1 DEF Consolidate, Matches
  <2>3. /\ safeHead' = SafeIfLast(safeAttributes.block)
        /\ finalityData' = IF safeAttributes.last
                           THEN PostProcessSafeL2(finalityData, safeAttributes.block, origin)
                           ELSE finalityData
    BY <2>1, <2>2 DEF SafeIfLast
  <2> QED BY <1>4, <2>3, AttributesDerived DEF Consolidate, StepsOn
<1>5. CASE ForceInserted
  BY <1>5, AttributesDerived DEF ForceInserted, Forces, StepsOn
<1>6. CASE DeriveReset
  <2>1. CASE UNCHANGED <<origin, finalityData>>
    BY <1>6, <2>1, NothingDerived DEF DeriveReset
  <2>2. CASE origin' = prevOrigin /\ finalityData' = TrackedFinality
    <3>1. SameFork(prevOrigin, prevOrigin')
      BY <1>0, <1>6, SameForkFacts DEF DeriveReset
    <3> QED BY <1>6, <2>2, <3>1, OriginKept DEF DeriveReset, StepsOn, DerivedInv
  <2> QED BY <1>6, <2>1, <2>2 DEF DeriveReset
<1>7. CASE DeriveAttributes
  <2>1. SameFork(prevOrigin, prevOrigin') /\ TakesOrigin
    BY <1>0, <1>7, SameForkFacts DEF DeriveAttributes
  <2>2. OnL1Chain(Included[safeAttributes'.block], prevOrigin)
    BY <1>7 DEF DeriveAttributes
  <2> QED BY <2>1, <2>2, OriginKept, TakesOriginDerived DEF TakesOrigin, StepsOn
<1>8. CASE DeriveEOF
  <2>1. TakesOrigin /\ safeAttributes' = NoAttributes
    BY <1>8 DEF DeriveEOF, TakesOrigin
  <2>2. SameFork(prevOrigin, prevOrigin')
    <3>1. CASE UNCHANGED prevOrigin
      BY <1>0, <3>1, SameForkFacts
    <3>2. CASE OnL1Chain(prevOrigin, prevOrigin')
      BY <1>0, <3>2, SameForkFacts DEF IInv, L1Typed
    <3> QED BY <1>8, <3>1, <3>2 DEF DeriveEOF
  <2> QED BY <2>1, <2>2, OriginKept, TakesOriginDerived DEF TakesOrigin, StepsOn
<1>9. CASE Reset
  <2>1. /\ finalized' = eng.finalized /\ safeAttributes' = NoAttributes /\ finalityData' = <<>>
        /\ prevOrigin' = origin' /\ resetSafe' = safeHead' /\ UNCHANGED <<finalizedL1, l1>>
    BY <1>9 DEF Reset, FinalizedAfterReset, FinalityDataAfterReset
  <2>2. PICK n \in {WalkEnd} : ~FindL2HeadsFails(n) /\ safeHead' = FoundSafe(n)
    BY <1>9 DEF Reset
  <2>3. safeHead' \in Refs /\ eng.finalized \in Chain[safeHead'] /\ safeHead' \in Chain[safeHead']
    BY <2>2, ResetHeads, ChainBasic DEF IInv, Refs
  <2>4. origin' \in L1Refs /\ SameFork(origin', prevOrigin')
    BY <2>1, SameForkFacts DEF IInv, L1Typed
  <2>5. FinalL1Inv'
    BY <2>1, <2>3, <2>4 DEF FinalL1Inv, l1, Canonical, L1At
  <2>6. DerivedInv'
    BY <2>1, <2>3 DEF DerivedInv, Derived, TracksDerived
  <2> QED BY <2>5, <2>6
<1>10. CASE Restart
  <2>1. FinalL1Inv'
    BY <1>0, <1>10 DEF Restart, FinalL1Inv, l1, L1Refs, SameFork, NoL1
  <2>2. DerivedInv'
    BY <1>0, <1>10 DEF Restart, DerivedInv, Derived, TracksDerived
  <2> QED BY <2>1, <2>2
<1>11. CASE RequestReset \/ (\E p \in Gossip : AddUnsafePayload(p)) \/ UNCHANGED vars
  BY <1>11, NothingDerived DEF RequestReset, AddUnsafePayload, vars
<1>12. CASE SequencerStart \/ SequencerConfirm
  BY <1>12, NothingDerived DEF SequencerStart, SequencerConfirm
<1>13. CASE \E n \in 0..MaxL1 : Finalize(n)
  BY <1>13, FinalizeDerived
<1>14. CASE L1Advance \/ L1Reorg
  BY <1>14, FinalL1Kept
<1> QED
  BY <1>1, <1>2, <1>3, <1>4, <1>5, <1>6, <1>7, <1>8, <1>9, <1>10, <1>11, <1>12, <1>13, <1>14
     DEF Next, Step

LEMMA InitEstablishes2 == Init => IInv2
<1> SUFFICES ASSUME Init PROVE IInv2
  OBVIOUS
<1>1. NoBlock \in Chain[NoBlock] /\ NoBlock \in Refs /\ NoL1 \in L1Refs
  BY ChainBasic DEF Refs, L1Refs
<1>2. SettledInv /\ ResetSafeComplete
  BY DEF Init, SettledInv, ResetSafeComplete, Running
<1>3. FinalL1Inv
  BY <1>1, EngineQueueAssumption DEF Init, FinalL1Inv, SameFork, NoL1
<1>4. DerivedInv
  BY <1>1 DEF Init, DerivedInv, Derived, TracksDerived
<1> QED BY <1>2, <1>3, <1>4 DEF IInv2

LEMMA StepKeeps2 ==
    ASSUME IInv, IInv2, [Next]_vars
    PROVE  IInv' /\ IInv2'
<1>1. IInv' /\ Advances
  BY StepKeeps
<1> QED BY <1>1, SettledKept, ResetSafeKept, FinalityKept DEF IInv2

-----------------------------------------------------------------------------
(* Theorems                                                                *)

(* For any tree of L2 blocks and any L1 reorg, windows and delays: while   *)
(* the pipeline runs the finalized head is an ancestor of the safe head    *)
(* and that of the pending safe head.                                      *)
THEOREM HeadsStayOrdered == Spec => []HeadsOrdered
<1>1. IInv /\ [Next]_vars => IInv'
  BY StepKeeps
<1>2. IInv => HeadsOrdered
  BY DEF IInv, HeadsInv, HeadsOrdered
<1> QED BY <1>1, <1>2, InitEstablishes, PTL DEF Spec

(* Queued attributes always build on the pending safe head. *)
THEOREM AttributesStayOnPendingSafe == Spec => []AttributesOnPendingSafe
<1>1. IInv /\ [Next]_vars => IInv'
  BY StepKeeps
<1>2. IInv => AttributesOnPendingSafe
  BY DEF IInv, AttributesInv, AttributesOnPendingSafe
<1> QED BY <1>1, <1>2, InitEstablishes, PTL DEF Spec

(* Between resets the finalized and the safe head move to descendants only. *)
THEOREM HeadsAdvance == Spec => HeadsOnlyAdvance
<1> DEFINE Up == Running /\ mode' = "run" =>
                     finalized \in Chain[finalized'] /\ safeHead \in Chain[safeHead']
<1>1. IInv /\ [Next]_vars => IInv' /\ [Up]_vars
  BY StepKeeps DEF Advances
<1> QED BY <1>1, InitEstablishes, PTL DEF Spec, HeadsOnlyAdvance

(* Over resets, restarts and lost replies the engine is told to finalize   *)
(* only descendants of what it has finalized.                              *)
THEOREM EngineFinalizedAdvances == Spec => EngineFinalizedOnlyAdvances
<1> DEFINE Up == eng.finalized \in Chain[eng.finalized']
<1>1. IInv /\ [Next]_vars => IInv' /\ [Up]_vars
  BY StepKeeps DEF Advances
<1> QED BY <1>1, InitEstablishes, PTL DEF Spec, EngineFinalizedOnlyAdvances

LEMMA BothInductive == Spec => [](IInv /\ IInv2)
<1>1. IInv /\ IInv2 /\ [Next]_vars => IInv' /\ IInv2'
  BY StepKeeps2
<1> QED BY <1>1, InitEstablishes, InitEstablishes2, PTL DEF Spec

(* Once the forkchoice is settled the safe head is on the unsafe chain,    *)
(* whatever the engine answered, lost or rejected on the way.              *)
THEOREM SettledStaysOnUnsafeChain == Spec => []SettledSafeOnUnsafeChain
<1>1. IInv2 => SettledSafeOnUnsafeChain
  BY DEF IInv2, SettledInv, SettledSafeOnUnsafeChain, Running
<1> QED BY <1>1, BothInductive, PTL

(* For any L1 reorg and any order of finality signals, resets and derived  *)
(* blocks: what is finalized since the last reset has its whole batch in   *)
(* L1 blocks that are final and canonical.                                 *)
THEOREM FinalizedFromFinalL1 == Spec => []FinalizedReproducible
<1>1. IInv2 => FinalizedReproducible
  BY DEF IInv2, DerivedInv, Derived, FinalL1Inv, FinalizedReproducible
<1> QED BY <1>1, BothInductive, PTL

(* For any window and any chain the engine has: the safe head that a reset *)
(* goes back to is finalized or a whole sequencing window old.             *)
THEOREM ResetGoesBackFarEnough == Spec => []ResetSafeComplete
<1>1. IInv2 => ResetSafeComplete
  BY DEF IInv2
<1> QED BY <1>1, BothInductive, PTL
=============================================================================
