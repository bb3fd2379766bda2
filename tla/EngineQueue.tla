---------------------------- MODULE EngineQueue ----------------------------
(***************************************************************************)
(* The engine queue of bl-node (derive/engine_queue.go), the last stage of *)
(* the derivation pipeline: it keeps the unsafe, pending safe, safe and    *)
(* finalized L2 heads, brings the execution engine to them, and builds     *)
(* blocks for the derivation and for the sequencer.  With it: the engine   *)
(* calls of derive/engine_update.go, the search for the starting heads of  *)
(* a reset (sync/start.go), the stepping of derive/pipeline.go and the     *)
(* buffer of unsafe payloads (PayloadsQueue).                              *)
(*                                                                         *)
(* The driver calls the queue from one event loop, so a call is one step;  *)
(* what varies is which call comes next, what the engine answers, and how  *)
(* the L1 chain grows, reorganises and finalizes in between.  L2 blocks    *)
(* form a constant tree; the L1 chain may switch once, at ForkPoint, to a  *)
(* second fork.                                                            *)
(***************************************************************************)
EXTENDS Integers, Sequences, FiniteSets

CONSTANTS
    Blocks, Genesis, NoBlock,  \* L2 blocks; NoBlock is the zero L2BlockRef
    Parent, Number, Chain,     \* parent, height, and set of ancestors (with itself)
    L1Origin,                  \* L1 block that an L2 block names as its origin
    Included,                  \* L1 block whose data completes the block's batch
    DepositOnly,               \* blocks derived without batched transactions
    Gossip,                    \* blocks that arrive as unsafe payloads
    PayloadSize, MaxUnsafePayloadsMemory,
    MaxL1, ForkPoint,          \* bound on L1 heights; first height of the other fork
    SeqWindowSize, ChannelTimeout, MaxReorgSeqWindows,
    FinalityLookback, FinalityDelay,
    EngineSync,                \* syncCfg.EngineSync
    LostReplies                \* the engine may apply an update and the reply be lost

(* The zero L1BlockRef. *)
NoL1 == [num |-> 0, fork |-> -1]

L1Blocks == {[num |-> n, fork |-> 0] : n \in 0..MaxL1} \cup
            {[num |-> n, fork |-> 1] : n \in {m \in 0..MaxL1 : m >= ForkPoint}}

Refs == Blocks \cup {NoBlock}

ASSUME EngineQueueAssumption ==
    /\ Genesis \in Blocks /\ NoBlock \notin Blocks
    /\ Parent \in [Refs -> Refs] /\ Number \in [Refs -> Nat] /\ Chain \in [Refs -> SUBSET Refs]
    /\ L1Origin \in [Refs -> L1Blocks \cup {NoL1}] /\ Included \in [Refs -> L1Blocks \cup {NoL1}]
    /\ Chain[Genesis] = {Genesis} /\ Chain[NoBlock] = {NoBlock}
    /\ Number[Genesis] = 0 /\ Number[NoBlock] = 0 /\ L1Origin[NoBlock] = NoL1
    /\ \A b \in Blocks \ {Genesis} :
          /\ Parent[b] \in Blocks
          /\ Chain[b] = Chain[Parent[b]] \cup {b}
          /\ Number[b] = Number[Parent[b]] + 1
          \* an epoch's first block has a later L1 origin than its parent
          /\ L1Origin[b] # L1Origin[Parent[b]] => L1Origin[Parent[b]].num < L1Origin[b].num
    /\ \A b \in Refs : \A c \in Chain[b] : Chain[c] \subseteq Chain[b]
    /\ \A b \in Refs : \A c, d \in Chain[b] : Number[c] <= Number[d] => c \in Chain[d]
    /\ \A b \in Refs : \A S \in SUBSET Chain[b] :     \* chains are finite
          S # {} => \E c \in S : \A d \in S : Number[d] <= Number[c]
    /\ DepositOnly \subseteq Blocks /\ Gossip \subseteq Blocks
    /\ {MaxL1, ForkPoint, SeqWindowSize, ChannelTimeout, MaxReorgSeqWindows, FinalityDelay} \subseteq Nat
    /\ FinalityLookback \in Nat \ {0}
    /\ {EngineSync, LostReplies} \subseteq BOOLEAN

NoJob == [onto |-> NoBlock, safe |-> FALSE]
NoAttributes == [block |-> NoBlock, parent |-> NoBlock, last |-> FALSE]

VARIABLES
    finalized, safeHead, pendingSafeHead, unsafeHead, engineSyncTarget,
    building,              \* buildingOnto and buildingSafe, NoJob if buildingID is zero
    needForkchoiceUpdate,
    finalizedL1, triedFinalizeAt,
    safeAttributes,
    finalityData,          \* sequence of [l2, l1]
    origin,
    pq, currentSize, blockHashes,   \* unsafePayloads
    mode,                  \* pipeline: "reset" (dp.resetting = 0), "run" or "stopped"
    prevOrigin,            \* L1 block of the earlier stages
    eng,                   \* forkchoice of the engine: [head, safe, finalized]
    l1Head, l1Fork, l1Final,        \* the L1 chain: height, fork, finalized height
    resetSafe              \* history: the safe head that the last reset chose

heads == <<finalized, safeHead, pendingSafeHead, unsafeHead, engineSyncTarget>>
finality == <<finalizedL1, triedFinalizeAt, finalityData>>
payloads == <<pq, currentSize, blockHashes>>
l1 == <<l1Head, l1Fork, l1Final>>
derivation == <<origin, prevOrigin, resetSafe>>
vars == <<heads, finality, payloads, l1, derivation, building, needForkchoiceUpdate,
          safeAttributes, mode, eng>>

PQ == INSTANCE PayloadsQueue WITH Payloads <- Blocks, BlockNumber <- Number,
                                  MaxSize <- MaxUnsafePayloadsMemory

-----------------------------------------------------------------------------
(* The L1 chain as the L1 fetcher shows it                                 *)

L1At(n) == [num |-> n, fork |-> IF n >= ForkPoint THEN l1Fork ELSE 0]

Canonical(b) == b.num <= l1Head /\ b = L1At(b.num)

(* L1 block a is b or one of its ancestors. *)
OnL1Chain(a, b) == a.num <= b.num /\ (IF a.num >= ForkPoint THEN a.fork = b.fork ELSE a.fork = 0)

L1Reorg ==
    /\ l1Fork = 0 /\ l1Head >= ForkPoint /\ l1Final < ForkPoint
    /\ l1Fork' = 1
    /\ UNCHANGED <<heads, finality, payloads, l1Head, l1Final, derivation, building,
                   needForkchoiceUpdate, safeAttributes, mode, eng>>

L1Advance ==
    /\ l1Head < MaxL1
    /\ l1Head' = l1Head + 1
    /\ UNCHANGED <<heads, finality, payloads, l1Fork, l1Final, derivation, building,
                   needForkchoiceUpdate, safeAttributes, mode, eng>>

-----------------------------------------------------------------------------
(* The execution engine                                                    *)

(* The engine takes a forkchoice whose safe and finalized blocks are       *)
(* ancestors of its head, and refuses any other as inconsistent.           *)
FcuValid(h, s, f) == s \in Chain[h] /\ f \in Chain[h]

(* The engine cannot wind back its chain: a head it already has as an      *)
(* ancestor of its own leaves the chain as it is.                          *)
Fcu(h, s, f) == [head |-> IF h \in Chain[eng.head] THEN eng.head ELSE h, safe |-> s, finalized |-> f]

(* The engine's canonical block at height n, if there is one. *)
PayloadsByNumber(n) == {b \in Chain[eng.head] : Number[b] = n}

-----------------------------------------------------------------------------
(* Finality                                                                *)

(* Mutant of Finalizable: any L2 block tracked counts. *)
FinalizableAny(fd, l1Block) ==
    {i \in DOMAIN fd : Number[fd[i].l2] > Number[finalized]}

Finalizable(fd, l1Block) ==
    {i \in DOMAIN fd : Number[fd[i].l2] > Number[finalized] /\ fd[i].l1.num <= l1Block.num}

(* tryFinalizeL2 with L1 finalized up to l1Block, while at L1 block o: the *)
(* highest L2 block that was derived from L1 data up to l1Block.           *)
TryFinalizeL2(fd, l1Block, o) ==
    LET C == Finalizable(fd, l1Block)
    IN  /\ triedFinalizeAt' = o
        /\ needForkchoiceUpdate' = (needForkchoiceUpdate \/ C # {})
        /\ IF C = {} THEN UNCHANGED finalized
           ELSE \E i \in C :
                   /\ \A j \in C : \/ Number[fd[j].l2] < Number[fd[i].l2]
                                   \/ Number[fd[j].l2] = Number[fd[i].l2] /\ i <= j
                   /\ finalized' = fd[i].l2

(* The finality data once the safe head is safe at L1 block o. *)
PostProcessSafeL2(fd, safe, o) ==
    LET kept == IF Len(fd) >= FinalityLookback THEN SubSeq(fd, 2, FinalityLookback) ELSE fd
    IN  IF kept = <<>> \/ kept[Len(kept)].l1.num < o.num
        THEN Append(kept, [l2 |-> safe, l1 |-> o])
        ELSE [kept EXCEPT ![Len(kept)].l2 = safe]

(* Finalize: the signal that L1 is final up to height n.  An older signal  *)
(* is ignored; L2 is finalized at once only if the signalled block itself  *)
(* is among the finality data.                                             *)
Finalize(n) ==
    /\ mode # "stopped"
    /\ n <= l1Head
    /\ l1Final' = IF n > l1Final THEN n ELSE l1Final
    /\ IF n < finalizedL1.num
       THEN UNCHANGED <<finalizedL1, triedFinalizeAt, needForkchoiceUpdate, finalized>>
       ELSE /\ finalizedL1' = L1At(n)
            /\ IF \E i \in DOMAIN finalityData : finalityData[i].l1 = L1At(n)
               THEN TryFinalizeL2(finalityData, L1At(n), origin)
               ELSE UNCHANGED <<triedFinalizeAt, needForkchoiceUpdate, finalized>>
    /\ UNCHANGED <<safeHead, pendingSafeHead, unsafeHead, engineSyncTarget, finalityData, payloads,
                   l1Head, l1Fork, derivation, building, safeAttributes, mode, eng>>

-----------------------------------------------------------------------------
(* Reset: FindL2Heads walks back from the engine's head                    *)

(* The L1 origin is canonical, or too high for L1 to tell yet. *)
Plausible(b) == L1Origin[b].num > l1Head \/ Canonical(L1Origin[b])

Highest(S) == IF S = {} THEN NoBlock ELSE CHOOSE b \in S : \A c \in S : Number[c] <= Number[b]

(* The blocks walked once the walk has reached n. *)
Walked(n) == {b \in Chain[eng.head] : n \in Chain[b]}

(* The unsafe head found when the walk is at n: every block from n to it   *)
(* is plausible.                                                           *)
UnsafeAt(n) ==
    Highest({b \in Walked(n) : \A c \in Walked(n) : c \in Chain[b] => Plausible(c)})

HighestCanonicalAt(n) ==
    Highest({b \in Walked(n) \cap Chain[UnsafeAt(n)] : Canonical(L1Origin[b])})

(* Mutant of WindowComplete: one epoch behind is taken to be enough. *)
WindowIgnored(n) ==
    /\ Number[n] <= Number[eng.safe]
    /\ L1Origin[n].num < L1Origin[HighestCanonicalAt(n)].num
    /\ L1Origin[Parent[n]] # L1Origin[n]

(* n opens an epoch, is not above the engine's safe block, and lies a full *)
(* sequencing window behind the highest block known to be canonical.       *)
WindowComplete(n) ==
    /\ Number[n] <= Number[eng.safe]
    /\ L1Origin[n].num + SeqWindowSize < L1Origin[HighestCanonicalAt(n)].num
    /\ L1Origin[Parent[n]] # L1Origin[n]

(* Where the walk stops: at the finalized height, or a window back. *)
WalkEnd ==
    Highest({n \in Chain[eng.head] : Number[n] = Number[eng.finalized] \/ WindowComplete(n)})

(* FindL2Heads, when its walk ends at n, fails if that is another block at *)
(* the finalized height, or if the last unsafe head it tries is too far    *)
(* behind the engine's.                                                    *)
FindL2HeadsFails(n) ==
    \/ Number[n] = Number[eng.finalized] /\ n # eng.finalized
    \/ LET after == Walked(n) \ {n}
           u     == Highest({b \in Walked(n) : \A c \in after : c \in Chain[b] => Plausible(c)})
       IN  L1Origin[u].num + MaxReorgSeqWindows * SeqWindowSize < L1Origin[eng.head].num

(* The safe head it returns. *)
FoundSafe(n) == IF Number[n] = Number[eng.finalized] THEN n ELSE Parent[n]

(* The L2 block whose L1 origin is old enough to buffer channels from. *)
PipelineStart(safe) ==
    Highest({b \in Chain[safe] :
                ~(/\ Number[b] > Number[Genesis]
                  /\ L1Origin[b].num > L1Origin[Genesis].num
                  /\ L1Origin[b].num + ChannelTimeout > L1Origin[safe].num)})

FinalityDataAfterReset == <<>>

(* Mutant of PendingSafeAfterReset: the head of the open span stays. *)
PendingSafeKept(safe) == pendingSafeHead

PendingSafeAfterReset(safe) == safe

(* Mutant of FinalizedAfterReset: the engine's finalized block is ignored. *)
FinalizedFromGenesis == Genesis

FinalizedAfterReset == eng.finalized

(* Reset takes its heads from the engine; the stages before start again    *)
(* from the origin it sets.  When the search fails nothing changes.        *)
Reset ==
    /\ mode = "reset"
    /\ \E n \in {WalkEnd} :
          /\ ~FindL2HeadsFails(n)
          /\ unsafeHead' = UnsafeAt(n) /\ engineSyncTarget' = unsafeHead'
          /\ safeHead' = FoundSafe(n) /\ pendingSafeHead' = PendingSafeAfterReset(safeHead')
          /\ origin' = L1Origin[PipelineStart(safeHead')]
    /\ finalized' = FinalizedAfterReset
    /\ safeAttributes' = NoAttributes /\ building' = NoJob
    /\ needForkchoiceUpdate' = TRUE
    /\ finalityData' = FinalityDataAfterReset
    /\ prevOrigin' = origin' /\ resetSafe' = safeHead'
    /\ mode' = "run"
    /\ UNCHANGED <<finalizedL1, triedFinalizeAt, payloads, l1, eng>>

(* A stage returns a reset error, or the operator asks for a reset. *)
RequestReset ==
    /\ mode = "run"
    /\ mode' = "reset"
    /\ UNCHANGED <<heads, finality, payloads, l1, derivation, building, needForkchoiceUpdate,
                   safeAttributes, eng>>

(* The node restarts, the engine does not. *)
Restart ==
    /\ finalized' = NoBlock /\ safeHead' = NoBlock /\ pendingSafeHead' = NoBlock
    /\ unsafeHead' = NoBlock /\ engineSyncTarget' = NoBlock /\ resetSafe' = NoBlock
    /\ building' = NoJob /\ needForkchoiceUpdate' = FALSE /\ safeAttributes' = NoAttributes
    /\ finalizedL1' = NoL1 /\ triedFinalizeAt' = NoL1 /\ finalityData' = <<>>
    /\ origin' = NoL1 /\ prevOrigin' = NoL1
    /\ pq' = {} /\ currentSize' = 0 /\ blockHashes' = {}
    /\ mode' = "reset"
    /\ UNCHANGED <<l1, eng>>

-----------------------------------------------------------------------------
(* Step                                                                    *)

isEngineSyncing == unsafeHead # engineSyncTarget

(* Mutant of TryUpdateEngine: a refused update counts as done. *)
TryUpdateIgnoresRefusal ==
    LET valid == FcuValid(engineSyncTarget, safeHead, finalized)
    IN  /\ mode = "run" /\ needForkchoiceUpdate
        /\ eng' = IF valid THEN Fcu(engineSyncTarget, safeHead, finalized) ELSE eng
        /\ needForkchoiceUpdate' = FALSE
        /\ UNCHANGED <<heads, finality, payloads, l1, derivation, building, safeAttributes, mode>>

(* tryUpdateEngine brings the engine to the heads.  While it syncs to a    *)
(* target it does not have it answers without an error and without         *)
(* applying anything; when it has got there it answers as always.          *)
TryUpdateEngine ==
    LET valid == FcuValid(engineSyncTarget, safeHead, finalized)
        set   == Fcu(engineSyncTarget, safeHead, finalized)
    IN  /\ mode = "run" /\ needForkchoiceUpdate
        /\ \/ /\ isEngineSyncing
              /\ needForkchoiceUpdate' = FALSE
              /\ UNCHANGED <<eng, mode>>
           \/ /\ valid
              /\ eng' = set
              /\ needForkchoiceUpdate' = FALSE
              /\ UNCHANGED mode
           \/ /\ valid /\ LostReplies
              /\ eng' = set
              /\ UNCHANGED <<needForkchoiceUpdate, mode>>
           \/ /\ ~valid
              /\ mode' = "reset"
              /\ UNCHANGED <<eng, needForkchoiceUpdate>>
        /\ UNCHANGED <<heads, finality, payloads, l1, derivation, building, safeAttributes>>

(* The first unsafe payload is not above the safe or the unsafe head. *)
Outdated(p) == Number[p] <= Number[safeHead] \/ Number[p] <= Number[unsafeHead]

(* The payload can go to the engine now. *)
Connects(p) == EngineSync \/ Parent[p] = unsafeHead

(* tryNextUnsafePayload drops a payload that is outdated, malformed or     *)
(* that the engine does not accept.                                        *)
DropUnsafePayload(p) ==
    /\ mode = "run" /\ ~needForkchoiceUpdate
    /\ Outdated(p) \/ Connects(p)
    /\ PQ!Pop(p)
    /\ UNCHANGED <<heads, finality, l1, derivation, building, needForkchoiceUpdate,
                   safeAttributes, mode, eng>>

(* tryNextUnsafePayload makes a payload the head of the engine. *)
ApplyUnsafePayload(p) ==
    LET valid == FcuValid(p, safeHead, finalized)
        set   == Fcu(p, safeHead, finalized)
    IN  /\ mode = "run" /\ ~needForkchoiceUpdate
        /\ p \in PQ!Peek /\ ~Outdated(p) /\ Connects(p)
        /\ \/ /\ valid
              /\ eng' = set
              /\ unsafeHead' = p /\ engineSyncTarget' = p
              /\ PQ!Pop(p)
              /\ UNCHANGED mode
           \/ /\ valid /\ LostReplies
              /\ eng' = set
              /\ UNCHANGED <<unsafeHead, engineSyncTarget, payloads, mode>>
           \/ /\ EngineSync          \* SYNCING
              /\ engineSyncTarget' = p
              /\ PQ!Pop(p)
              /\ UNCHANGED <<unsafeHead, mode, eng>>
           \/ /\ ~valid
              /\ mode' = "reset"
              /\ UNCHANGED <<unsafeHead, engineSyncTarget, payloads, eng>>
        /\ UNCHANGED <<finalized, safeHead, pendingSafeHead, finality, l1, derivation, building,
                       needForkchoiceUpdate, safeAttributes>>

(* The payloads leave the step to the safe attributes: there are none, or  *)
(* the first does not connect, and is dropped if it competes with the next *)
(* unsafe block.                                                           *)
PassUnsafePayloads ==
    \/ pq = {} /\ UNCHANGED payloads
    \/ \E p \in PQ!Peek :
          /\ ~Outdated(p) /\ ~Connects(p)
          /\ IF Number[p] = Number[unsafeHead] + 1 THEN PQ!Pop(p) ELSE UNCHANGED payloads

(* A step that gets past the forkchoice update and the unsafe payloads. *)
StepsOn == mode = "run" /\ ~needForkchoiceUpdate /\ ~isEngineSyncing /\ PassUnsafePayloads

AtNextHeight == PayloadsByNumber(Number[pendingSafeHead] + 1)

(* The unsafe block above the pending safe head is the one derived. *)
Matches == AtNextHeight = {safeAttributes.block}

(* consolidateNextSafeAttributes: the pending safe head moves up the chain *)
(* the engine has; at the end of a span the safe head moves with it.       *)
Consolidate ==
    /\ StepsOn /\ safeAttributes # NoAttributes
    /\ Number[pendingSafeHead] < Number[unsafeHead] /\ Matches
    /\ \E b \in AtNextHeight :
          /\ pendingSafeHead' = b
          /\ IF safeAttributes.last
             THEN /\ safeHead' = b
                  /\ needForkchoiceUpdate' = TRUE
                  /\ finalityData' = PostProcessSafeL2(finalityData, b, origin)
             ELSE UNCHANGED <<safeHead, needForkchoiceUpdate, finalityData>>
    /\ safeAttributes' = NoAttributes
    /\ UNCHANGED <<finalized, unsafeHead, engineSyncTarget, finalizedL1, triedFinalizeAt, l1,
                   derivation, building, mode, eng>>

(* The engine does not have the block to consolidate with. *)
ConsolidateMissing ==
    /\ StepsOn /\ safeAttributes # NoAttributes
    /\ Number[pendingSafeHead] < Number[unsafeHead] /\ AtNextHeight = {}
    /\ mode' = "reset"
    /\ UNCHANGED <<heads, finality, l1, derivation, building, needForkchoiceUpdate,
                   safeAttributes, eng>>

(* The unsafe head is behind the pending safe head: correct it. *)
CorrectUnsafeHead ==
    /\ StepsOn /\ safeAttributes # NoAttributes
    /\ Number[pendingSafeHead] > Number[unsafeHead]
    /\ unsafeHead' = pendingSafeHead /\ engineSyncTarget' = pendingSafeHead
    /\ UNCHANGED <<finalized, safeHead, pendingSafeHead, finality, l1, derivation, building,
                   needForkchoiceUpdate, safeAttributes, mode, eng>>

-----------------------------------------------------------------------------
(* forceNextSafeAttributes: StartPayload and ConfirmPayload in one step    *)

Forces ==
    /\ StepsOn /\ safeAttributes # NoAttributes
    /\ \/ Number[pendingSafeHead] = Number[unsafeHead]
       \/ /\ Number[pendingSafeHead] < Number[unsafeHead]
          /\ AtNextHeight # {} /\ ~Matches

(* The engine after a successful StartPayload on the pending safe head. *)
Started == Fcu(pendingSafeHead, safeHead, finalized)

(* Mutant of SafeIfLast: within a span the safe block is the finalized one. *)
SafeIfLastFinalized(b) == IF safeAttributes.last THEN b ELSE finalized

(* The safe block once b is inserted: it moves at the end of a span only. *)
SafeIfLast(b) == IF safeAttributes.last THEN b ELSE safeHead

(* The engine after a successful ConfirmPayload. *)
Confirmed ==
    Fcu(safeAttributes.block, SafeIfLast(safeAttributes.block), finalized)

StartValid == FcuValid(pendingSafeHead, safeHead, finalized)

(* The derived block is built, inserted and made the head. *)
ForceInserted ==
    LET b == safeAttributes.block
    IN  /\ Forces /\ StartValid /\ FcuValid(b, SafeIfLast(b), finalized)
        /\ eng' = Confirmed
        /\ unsafeHead' = b /\ engineSyncTarget' = b /\ pendingSafeHead' = b
        /\ safeHead' = SafeIfLast(b)
        /\ finalityData' = IF safeAttributes.last THEN PostProcessSafeL2(finalityData, b, origin)
                                                  ELSE finalityData
        /\ building' = NoJob /\ safeAttributes' = NoAttributes
        /\ UNCHANGED <<finalized, finalizedL1, triedFinalizeAt, l1, derivation,
                       needForkchoiceUpdate, mode>>

(* A temporary error.  Of StartPayload it leaves the queue as it was, of   *)
(* ConfirmPayload it leaves the building job; either update of the         *)
(* engine may have been applied although its reply was lost.               *)
ForceInterrupted ==
    /\ Forces /\ StartValid
    /\ \/ /\ LostReplies
          /\ eng' = Started
          /\ UNCHANGED building
       \/ /\ eng' = Started
          /\ building' = [onto |-> pendingSafeHead, safe |-> TRUE]
       \/ /\ LostReplies
          /\ eng' = Confirmed
          /\ building' = [onto |-> pendingSafeHead, safe |-> TRUE]
    /\ UNCHANGED <<heads, finality, l1, derivation, needForkchoiceUpdate, safeAttributes, mode>>

(* The engine finds the payload invalid, at the start or at the end: the   *)
(* job is cancelled and the batch dropped with what was pending of its     *)
(* span.  A block of deposits only cannot be dropped.                      *)
ForceRejected ==
    /\ Forces /\ StartValid
    /\ eng' \in {eng, Started}
    /\ building' = NoJob
    /\ IF safeAttributes.block \in DepositOnly
       THEN mode' = "stopped" /\ UNCHANGED <<safeAttributes, pendingSafeHead>>
       ELSE /\ safeAttributes' = NoAttributes
            /\ pendingSafeHead' = safeHead
            /\ UNCHANGED mode
    /\ UNCHANGED <<finalized, safeHead, unsafeHead, engineSyncTarget, finality, l1, derivation,
                   needForkchoiceUpdate>>

(* The pre-state cannot be prepared: the job is cancelled and the pipeline *)
(* is reset.                                                               *)
ForcePrestateError ==
    /\ Forces
    /\ eng' \in IF StartValid THEN {eng, Started} ELSE {eng}
    /\ building' = NoJob
    /\ mode' = "reset"
    /\ UNCHANGED <<heads, finality, l1, derivation, needForkchoiceUpdate, safeAttributes>>

-----------------------------------------------------------------------------
(* No attributes are queued: take the new origin, finalize, ask for more   *)

(* verifyNewL1Origin: the origin of the unsafe head is on the chain of the *)
(* new origin; checked by hash next to it, by number further below.        *)
OriginConsistent ==
    LET u == L1Origin[unsafeHead]
    IN  \/ prevOrigin = origin
        \/ prevOrigin.num < u.num
        \/ prevOrigin.num \in {u.num, u.num + 1} /\ OnL1Chain(u, prevOrigin)
        \/ prevOrigin.num > u.num + 1 /\ L1At(u.num) = u

(* tryFinalizePastL2Blocks acts: L1 is final beyond the new origin, and    *)
(* the last attempt is far enough behind.                                  *)
FinalizesPast ==
    /\ finalizedL1 # NoL1
    /\ finalizedL1.num >= prevOrigin.num
    /\ triedFinalizeAt = NoL1 \/ prevOrigin.num > triedFinalizeAt.num + FinalityDelay

OnFinalizingChain == L1At(prevOrigin.num) = prevOrigin

TrackedFinality == PostProcessSafeL2(finalityData, safeHead, prevOrigin)

(* The unsafe head, or the origin itself, is not on the canonical chain. *)
DeriveReset ==
    /\ StepsOn /\ safeAttributes = NoAttributes
    /\ \/ /\ ~OriginConsistent
          /\ UNCHANGED <<origin, finalityData>>
       \/ /\ OriginConsistent /\ FinalizesPast /\ ~OnFinalizingChain
          /\ origin' = prevOrigin
          /\ finalityData' = TrackedFinality
    /\ mode' = "reset"
    /\ UNCHANGED <<heads, finalizedL1, triedFinalizeAt, l1, prevOrigin, resetSafe, building,
                   needForkchoiceUpdate, safeAttributes, eng>>

(* The step takes the new origin and finalizes what it can. *)
TakesOrigin ==
    /\ StepsOn /\ safeAttributes = NoAttributes
    /\ OriginConsistent
    /\ origin' = prevOrigin
    /\ finalityData' = TrackedFinality
    /\ IF FinalizesPast
       THEN OnFinalizingChain /\ TryFinalizeL2(TrackedFinality, finalizedL1, prevOrigin)
       ELSE UNCHANGED <<triedFinalizeAt, needForkchoiceUpdate, finalized>>
    /\ UNCHANGED <<safeHead, pendingSafeHead, unsafeHead, engineSyncTarget, finalizedL1, l1,
                   resetSafe, building, eng>>

(* NextAttributes has a batch for a block on top of the pending safe head, *)
(* from L1 data up to the origin.                                          *)
DeriveAttributes ==
    /\ TakesOrigin
    /\ \E b \in Blocks, last \in BOOLEAN :
          /\ b # Genesis /\ Parent[b] = pendingSafeHead /\ OnL1Chain(Included[b], prevOrigin)
          /\ safeAttributes' = [block |-> b, parent |-> pendingSafeHead, last |-> last]
    /\ UNCHANGED <<prevOrigin, mode>>

(* NextAttributes has nothing yet: the pipeline advances to the next L1    *)
(* block, if there is one, and is reset if that does not extend this one.  *)
DeriveEOF ==
    /\ TakesOrigin
    /\ \/ /\ prevOrigin.num = l1Head
          /\ UNCHANGED <<prevOrigin, mode>>
       \/ /\ prevOrigin.num < l1Head
          /\ IF OnL1Chain(prevOrigin, L1At(prevOrigin.num + 1))
             THEN prevOrigin' = L1At(prevOrigin.num + 1) /\ UNCHANGED mode
             ELSE mode' = "reset" /\ UNCHANGED prevOrigin
    /\ UNCHANGED safeAttributes

-----------------------------------------------------------------------------
(* Other calls of the driver                                               *)

AddUnsafePayload(p) ==
    /\ mode # "stopped"
    /\ PQ!Push(p)
    /\ UNCHANGED <<heads, finality, l1, derivation, building, needForkchoiceUpdate,
                   safeAttributes, mode, eng>>

(* The sequencer starts a block on the unsafe head, unless a job is        *)
(* running, and asks for a reset if the L1 chain has left that head.       *)
SequencerStart ==
    /\ mode = "run" /\ building = NoJob /\ ~isEngineSyncing
    /\ IF Canonical(L1Origin[unsafeHead])
       THEN /\ FcuValid(unsafeHead, safeHead, finalized)
            /\ eng' = Fcu(unsafeHead, safeHead, finalized)
            /\ \/ building' = [onto |-> unsafeHead, safe |-> FALSE]
               \/ LostReplies /\ UNCHANGED building
            /\ UNCHANGED mode
       ELSE mode' = "reset" /\ UNCHANGED <<building, eng>>
    /\ UNCHANGED <<heads, finality, payloads, l1, derivation, needForkchoiceUpdate, safeAttributes>>

(* The sequencer seals its block; on any error it gives the job up. *)
SequencerConfirm ==
    /\ mode = "run" /\ building # NoJob /\ ~building.safe
    /\ building' = NoJob
    /\ \/ \E b \in Blocks :
             /\ b # Genesis /\ Parent[b] = building.onto /\ Canonical(L1Origin[b])
             /\ FcuValid(b, safeHead, finalized)
             /\ eng' = Fcu(b, safeHead, finalized)
             /\ \/ unsafeHead' = b /\ engineSyncTarget' = b
                \/ LostReplies /\ UNCHANGED <<unsafeHead, engineSyncTarget>>
       \/ UNCHANGED <<unsafeHead, engineSyncTarget, eng>>
    /\ UNCHANGED <<finalized, safeHead, pendingSafeHead, finality, payloads, l1, derivation,
                   needForkchoiceUpdate, safeAttributes, mode>>

-----------------------------------------------------------------------------

Init ==
    /\ finalized = NoBlock /\ safeHead = NoBlock /\ pendingSafeHead = NoBlock
    /\ unsafeHead = NoBlock /\ engineSyncTarget = NoBlock /\ resetSafe = NoBlock
    /\ building = NoJob /\ needForkchoiceUpdate = FALSE /\ safeAttributes = NoAttributes
    /\ finalizedL1 = NoL1 /\ triedFinalizeAt = NoL1 /\ finalityData = <<>>
    /\ origin = NoL1 /\ prevOrigin = NoL1
    /\ PQ!Init
    /\ mode = "reset"
    /\ eng = [head |-> Genesis, safe |-> Genesis, finalized |-> Genesis]
    /\ l1Head = L1Origin[Genesis].num /\ l1Fork = 0 /\ l1Final = 0

Step ==
    \/ TryUpdateEngine
    \/ \E p \in Blocks : DropUnsafePayload(p) \/ ApplyUnsafePayload(p)
    \/ Consolidate \/ ConsolidateMissing \/ CorrectUnsafeHead
    \/ ForceInserted \/ ForceInterrupted \/ ForceRejected \/ ForcePrestateError
    \/ DeriveReset \/ DeriveAttributes \/ DeriveEOF

Next ==
    \/ Step
    \/ Reset \/ RequestReset \/ Restart
    \/ \E p \in Gossip : AddUnsafePayload(p)
    \/ \E n \in 0..MaxL1 : Finalize(n)
    \/ SequencerStart \/ SequencerConfirm
    \/ L1Advance \/ L1Reorg

Spec == Init /\ [][Next]_vars

-----------------------------------------------------------------------------
(* Properties                                                              *)

Running == mode = "run"

(* The finalized head is an ancestor of the safe head and that of the      *)
(* pending safe head, through reorgs, rejected spans, resets and whatever  *)
(* the sequencer builds in between.                                        *)
HeadsOrdered ==
    Running => finalized \in Chain[safeHead] /\ safeHead \in Chain[pendingSafeHead]

(* Queued attributes always build on the pending safe head: no step of the *)
(* sequencer, of a reset or of another payload moves it under them.        *)
AttributesOnPendingSafe ==
    Running /\ safeAttributes # NoAttributes => safeAttributes.parent = pendingSafeHead

(* Once the forkchoice is settled the safe head is on the unsafe chain,    *)
(* whatever chain the engine was left on by a block that was rejected or   *)
(* interrupted half way: an update that fails resets the pipeline.         *)
SettledSafeOnUnsafeChain ==
    Running /\ ~needForkchoiceUpdate => safeHead \in Chain[unsafeHead]

(* An L2 block that was derived since the last reset and is finalized has  *)
(* its batch, complete, in finalized L1 blocks of the canonical chain.     *)
FinalizedReproducible ==
    Running /\ finalized \notin Chain[resetSafe] =>
        OnL1Chain(Included[finalized], finalizedL1) /\ Canonical(finalizedL1)

(* The safe head that a reset goes back to is finalized, or the sequencing *)
(* window of the epoch after it has closed within the L1 chain: no batch   *)
(* that is still to be included can change it.                             *)
ResetSafeComplete ==
    Running => \/ resetSafe \in Chain[eng.finalized]
               \/ L1Origin[resetSafe].num + 1 + SeqWindowSize < l1Head

(* Between resets the finalized and the safe head only move to descendants *)
(* of themselves.                                                          *)
HeadsOnlyAdvance ==
    [][Running /\ mode' = "run" =>
          finalized \in Chain[finalized'] /\ safeHead \in Chain[safeHead']]_vars

(* The engine is never told to finalize anything but a descendant of what  *)
(* it has finalized, over resets, restarts of the node and lost replies.   *)
EngineFinalizedOnlyAdvances == [][eng.finalized \in Chain[eng.finalized']]_vars
=============================================================================
