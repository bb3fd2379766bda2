--------------------------- MODULE ChannelManager ---------------------------
(***************************************************************************)
(* The channel manager of bl-batcher (batcher/channel_manager.go, with     *)
(* channel.go and channel_builder.go): it turns L2 blocks into channels,   *)
(* channels into frames, hands out one frame per L1 transaction and reacts *)
(* to the fate of these transactions.                                      *)
(*                                                                         *)
(* Every public method takes the mutex, so each is one step; they are      *)
(* called by the load and receipt goroutine and by the publish goroutine   *)
(* of the driver, in any interleaving.  Compression is abstract: how many  *)
(* blocks fill a channel and how many frames it gives is arbitrary.        *)
(***************************************************************************)
EXTENDS Integers, Sequences, FiniteSets, Functions, SequencesExt

CONSTANTS
    Blocks,              \* L2 blocks
    Parent,              \* Parent[b]: the parent of block b
    Epoch,               \* Epoch[b]: L1 origin number of block b
    NoBlock,             \* the zero hash, and the parent of the first block
    ChannelTimeout,      \* cfg.ChannelTimeout
    SubSafetyMargin,     \* cfg.SubSafetyMargin
    SeqWindowSize,       \* cfg.SeqWindowSize
    MaxChannelDuration,  \* cfg.MaxChannelDuration, 0 for none
    ChannelIDs,          \* random ids of the channels opened between two Clears
    NoChannel,           \* nil
    MaxFrames,           \* bound on the frames of one channel
    MaxL1Head            \* bound on the L1 head

ASSUME ChannelManagerAssumption ==
    /\ NoBlock \notin Blocks
    /\ Parent \in [Blocks -> Blocks \cup {NoBlock}]
    /\ Epoch \in [Blocks -> Nat]
    /\ ChannelTimeout \in Nat /\ SubSafetyMargin \in 0..ChannelTimeout
    /\ SeqWindowSize \in Nat /\ SubSafetyMargin <= SeqWindowSize
    /\ MaxChannelDuration \in Nat
    /\ NoChannel \notin ChannelIDs
    /\ MaxFrames \in Nat \ {0} /\ MaxL1Head \in Nat

VARIABLES
    blocks,          \* blocks not yet in a channel
    tip,             \* the last block added, NoBlock after Clear
    channels,        \* the channel objects, by id
    channelQueue,    \* channels with data still to be confirmed
    currentChannel,  \* the channel that takes blocks, or nil
    txChannels,      \* the transactions (channel, frame) whose channel is known
    closed,
    l1Head,          \* environment: the L1 head
    inflight,        \* environment: transactions sent -> L1 head when sent
    loaded           \* history: the blocks added since the last Clear

managerVars == <<blocks, tip, channels, channelQueue, currentChannel, txChannels, closed>>
vars == <<managerVars, l1Head, inflight, loaded>>

EmptyFun == [x \in {} |-> 0]

-----------------------------------------------------------------------------
(* channel and channelBuilder                                              *)

NewChannel ==
    [blocks |-> <<>>, full |-> FALSE, timeout |-> 0, frames |-> <<>>,
     numFrames |-> 0, pending |-> {}, confirmed |-> EmptyFun]

(* updateTimeout: the earliest timeout counts, 0 is "not set". *)
Earlier(timeout, new) == IF timeout = 0 \/ timeout > new THEN new ELSE timeout

(* updateSwTimeout for each of bs. *)
BlocksTimeout(timeout, bs) ==
    FoldLeft(LAMBDA t, b : Earlier(t, Epoch[b] + SeqWindowSize - SubSafetyMargin), timeout, bs)

(* AddBlock for each of bs; full says whether the last one filled the channel. *)
AddBlocks(ch, bs, full) ==
    [ch EXCEPT !.blocks = @ \o bs, !.timeout = BlocksTimeout(@, bs), !.full = full]

RegisterL1Block(ch, n) ==
    LET timeout == IF MaxChannelDuration = 0 THEN ch.timeout
                   ELSE Earlier(ch.timeout, n + MaxChannelDuration)
    IN  [ch EXCEPT !.timeout = timeout,
                   !.full = @ \/ (timeout # 0 /\ n >= timeout)]

(* Mutant of FrameCounts: a full channel may be left without a last frame. *)
FrameCountsAny(ch) == 0..(MaxFrames - ch.numFrames)

(* How many frames OutputFrames can add: what is ready, and for a full     *)
(* channel all that is left, at least the closing frame.                   *)
FrameCounts(ch) ==
    IF ch.full THEN 1..(MaxFrames - ch.numFrames) ELSE 0..(MaxFrames - 1 - ch.numFrames)

OutputFrames(ch, k) ==
    [ch EXCEPT !.frames = @ \o [i \in 1..k |-> ch.numFrames + i - 1],
               !.numFrames = @ + k]

HasFrame(ch) == ch.frames # <<>>

NextTxData(ch) ==
    [ch EXCEPT !.frames = Tail(@), !.pending = @ \cup {Head(ch.frames)}]

(* Mutant of FailFrame: the frame is not put back. *)
FailFrameDrops(ch, f) == [ch EXCEPT !.pending = @ \ {f}]

FailFrame(ch, f) ==
    [ch EXCEPT !.frames = Append(@, f), !.pending = @ \ {f}]

ConfirmFrame(ch, f, n) ==
    [ch EXCEPT !.pending = @ \ {f},
               !.confirmed = [g \in DOMAIN @ \cup {f} |-> IF g = f THEN n ELSE @[g]],
               !.timeout = Earlier(@, n + ChannelTimeout - SubSafetyMargin)]

IsTimedOut(ch) ==
    \E f, g \in DOMAIN ch.confirmed : ch.confirmed[f] - ch.confirmed[g] >= ChannelTimeout

IsFullySubmitted(ch) == ch.full /\ ch.pending = {} /\ ch.frames = <<>>

NoneSubmitted(ch) == ch.pending = {} /\ DOMAIN ch.confirmed = {}

-----------------------------------------------------------------------------
(* channelManager                                                          *)

RemovePendingChannel(c) ==
    /\ currentChannel' = IF currentChannel = c THEN NoChannel ELSE currentChannel
    /\ \/ c \notin Range(channelQueue) /\ UNCHANGED channelQueue
       \/ \E i \in DOMAIN channelQueue :
             channelQueue[i] = c /\ channelQueue' = RemoveAt(channelQueue, i)

(* AddL2Block; a block that does not extend tip is refused with ErrReorg.  *)
Extends(b) == tip = NoBlock \/ tip = Parent[b]

AddL2Block(b) ==
    /\ Extends(b)
    /\ blocks' = Append(blocks, b)
    /\ tip' = b
    /\ loaded' = loaded \cup {b}
    /\ UNCHANGED <<channels, channelQueue, currentChannel, txChannels, closed,
                   l1Head, inflight>>

WithFrame == {i \in DOMAIN channelQueue : HasFrame(channels[channelQueue[i]])}

(* The frame at the head of channel c of chs goes into a transaction. *)
Send(chs, c) ==
    LET tx == <<c, Head(chs[c].frames)>>
    IN  /\ channels' = [chs EXCEPT ![c] = NextTxData(@)]
        /\ txChannels' = txChannels \cup {tx}
        /\ inflight' = [t \in DOMAIN inflight \cup {tx} |->
                            IF t = tx THEN l1Head ELSE inflight[t]]

(* TxData with a frame at hand: the first channel of the queue that has    *)
(* one gives its next frame.                                               *)
TxDataPending ==
    /\ \E i \in WithFrame :
         /\ \A j \in WithFrame : i <= j
         /\ Send(channels, channelQueue[i])
    /\ UNCHANGED <<blocks, tip, channelQueue, currentChannel, closed, l1Head, loaded>>

(* Mutant of NeedsChannel: a full channel is used again. *)
NeedsChannelIfNone == currentChannel = NoChannel

NeedsChannel == currentChannel = NoChannel \/ channels[currentChannel].full

With(c, ch) == [d \in DOMAIN channels \cup {c} |-> IF d = c THEN ch ELSE channels[d]]

(* The blocks left when n of them went into a channel. *)
Taken(n) == SubSeq(blocks, n + 1, Len(blocks))

(* TxData without a frame at hand is io.EOF, and nothing changes, if the   *)
(* manager is closed or has no block.  Else it builds:                     *)
(* ensureChannelWithSpace, processBlocks, registerL1Block, outputFrames,   *)
(* then the first frame if there is one.                                   *)
(* An empty channel always takes a block; one that is not filled takes all.*)
TxDataBuild ==
    /\ WithFrame = {} /\ ~closed /\ blocks # <<>>
    /\ \E c \in IF NeedsChannel THEN ChannelIDs \ DOMAIN channels ELSE {currentChannel},
          n \in 0..Len(blocks), fills \in BOOLEAN :
         LET old == IF NeedsChannel THEN NewChannel ELSE channels[c]
             new == RegisterL1Block(AddBlocks(old, SubSeq(blocks, 1, n), fills), l1Head)
         IN  /\ ~fills => n = Len(blocks)
             /\ old.blocks = <<>> => n > 0
             /\ \E k \in FrameCounts(new) :
                  LET chs == With(c, OutputFrames(new, k))
                  IN  IF k > 0 THEN Send(chs, c)
                      ELSE channels' = chs /\ UNCHANGED <<txChannels, inflight>>
             /\ blocks' = Taken(n)
             /\ currentChannel' = c
             /\ channelQueue' = IF NeedsChannel THEN Append(channelQueue, c) ELSE channelQueue
    /\ UNCHANGED <<tip, closed, l1Head, loaded>>

(* TxFailed: the frame goes back to its channel, and once the manager is   *)
(* closed a channel with nothing on L1 is dropped.                         *)
TxFailed(tx) ==
    LET c == tx[1]
        f == tx[2]
    IN  /\ tx \in DOMAIN inflight
        /\ inflight' = Restrict(inflight, DOMAIN inflight \ {tx})
        /\ IF tx \in txChannels
           THEN /\ txChannels' = txChannels \ {tx}
                /\ channels' = [channels EXCEPT ![c] = IF f \in @.pending THEN FailFrame(@, f) ELSE @]
                /\ IF closed /\ NoneSubmitted(channels'[c])
                   THEN RemovePendingChannel(c)
                   ELSE UNCHANGED <<channelQueue, currentChannel>>
           ELSE UNCHANGED <<txChannels, channels, channelQueue, currentChannel>>
        /\ UNCHANGED <<blocks, tip, closed, l1Head, loaded>>

(* Mutant of Requeued: the blocks of a timed-out channel are forgotten. *)
RequeuedNever(ch) == blocks

(* The pending blocks once the blocks of a timed-out channel are back. *)
Requeued(ch) == ch.blocks \o blocks

(* TxConfirmed, with the L1 block that includes the transaction: a channel *)
(* that timed out gives its blocks back, one fully submitted is done.      *)
TxConfirmed(tx, n) ==
    LET c == tx[1]
        f == tx[2]
        ch == ConfirmFrame(channels[c], f, n)
        known == tx \in txChannels /\ f \in channels[c].pending
    IN  /\ tx \in DOMAIN inflight
        /\ inflight' = Restrict(inflight, DOMAIN inflight \ {tx})
        /\ txChannels' = txChannels \ {tx}
        /\ IF known
           THEN /\ channels' = [channels EXCEPT ![c] = ch]
                /\ blocks' = IF IsTimedOut(ch) THEN Requeued(ch) ELSE blocks
                /\ IF IsTimedOut(ch) \/ IsFullySubmitted(ch)
                   THEN RemovePendingChannel(c)
                   ELSE UNCHANGED <<channelQueue, currentChannel>>
           ELSE UNCHANGED <<channels, blocks, channelQueue, currentChannel>>
        /\ UNCHANGED <<tip, closed, l1Head, loaded>>

(* The loop of Close ranges over the slice channelQueue as it was at the   *)
(* start, while removePendingChannel shifts the elements of the same array *)
(* to the left: the channel after one that is removed is passed over,      *)
(* except the last, which the end of the array still holds.                *)
CloseScan(drop) ==
    \A i \in DOMAIN channelQueue :
        i \in drop <=> /\ NoneSubmitted(channels[channelQueue[i]])
                       /\ i - 1 \notin drop \/ i = Len(channelQueue)

(* Close: channels with nothing on L1 are dropped, the current channel is  *)
(* ended and its last frames put out; closing a full one again fails.      *)
Close ==
    /\ ~closed
    /\ closed' = TRUE
    /\ \E drop \in SUBSET DOMAIN channelQueue :
          /\ CloseScan(drop)
          /\ \E at \in [1..(Len(channelQueue) - Cardinality(drop)) -> DOMAIN channelQueue \ drop] :
                /\ \A i, j \in DOMAIN at : i < j => at[i] < at[j]
                /\ channelQueue' = [i \in DOMAIN at |-> channelQueue[at[i]]]
    /\ currentChannel' = IF currentChannel \in Range(channelQueue') THEN currentChannel ELSE NoChannel
    /\ IF currentChannel' # NoChannel /\ ~channels[currentChannel].full
       THEN LET ch == [channels[currentChannel] EXCEPT !.full = TRUE]
            IN  \E k \in FrameCounts(ch) :
                  channels' = [channels EXCEPT ![currentChannel] = OutputFrames(ch, k)]
       ELSE UNCHANGED channels
    /\ UNCHANGED <<blocks, tip, txChannels, l1Head, inflight, loaded>>

(* Clear, called when the driver has drained a closed manager.  The        *)
(* channel objects become unreachable.                                     *)
Clear ==
    /\ closed /\ inflight = EmptyFun
    /\ blocks' = <<>> /\ tip' = NoBlock
    /\ channels' = EmptyFun /\ channelQueue' = <<>> /\ currentChannel' = NoChannel
    /\ txChannels' = {} /\ closed' = FALSE /\ loaded' = {}
    /\ UNCHANGED <<l1Head, inflight>>

(* Environment: a new L1 block. *)
NewL1Head ==
    /\ l1Head < MaxL1Head
    /\ l1Head' = l1Head + 1
    /\ UNCHANGED <<managerVars, inflight, loaded>>

Init ==
    /\ blocks = <<>> /\ tip = NoBlock
    /\ channels = EmptyFun /\ channelQueue = <<>> /\ currentChannel = NoChannel
    /\ txChannels = {} /\ closed = FALSE
    /\ l1Head = 1 /\ inflight = EmptyFun /\ loaded = {}

(* The driver adds no block between Close and Clear; a transaction is      *)
(* included after the L1 head at which it was sent.                        *)
Next ==
    \/ \E b \in Blocks : ~closed /\ AddL2Block(b)
    \/ TxDataPending
    \/ TxDataBuild
    \/ \E tx \in DOMAIN inflight : TxFailed(tx)
    \/ \E tx \in DOMAIN inflight : \E n \in (inflight[tx] + 1)..l1Head : TxConfirmed(tx, n)
    \/ Close
    \/ Clear
    \/ NewL1Head

Spec == Init /\ [][Next]_vars

-----------------------------------------------------------------------------
(* Properties                                                              *)

(* Every frame a channel ever put out is in exactly one place: waiting in  *)
(* its queue, in a transaction whose fate is open, or confirmed on L1; it  *)
(* is never lost nor sent twice at once, however transactions fail.        *)
FrameConservation ==
    \A c \in DOMAIN channels :
        LET ch == channels[c] IN
        /\ IsInjective(ch.frames)
        /\ Range(ch.frames) \cap ch.pending = {}
        /\ (Range(ch.frames) \cup ch.pending) \cap DOMAIN ch.confirmed = {}
        /\ Range(ch.frames) \cup ch.pending \cup DOMAIN ch.confirmed = 0..(ch.numFrames - 1)

(* Removed from the queue with every frame on L1 inside the timeout. *)
Delivered(c) ==
    /\ c \notin Range(channelQueue)
    /\ IsFullySubmitted(channels[c])
    /\ ~IsTimedOut(channels[c])

(* While the manager is open, no block that was loaded is lost: it waits,  *)
(* it is in a channel that is still being submitted, or in one whose       *)
(* frames are all on L1 in time.  A channel that timed out with frames     *)
(* missing, or was superseded by later channels, gives its blocks back.    *)
NoBlockLost ==
    ~closed =>
        \A b \in loaded :
            \/ b \in Range(blocks)
            \/ \E c \in DOMAIN channels :
                 /\ b \in Range(channels[c].blocks)
                 /\ c \in Range(channelQueue) \/ Delivered(c)

(* No queued channel is stuck: it is the open current channel, or it has a *)
(* frame to send or in flight whose confirmation can complete it.          *)
NoStuckChannel ==
    /\ currentChannel # NoChannel => currentChannel \in Range(channelQueue)
    /\ \A c \in Range(channelQueue) :
          \/ c = currentChannel /\ ~channels[c].full
          \/ channels[c].full /\ (HasFrame(channels[c]) \/ channels[c].pending # {})

(* A channel ends once: when it is full its last frame is out, and it      *)
(* takes no block and puts out no frame any more, until Clear.             *)
EndedOnce ==
    [][\A c \in DOMAIN channels \cap DOMAIN channels' :
          channels[c].full => /\ channels'[c].full
                              /\ channels'[c].blocks = channels[c].blocks
                              /\ channels'[c].numFrames = channels[c].numFrames]_vars
=============================================================================
