---------------------------- MODULE ChannelBank ----------------------------
(***************************************************************************)
(* The channel bank stage of the derivation pipeline of bl-node, with the  *)
(* frame queue that feeds it (derive/frame_queue.go, derive/channel.go,    *)
(* derive/channel_bank.go).                                                *)
(*                                                                         *)
(* The stage pulls frames out of L1 transactions, assembles them into      *)
(* channels whatever order they arrive in, hands a complete channel to the *)
(* channel reader, and drops channels that time out or that make the bank  *)
(* too large.  What the L1 transactions contain is arbitrary: any sequence *)
(* of frames may come next.                                                *)
(***************************************************************************)
EXTENDS Integers, Sequences, FiniteSets, Functions, SequencesExt, TLC

CONSTANTS
    ChannelIDs,          \* channel identifiers that appear in frames
    MaxFrameNumber,      \* bound on the frame number (uint16 in the code)
    FrameSizes,          \* sizes that frameSize can return, overhead included
    MaxTxFrames,         \* bound on the frames of one L1 transaction
    ChannelTimeout,      \* cfg.ChannelTimeout, in L1 blocks
    MaxChannelBankSize,  \* total size above which channels are pruned
    CanyonOrigin,        \* first L1 block at which Canyon is active
    MaxOrigin,           \* bound on the L1 block number
    NoChannel            \* marks NextData returning no channel

ASSUME ChannelBankAssumption ==
    /\ MaxFrameNumber \in Nat
    /\ FrameSizes \subseteq Nat \ {0}
    /\ MaxTxFrames \in Nat \ {0}
    /\ ChannelTimeout \in Nat
    /\ MaxChannelBankSize \in Nat
    /\ CanyonOrigin \in Nat
    /\ MaxOrigin \in Nat
    /\ NoChannel \notin ChannelIDs

FrameNumber == 0..MaxFrameNumber

(* A frame as parsed from an L1 transaction: its payload is only a size. *)
Frame == [id : ChannelIDs, num : FrameNumber, last : BOOLEAN, size : FrameSizes]

VARIABLES
    origin,        \* number of the L1 block the stage is reading from
    frames,        \* FrameQueue.frames: parsed frames not yet ingested
    channels,      \* ChannelBank.channels: id -> channel
    channelQueue,  \* ChannelBank.channelQueue: ids in FIFO order
    data           \* what the last NextData returned: a channel read, or nothing

vars == <<origin, frames, channels, channelQueue, data>>

-----------------------------------------------------------------------------
(* Channel                                                                 *)

EmptyFun == [x \in {} |-> 0]

NoData == [id |-> NoChannel]

NewChannel ==
    [openBlock |-> origin, size |-> 0, closed |-> FALSE,
     highestFrameNumber |-> 0, endFrameNumber |-> 0, inputs |-> EmptyFun]

(* The sum of the sizes of the frames a channel holds. *)
InputsSize(inputs) == SumFunction([n \in DOMAIN inputs |-> inputs[n].size])

(* Mutant of AcceptsFrame: a frame seen before is taken again. *)
AcceptsDuplicate(ch, f) ==
    /\ ~(f.last /\ ch.closed)
    /\ ~(ch.closed /\ f.num >= ch.endFrameNumber)

(* The three checks of AddFrame, in the order the code makes them. *)
AcceptsFrame(ch, f) ==
    /\ ~(f.last /\ ch.closed)
    /\ f.num \notin DOMAIN ch.inputs
    /\ ~(ch.closed /\ f.num >= ch.endFrameNumber)

(* Mutant of AddFrame: frames above the closing one stay. *)
AddFrameUnpruned(ch, f) ==
    [openBlock |-> ch.openBlock,
     size |-> ch.size + f.size,
     closed |-> ch.closed \/ f.last,
     highestFrameNumber |-> IF f.num > ch.highestFrameNumber THEN f.num
                                                            ELSE ch.highestFrameNumber,
     endFrameNumber |-> IF f.last THEN f.num ELSE ch.endFrameNumber,
     inputs |-> [n \in DOMAIN ch.inputs \cup {f.num} |->
                    IF n = f.num THEN [size |-> f.size, at |-> origin] ELSE ch.inputs[n]]]

(* AddFrame for an accepted frame.  A closing frame below the highest frame *)
(* seen removes the frames at or above it; the code subtracts the size of   *)
(* every buffered frame while it scans them, of those it keeps as well.     *)
AddFrame(ch, f) ==
    LET prunes == f.last /\ f.num < ch.highestFrameNumber
        kept   == IF prunes THEN {n \in DOMAIN ch.inputs : n < f.num}
                            ELSE DOMAIN ch.inputs
        high   == IF prunes THEN f.num ELSE ch.highestFrameNumber
        size   == IF prunes THEN ch.size - InputsSize(ch.inputs) ELSE ch.size
    IN  [openBlock |-> ch.openBlock,
         size |-> size + f.size,
         closed |-> ch.closed \/ f.last,
         highestFrameNumber |-> IF f.num > high THEN f.num ELSE high,
         endFrameNumber |-> IF f.last THEN f.num ELSE ch.endFrameNumber,
         inputs |-> [n \in kept \cup {f.num} |->
                        IF n = f.num THEN [size |-> f.size, at |-> origin]
                                     ELSE ch.inputs[n]]]

IsReady(ch) == ch.closed /\ DOMAIN ch.inputs = 0..ch.endFrameNumber

TimedOut(ch) == ch.openBlock + ChannelTimeout < origin

-----------------------------------------------------------------------------
(* ChannelBank                                                             *)

TotalSize(chs, ids) == SumFunction([id \in ids |-> chs[id].size])

Fits(chs, q) == TotalSize(chs, Range(q)) <= MaxChannelBankSize

(* Queue q without its k oldest entries. *)
Drop(q, k) == SubSeq(q, k + 1, Len(q))

(* prune pops the head of the queue until the rest fits: k channels go. *)
PrunesTo(chs, q, k) ==
    /\ Fits(chs, Drop(q, k))
    /\ \A j \in 0..(k - 1) : ~Fits(chs, Drop(q, j))

ChannelFor(f) == IF f.id \in DOMAIN channels THEN channels[f.id] ELSE NewChannel

(* Mutant of QueueFor: new channels go to the front. *)
QueueForLifo(f) ==
    IF f.id \in DOMAIN channels THEN channelQueue ELSE <<f.id>> \o channelQueue

QueueFor(f) ==
    IF f.id \in DOMAIN channels THEN channelQueue ELSE Append(channelQueue, f.id)

WithChannel(id, ch) ==
    [i \in DOMAIN channels \cup {id} |-> IF i = id THEN ch ELSE channels[i]]

(* IngestFrame: open the channel if it is new, ignore the frame if the     *)
(* channel is timed out or refuses it, else add it and prune.              *)
IngestFrame(f) ==
    LET ch    == ChannelFor(f)
        queue == QueueFor(f)
        added == WithChannel(f.id, AddFrame(ch, f))
    IN  \/ /\ TimedOut(ch) \/ ~AcceptsFrame(ch, f)
           /\ channels' = WithChannel(f.id, ch)
           /\ channelQueue' = queue
        \/ /\ ~TimedOut(ch) /\ AcceptsFrame(ch, f)
           /\ \E k \in 0..Len(queue) :
                /\ PrunesTo(added, queue, k)
                /\ channelQueue' = Drop(queue, k)
                /\ channels' = Restrict(added, Range(Drop(queue, k)))

(* tryReadChannelAtIndex succeeds at i. *)
ReadableAt(i) == ~TimedOut(channels[channelQueue[i]]) /\ IsReady(channels[channelQueue[i]])

HeadTimedOut == channelQueue # <<>> /\ TimedOut(channels[Head(channelQueue)])

(* Mutant of ReadScope: only the head, as before Canyon. *)
ReadScopeHead == 1..1

(* The positions Read looks at: the head before Canyon, then the queue.    *)
ReadScope == IF origin < CanyonOrigin THEN 1..1 ELSE 1..Len(channelQueue)

Readable == {i \in ReadScope \cap DOMAIN channelQueue : ReadableAt(i)}

(* Read returns io.EOF, so that NextData goes on to load a frame. *)
NothingToRead == ~HeadTimedOut /\ Readable = {}

(* Mutant of Forget: the map entry is not deleted. *)
ForgetQueueOnly(i) ==
    /\ channelQueue' = RemoveAt(channelQueue, i)
    /\ UNCHANGED channels

Forget(i) ==
    /\ channelQueue' = RemoveAt(channelQueue, i)
    /\ channels' = Restrict(channels, DOMAIN channels \ {channelQueue[i]})

(* Read on a timed-out head: it is removed and nil data is returned. *)
ReadTimedOut ==
    /\ HeadTimedOut
    /\ Forget(1)
    /\ data' = NoData
    /\ UNCHANGED <<origin, frames>>

(* Read on the first readable channel: its data goes to the reader. *)
ReadChannel ==
    /\ ~HeadTimedOut
    /\ \E i \in Readable :
         /\ \A j \in Readable : i <= j
         /\ Forget(i)
         /\ data' = [id |-> channelQueue[i], ch |-> channels[channelQueue[i]],
                     at |-> origin]
    /\ UNCHANGED <<origin, frames>>

(* NextData with nothing to read: the next frame buffered by FrameQueue. *)
NextFrame ==
    /\ NothingToRead
    /\ frames # <<>>
    /\ IngestFrame(Head(frames))
    /\ frames' = Tail(frames)
    /\ data' = NoData
    /\ UNCHANGED origin

(* ... or, with the frame queue empty, the first frame of the next L1      *)
(* transaction that parses, the others being buffered; a transaction that  *)
(* does not parse changes nothing.                                         *)
NextTransaction ==
    /\ NothingToRead
    /\ frames = <<>>
    /\ \E f \in Frame : IngestFrame(f)
    /\ \E k \in 0..(MaxTxFrames - 1) : frames' \in [1..k -> Frame]
    /\ data' = NoData
    /\ UNCHANGED origin

(* Every stage returned io.EOF: L1Traversal moves to the next L1 block. *)
AdvanceL1Block ==
    /\ NothingToRead
    /\ frames = <<>>
    /\ origin < MaxOrigin
    /\ origin' = origin + 1
    /\ data' = NoData
    /\ UNCHANGED <<frames, channels, channelQueue>>

(* Pipeline reset: traversal goes to the base chosen by the engine queue,  *)
(* the frame queue and the bank are emptied.                               *)
Reset ==
    /\ \E base \in 0..origin : origin' = base
    /\ frames' = <<>>
    /\ channels' = EmptyFun
    /\ channelQueue' = <<>>
    /\ data' = NoData

Init ==
    /\ origin = 0
    /\ frames = <<>>
    /\ channels = EmptyFun
    /\ channelQueue = <<>>
    /\ data = NoData

Next ==
    \/ ReadTimedOut
    \/ ReadChannel
    \/ NextFrame
    \/ NextTransaction
    \/ AdvanceL1Block
    \/ Reset

Spec == Init /\ [][Next]_vars

-----------------------------------------------------------------------------
(* Properties                                                              *)

Buffered == [size : FrameSizes, at : 0..MaxOrigin]

(* inputs : FrameNumber -> Buffered, partial *)
IsChannel(ch) ==
    /\ ch.openBlock \in 0..MaxOrigin
    /\ ch.closed \in BOOLEAN
    /\ ch.highestFrameNumber \in FrameNumber
    /\ ch.endFrameNumber \in FrameNumber
    /\ DOMAIN ch.inputs \subseteq FrameNumber
    /\ ch.inputs \in [DOMAIN ch.inputs -> Buffered]

(* Type invariant of the frame queue and the channel bank. *)
TypeOK ==
    /\ origin \in 0..MaxOrigin
    /\ frames \in Seq(Frame)
    /\ DOMAIN channels \subseteq ChannelIDs
    /\ \A id \in DOMAIN channels : IsChannel(channels[id])
    /\ channelQueue \in Seq(ChannelIDs)
    /\ data.id # NoChannel =>
         data.id \in ChannelIDs /\ IsChannel(data.ch) /\ data.at \in 0..MaxOrigin

(* The map and the FIFO queue of ChannelBank hold the same channels, each  *)
(* once, whatever mix of opening, reading, timing out and pruning: prune   *)
(* and Read index the map with queue entries and would dereference nil.    *)
BankConsistent ==
    /\ IsInjective(channelQueue)
    /\ Range(channelQueue) = DOMAIN channels

(* Read removes only a timed-out head, so a timed-out channel must never   *)
(* hide behind a live one: when Read finds nothing and a frame is about to *)
(* be ingested, no channel of the bank is timed out, and IngestFrame never *)
(* drops a frame because an expired channel still holds its id.            *)
NoExpiredBehindHead ==
    NothingToRead => \A id \in DOMAIN channels : ~TimedOut(channels[id])

(* The size of a channel (a uint64) never goes below zero, though AddFrame *)
(* subtracts in its prune scan the sizes of frames it keeps: until the     *)
(* closing frame arrives the size is exact, and only one can arrive.       *)
SizeAccounting ==
    \A id \in DOMAIN channels :
        LET ch == channels[id] IN
        /\ ch.size >= 0
        /\ ~ch.closed => ch.size = InputsSize(ch.inputs)

WellPruned(ch) ==
    /\ ch.closed => /\ ch.endFrameNumber \in DOMAIN ch.inputs
                    /\ ch.highestFrameNumber = ch.endFrameNumber
    /\ \A n \in DOMAIN ch.inputs : n <= ch.highestFrameNumber
    /\ IF DOMAIN ch.inputs = {} THEN ch.highestFrameNumber = 0
                               ELSE ch.highestFrameNumber \in DOMAIN ch.inputs

(* A closed channel holds its closing frame and nothing above it, whatever *)
(* arrived before the closing frame (channel.go:32, "No other frame number *)
(* must be larger than this"); highestFrameNumber is the highest buffered. *)
(* Otherwise the frames of a channel could all be there and yet it would   *)
(* never be ready: IsReady counts them against the end.                    *)
ClosedPruned == \A id \in DOMAIN channels : WellPruned(channels[id])

Window(ch) == ch.openBlock .. ch.openBlock + ChannelTimeout

InWindow(ch) == \A n \in DOMAIN ch.inputs : ch.inputs[n].at \in Window(ch)

(* What the channel reader gets is a whole channel: every frame from 0 to  *)
(* the closing one and no other, each from an L1 block of the ChannelTimeout*)
(* window that starts at the block that opened the channel, and it is read *)
(* inside that window too.                                                 *)
ReadComplete ==
    data.id # NoChannel =>
        /\ DOMAIN data.ch.inputs = 0..data.ch.endFrameNumber
        /\ InWindow(data.ch)
        /\ data.at \in Window(data.ch)

(* From Canyon on, no ready channel is left waiting when the pipeline      *)
(* moves to the next L1 block, wherever it is in the queue.                *)
NoReadyLeftBehind ==
    [][origin' > origin /\ origin >= CanyonOrigin =>
          \A id \in DOMAIN channels : ~IsReady(channels[id])]_vars
=============================================================================
