----------------------------- MODULE BatchQueue -----------------------------
(***************************************************************************)
(* From channels to L2 blocks: the channel-in reader, the batch queue and  *)
(* the attributes queue of the derivation pipeline                         *)
(* (bl-node/rollup/derive/channel_in_reader.go, batch_queue.go,            *)
(* batches.go, attributes_queue.go), pulled by the engine queue one step   *)
(* at a time.                                                              *)
(*                                                                         *)
(* An L2 block is what derivation decides about it: its L1 origin (the     *)
(* epoch) and its transactions.  The L2 chain is the sequence of blocks    *)
(* after genesis; block n has time n * BlockTime and genesis has epoch 0.  *)
(* The hash of a block stands for all its ancestors, so it is the prefix   *)
(* of the chain that ends in the block.  L1 has no forks here (EngineQueue *)
(* models those), so an L1 block is its number.                            *)
(***************************************************************************)
EXTENDS Naturals, Sequences, FiniteSets, SequencesExt, FiniteSetsExt

CONSTANTS
    Batches,            \* the batches that may be posted to L1
    Channels,           \* the channels that may become ready: sequences of
                        \* batches and Garbage, or Garbage altogether
    Garbage,            \* data the reader cannot decode
    L1Time,             \* the timestamp of each L1 block, 0..MaxL1
    MaxL1,              \* bound: the last L1 block
    MaxChannels,        \* bound: channels posted in all
    MaxResets,          \* bound: resets of the pipeline from outside
    BlockTime,
    SeqWindowSize,
    MaxSequencerDrift,
    ChannelTimeout,
    SpanBatchTime,      \* timestamp at which span batches activate
    None                \* no channel being read, no attributes in hand

ASSUME ParameterAssumption ==
    /\ {MaxL1, MaxChannels, MaxResets, MaxSequencerDrift, SpanBatchTime} \subseteq Nat
    /\ {BlockTime, SeqWindowSize, ChannelTimeout} \subseteq Nat \ {0}
    /\ L1Time \in [0..MaxL1 -> Nat]
    /\ \A i, j \in 0..MaxL1 : i < j => L1Time[i] < L1Time[j]
    /\ L1Time[0] = 0

\* Transactions of a block: none, valid ones, one the engine rejects, or one
\* that no batch may hold (empty, or a deposit).
Txs == {"none", "ok", "bad", "forbidden"}

Blocks == [epoch : 0..MaxL1, txs : Txs]

(***************************************************************************)
(* A batch has a type, the time of its first block, the hash of that       *)
(* block's parent, its blocks (one, for a singular batch) and whether the  *)
(* L1 origin hash it carries is that of the canonical L1 block with the    *)
(* number of its last epoch.                                               *)
(***************************************************************************)
ASSUME BatchAssumption ==
    \A b \in Batches :
        /\ b.type \in {"singular", "span"}
        /\ b.time \in Nat /\ b.time >= BlockTime
        /\ b.blocks # <<>> /\ b.blocks \in Seq(Blocks)
        /\ b.parent \in Seq(Blocks)
        /\ b.originOk \in BOOLEAN
        /\ b.type = "singular" => Len(b.blocks) = 1
        /\ \A i \in 2..Len(b.blocks) :      \* the origin bits of a raw span batch
               b.blocks[i].epoch \in {b.blocks[i-1].epoch, b.blocks[i-1].epoch + 1}

ASSUME ChannelAssumption ==
    /\ Garbage \notin Batches
    /\ \A ch \in Channels : ch # None /\ (ch = Garbage \/ ch \in Seq(Batches \cup {Garbage}))

ASSUME NoneAssumption == None \notin [block : Blocks, last : BOOLEAN]

VARIABLES
    l1,             \* l1[n]: the channels that become ready at L1 block n
    l1Origin,       \* the L1 block the pipeline's traversal is at
    unread,         \* its channels that are not read yet
    reader,         \* the rest of the channel being read, or None
    bqOrigin,       \* the batch queue's own copy of the origin
    l1Blocks,       \* L1 blocks a next batch may have as origin, consecutive
    batches,        \* buffered batches, each with its inclusion block
    nextSpan,       \* blocks of an accepted span batch still to be applied
    attributes,     \* the block to build next, or None
    chain,          \* the L2 chain up to the pending safe head
    safe,           \* number of the safe head
    resetting,      \* the pipeline is to be reset before it steps again
    critical,       \* a critical error stopped the node
    ended,          \* number of the safe head when L1 block n was exhausted
    resets,         \* resets so far
    derived,        \* the longest safe chain so far (history)
    cut             \* a reset put the safe head inside a batch (history)

reading == <<l1Origin, unread, reader>>
queue == <<bqOrigin, l1Blocks, batches, nextSpan>>
history == <<derived, cut>>
vars == <<l1, reading, queue, attributes, chain, safe, resetting, critical,
          ended, resets, history>>

L1Head == Cardinality(DOMAIN l1) - 1
Time(n) == n * BlockTime
Epoch(c) == IF c = <<>> THEN 0 ELSE Last(c).epoch
EndEpoch(b) == Last(b.blocks).epoch
StartEpoch(b) == b.blocks[1].epoch
BlockTimestamp(b, i) == b.time + (i - 1) * BlockTime
IsSpanBatch(t) == t >= SpanBatchTime

Init ==
    /\ l1 = [n \in {0} |-> <<>>]
    /\ l1Origin = 0 /\ unread = <<>> /\ reader = None
    /\ bqOrigin = 0 /\ l1Blocks = <<0>> /\ batches = <<>> /\ nextSpan = <<>>
    /\ attributes = None
    /\ chain = <<>> /\ safe = 0
    /\ resetting = FALSE /\ critical = FALSE
    /\ ended = [n \in {} |-> 0]
    /\ resets = 0
    /\ derived = <<>> /\ cut = FALSE

-----------------------------------------------------------------------------
(***************************************************************************)
(* Validity of a batch on the chain c, with the L1 blocks ls at hand, for  *)
(* a batch included in L1 block incl.                                      *)
(***************************************************************************)

\* Mutant: an empty block past the drift never waits for the next origin.
DriftForgiven(ls, k, originTime, time, txs, advanced) ==
    IF time <= originTime + MaxSequencerDrift \/ txs = "none" THEN "accept" ELSE "drop"

\* A block past the drift of its origin at index k of ls: with transactions
\* it is invalid, empty it is valid if it adopts a new origin or if the next
\* origin is still in the future.
DriftVerdict(ls, k, originTime, time, txs, advanced) ==
    IF time <= originTime + MaxSequencerDrift THEN "accept"
    ELSE IF txs # "none" THEN "drop"
    ELSE IF advanced THEN "accept"
    ELSE IF k + 1 > Len(ls) THEN "undecided"
    ELSE IF time >= L1Time[ls[k + 1]] THEN "drop"
    ELSE "accept"

CheckSingularBatch(ls, c, b, incl) ==
    LET epoch == b.blocks[1].epoch
        txs == b.blocks[1].txs
        next == Time(Len(c) + 1)
        drift == DriftVerdict(ls, 1, L1Time[epoch], b.time, txs, epoch # ls[1])
    IN  IF ls = <<>> THEN "undecided"
        ELSE IF b.time > next THEN "future"
        ELSE IF \/ b.time < next
                \/ b.parent # c
                \/ epoch + SeqWindowSize < incl
                \/ epoch < ls[1]
             THEN "drop"
        ELSE IF epoch = ls[1] + 1 /\ Len(ls) < 2 THEN "undecided"
        ELSE IF \/ epoch > ls[1] + 1
                \/ ~b.originOk
                \/ b.time < L1Time[epoch]
             THEN "drop"
        ELSE IF drift # "accept" THEN drift
        ELSE IF txs = "forbidden" THEN "drop"
        ELSE "accept"

\* Block i of a span batch.  A block whose epoch precedes ls is compared with
\* the zero L1 block.
CheckSpanBlock(ls, b, i, originAdvanced) ==
    LET blk == b.blocks[i]
        found == blk.epoch \in Range(ls)
        k == IF found THEN CHOOSE j \in DOMAIN ls : ls[j] = blk.epoch ELSE 1
        originTime == IF found THEN L1Time[blk.epoch] ELSE 0
        time == BlockTimestamp(b, i)
        advanced == IF i > 1 THEN blk.epoch > b.blocks[i-1].epoch ELSE originAdvanced
        drift == DriftVerdict(ls, k, originTime, time, blk.txs, advanced)
    IN  IF time < originTime THEN "drop"
        ELSE IF drift # "accept" THEN drift
        ELSE IF blk.txs = "forbidden" THEN "drop"
        ELSE "accept"

\* Mutant: a span batch may only start at the safe head.
OverlapRefused(c, b, parentNum) == FALSE

\* The blocks of a span batch that the chain already has are those it has.
OverlapMatches(c, b, parentNum) ==
    \A i \in 1..(Len(c) - parentNum) : c[parentNum + i] = b.blocks[i]

\* The first verdict that is not "accept" along the new blocks of the batch.
NewBlocksVerdict(ls, c, b, originAdvanced) ==
    LET Check(i) == CheckSpanBlock(ls, b, i, originAdvanced)
        new == {i \in DOMAIN b.blocks : BlockTimestamp(b, i) > Time(Len(c))}
        refused == {i \in new : Check(i) # "accept"}
    IN  IF refused = {} THEN "accept" ELSE Check(Min(refused))

CheckSpanBatch(ls, c, b, incl) ==
    LET start == StartEpoch(b)
        next == Time(Len(c) + 1)
        origin == IF start = ls[1] + 1 THEN ls[2] ELSE ls[1]
        overlap == b.time < next
        parentNum == IF overlap THEN Len(c) - ((Time(Len(c)) - b.time) \div BlockTime) - 1
                                ELSE Len(c)
        parent == SubSeq(c, 1, parentNum)
        new == NewBlocksVerdict(ls, c, b, start = Epoch(parent) + 1)
    IN  IF ls = <<>> \/ (start = ls[1] + 1 /\ Len(ls) < 2) THEN "undecided"
        ELSE IF ~IsSpanBatch(L1Time[origin]) THEN "drop"
        ELSE IF b.time > next THEN "future"
        ELSE IF \/ BlockTimestamp(b, Len(b.blocks)) < next
                \/ overlap /\ b.time > Time(Len(c))
                \/ overlap /\ (Time(Len(c)) - b.time) % BlockTime # 0
             THEN "drop"
        ELSE IF \/ b.parent # parent
                \/ start + SeqWindowSize < incl
                \/ start > Epoch(parent) + 1
                \/ EndEpoch(b) \in Range(ls) /\ ~b.originOk
             THEN "drop"
        ELSE IF EndEpoch(b) \notin Range(ls) THEN "undecided"
        ELSE IF start < Epoch(parent) THEN "drop"
        ELSE IF new # "accept" THEN new
        ELSE IF overlap /\ ~OverlapMatches(c, b, parentNum) THEN "drop"
        ELSE "accept"

CheckBatch(ls, c, item) ==
    IF item.batch.type = "singular"
    THEN CheckSingularBatch(ls, c, item.batch, item.incl)
    ELSE CheckSpanBatch(ls, c, item.batch, item.incl)

-----------------------------------------------------------------------------
(***************************************************************************)
(* The channel-in reader: what its NextBatch returns and leaves.           *)
(***************************************************************************)
EOF == None
NoBatch == Garbage      \* an error that is retried: end of a channel, bad data

Channel == IF reader # None THEN reader ELSE Head(unread)
UnreadAfter == IF reader = None /\ unread # <<>> THEN Tail(unread) ELSE unread
AtEnd == reader = None /\ unread = <<>>

ReadBatch ==
    IF AtEnd THEN EOF
    ELSE IF Channel = Garbage \/ Channel = <<>> THEN NoBatch
    ELSE IF \/ Head(Channel) = Garbage
            \/ Head(Channel).type = "span" /\ ~IsSpanBatch(L1Time[l1Origin])
         THEN NoBatch
    ELSE Head(Channel)

ReaderAfter ==
    IF AtEnd \/ Channel = Garbage \/ Channel = <<>> THEN None
    ELSE IF Head(Channel) = Garbage THEN None
    ELSE Tail(Channel)

-----------------------------------------------------------------------------
(***************************************************************************)
(* One step of the pipeline.                                               *)
(***************************************************************************)

\* L1 grows by a block in which the channels cs become ready.  Nobody can
\* refer to the hash of an L1 block that does not exist yet; a batch for a block
\* that was reorganised away may be included at any height.
NewL1Block(cs) ==
    LET n == L1Head + 1
        posted == FoldSet(LAMBDA m, k : k + Len(l1[m]), 0, DOMAIN l1)
        items == UNION {Range(cs[i]) : i \in {j \in DOMAIN cs : cs[j] # Garbage}}
    IN  /\ n <= MaxL1
        /\ posted + Len(cs) <= MaxChannels
        /\ \A b \in items \ {Garbage} : b.originOk => EndEpoch(b) < n
        /\ l1' = [m \in 0..n |-> IF m = n THEN cs ELSE l1[m]]
        /\ UNCHANGED <<reading, queue, attributes, chain, safe, resetting,
                       critical, ended, resets, history>>

Stepping == ~resetting /\ ~critical

\* What NextBatch does before it reads: drop a span that does not continue the
\* chain, forget the L1 blocks before the epoch of the parent, take over the
\* pipeline's origin.
SpanContinues == nextSpan # <<>> /\ Head(nextSpan).time = Time(Len(chain) + 1)
OriginBehind == l1Origin < Epoch(chain)
Trimmed ==
    IF l1Blocks # <<>> /\ Epoch(chain) > Head(l1Blocks) /\ Epoch(chain) \in Range(l1Blocks)
    THEN SubSeq(l1Blocks, CHOOSE i \in DOMAIN l1Blocks : l1Blocks[i] = Epoch(chain), Len(l1Blocks))
    ELSE l1Blocks
Origins ==
    IF bqOrigin = l1Origin THEN Trimmed
    ELSE IF OriginBehind THEN <<>>
    ELSE Append(Trimmed, l1Origin)

Prepare ==
    /\ Stepping
    /\ attributes = None
    /\ ~SpanContinues
    /\ bqOrigin' = l1Origin
    /\ reader' = ReaderAfter

\* The pipeline is out of data at this L1 block: move to the next if there is
\* one.
AdvanceL1 ==
    /\ ended' = [n \in DOMAIN ended \cup {l1Origin} |-> IF n = l1Origin THEN safe ELSE ended[n]]
    /\ IF l1Origin < L1Head
       THEN l1Origin' = l1Origin + 1 /\ unread' = l1[l1Origin + 1]
       ELSE UNCHANGED <<l1Origin, unread>>

\* After reading: more data is asked for, or the next L1 block if there is none.
NotEnoughData ==
    IF AtEnd THEN AdvanceL1
    ELSE unread' = UnreadAfter /\ UNCHANGED <<l1Origin, ended>>

\* The reader returns an error other than EOF.
ReadFails ==
    /\ Prepare
    /\ ReadBatch = NoBatch
    /\ unread' = UnreadAfter
    /\ l1Blocks' = Origins
    /\ nextSpan' = <<>>
    /\ UNCHANGED <<l1, l1Origin, batches, attributes, chain, safe, resetting,
                   critical, ended, resets, history>>

\* Batches of L1 blocks before the origin of the safe head are read and ignored.
SkipBehind ==
    /\ Prepare
    /\ ReadBatch # NoBatch
    /\ OriginBehind
    /\ NotEnoughData
    /\ l1Blocks' = Origins
    /\ nextSpan' = <<>>
    /\ UNCHANGED <<l1, batches, attributes, chain, safe, resetting, critical,
                   resets, history>>

\* AddBatch: the batch that was read, unless it can be dropped right away.
Buffered ==
    LET item == [batch |-> ReadBatch, incl |-> l1Origin]
    IN  IF AtEnd \/ CheckBatch(Origins, chain, item) = "drop" THEN batches
        ELSE Append(batches, item)

\* deriveNextBatch goes over the buffered batches up to the first one that is
\* accepted or undecided; of those before it, future ones stay.
Verdict(i) == CheckBatch(Origins, chain, Buffered[i])
Decisive == {i \in DOMAIN Buffered : Verdict(i) \in {"accept", "undecided"}}
Stop == IF Decisive = {} THEN Len(Buffered) + 1 ELSE Min(Decisive)
Future == {i \in 1..(Stop - 1) : Verdict(i) = "future"}
Accepted == Decisive # {} /\ Verdict(Stop) = "accept"

\* The batches that remain: the future ones, in their order, then the rest.
Remaining(rest) ==
    \E at \in [1..Cardinality(Future) -> Future] :
        /\ \A j, k \in DOMAIN at : j < k => at[j] < at[k]
        /\ batches' = [k \in DOMAIN at |-> Buffered[at[k]]] \o rest

\* What the attributes queue makes of a batch: the block to build on the chain,
\* and whether it is the last of its batch.
Attributes(blk, isLastInSpan) == [block |-> blk, last |-> isLastInSpan]

\* The number of blocks of a batch that the chain c is not behind.
OldBlocks(c, b) ==
    Cardinality({i \in DOMAIN b.blocks : BlockTimestamp(b, i) <= Time(Len(c))})

\* The blocks of an accepted batch that are new, as singular batches.
SingularBatches(b) ==
    LET old == OldBlocks(chain, b)
    IN  [k \in 1..(Len(b.blocks) - old) |->
            [time |-> BlockTimestamp(b, old + k), block |-> b.blocks[old + k]]]

\* The state after the epochs of l1Blocks and the parent were compared.
Derive ==
    /\ Prepare
    /\ ReadBatch # NoBatch
    /\ ~OriginBehind

EpochMatches == Epoch(chain) = Head(Origins) \/ Epoch(chain) + 1 = Head(Origins)

\* The buffered L1 blocks do not fit the safe head: the pipeline is reset.
EpochMismatch ==
    /\ Derive
    /\ ~EpochMatches
    /\ resetting' = TRUE
    /\ unread' = UnreadAfter
    /\ l1Blocks' = Origins
    /\ batches' = Buffered
    /\ nextSpan' = <<>>
    /\ UNCHANGED <<l1, l1Origin, attributes, chain, safe, critical, ended, resets, history>>

\* A batch is accepted: its first new block is handed on, the others of a span
\* wait.  A block whose epoch is not buffered is a critical error.
AcceptBatch ==
    LET b == Buffered[Stop].batch
        new == SingularBatches(b)
    IN  /\ Derive
        /\ EpochMatches
        /\ Accepted
        /\ Remaining(SubSeq(Buffered, Stop + 1, Len(Buffered)))
        /\ l1Blocks' = Origins
        /\ unread' = UnreadAfter
        /\ IF \A k \in DOMAIN new : new[k].block.epoch \in Range(Origins)
           THEN /\ attributes' = Attributes(new[1].block, Len(new) = 1)
                /\ nextSpan' = Tail(new)
                /\ UNCHANGED critical
           ELSE critical' = TRUE /\ nextSpan' = <<>> /\ UNCHANGED attributes
        /\ UNCHANGED <<l1, l1Origin, chain, safe, resetting, ended, resets, history>>

\* A batch needs more L1 blocks to be decided.
Undecided ==
    /\ Derive
    /\ EpochMatches
    /\ Decisive # {} /\ ~Accepted
    /\ Remaining(SubSeq(Buffered, Stop, Len(Buffered)))
    /\ l1Blocks' = Origins
    /\ nextSpan' = <<>>
    /\ NotEnoughData
    /\ UNCHANGED <<l1, attributes, chain, safe, resetting, critical, resets, history>>

\* Mutants: the window ends before its last L1 block is read, or a block late.
WindowOverEarly == Head(Origins) + SeqWindowSize <= l1Origin
WindowOverLate == Head(Origins) + SeqWindowSize + 1 < l1Origin

\* No batch fits: when the sequencing window of the epoch is over, an empty
\* block is made for it, or the epoch advances.
WindowOver ==
    LET expiry == Head(Origins) + SeqWindowSize
    IN  (expiry = l1Origin /\ AtEnd) \/ expiry < l1Origin
FirstOfEpoch == Head(Origins) = Epoch(chain) + 1
EmptyDue == Time(Len(chain) + 1) < L1Time[Origins[2]] \/ FirstOfEpoch

ForceEmpty ==
    /\ Derive
    /\ EpochMatches
    /\ Decisive = {}
    /\ WindowOver /\ Len(Origins) >= 2 /\ EmptyDue
    /\ Remaining(<<>>)
    /\ l1Blocks' = Origins
    /\ nextSpan' = <<>>
    /\ attributes' = Attributes([epoch |-> Head(Origins), txs |-> "none"], TRUE)
    /\ unread' = UnreadAfter
    /\ UNCHANGED <<l1, l1Origin, chain, safe, resetting, critical, ended, resets, history>>

NoBatchFits ==
    /\ Derive
    /\ EpochMatches
    /\ Decisive = {}
    /\ ~(WindowOver /\ Len(Origins) >= 2 /\ EmptyDue)
    /\ Remaining(<<>>)
    /\ l1Blocks' = IF WindowOver /\ Len(Origins) >= 2 THEN Tail(Origins) ELSE Origins
    /\ nextSpan' = <<>>
    /\ NotEnoughData
    /\ UNCHANGED <<l1, attributes, chain, safe, resetting, critical, resets, history>>

\* The next block of the span that is being applied.
PopNextBatch ==
    /\ Stepping
    /\ attributes = None
    /\ SpanContinues
    /\ attributes' = Attributes(Head(nextSpan).block, Len(nextSpan) = 1)
    /\ nextSpan' = Tail(nextSpan)
    /\ UNCHANGED <<l1, reading, bqOrigin, l1Blocks, batches, chain, safe,
                   resetting, critical, ended, resets, history>>

-----------------------------------------------------------------------------
(***************************************************************************)
(* The engine queue and the engine.                                        *)
(***************************************************************************)

\* The attributes builder can use the batch: its epoch is that of the parent
\* or the next, and not ahead of the block's time.
Buildable ==
    LET epoch == attributes.block.epoch
    IN  /\ epoch \in {Epoch(chain), Epoch(chain) + 1}
        /\ Time(Len(chain) + 1) >= L1Time[epoch]

\* It cannot: the pipeline is reset.
BuildFails ==
    /\ Stepping
    /\ attributes # None
    /\ ~Buildable
    /\ resetting' = TRUE
    /\ UNCHANGED <<l1, reading, queue, attributes, chain, safe, critical, ended, resets, history>>

\* The engine builds the block; the safe head moves with the last of a batch.
InsertBlock ==
    /\ Stepping
    /\ attributes # None /\ Buildable
    /\ attributes.block.txs # "bad"
    /\ chain' = Append(chain, attributes.block)
    /\ safe' = IF attributes.last THEN Len(chain') ELSE safe
    /\ derived' = IF safe' > Len(derived) THEN SubSeq(chain', 1, safe') ELSE derived
    /\ attributes' = None
    /\ UNCHANGED <<l1, reading, queue, resetting, critical, ended, resets, cut>>

\* The engine rejects the transactions: back to the safe head.
RejectBlock ==
    /\ Stepping
    /\ attributes # None /\ Buildable
    /\ attributes.block.txs = "bad"
    /\ chain' = SubSeq(chain, 1, safe)
    /\ attributes' = None
    /\ UNCHANGED <<l1, reading, queue, safe, resetting, critical, ended, resets, history>>

\* A restart, a reset on request, or a reset that another stage asked for.
AskReset ==
    /\ Stepping
    /\ resets < MaxResets
    /\ resets' = resets + 1
    /\ resetting' = TRUE
    /\ UNCHANGED <<l1, reading, queue, attributes, chain, safe, critical, ended, history>>

(***************************************************************************)
(* Where FindL2Heads may put the safe head: at the finalized block, which  *)
(* was the safe head when some L1 block was exhausted, or at the last      *)
(* block of an epoch, a sequencing window behind the L1 origins of the     *)
(* unsafe chain.                                                           *)
(***************************************************************************)
WasSafe == {0} \cup {n \in {ended[m] : m \in DOMAIN ended} : n <= safe}
SafeHeads ==
    WasSafe \cup {n \in 1..(safe - 1) : /\ chain[n + 1].epoch > chain[n].epoch
                                        /\ chain[n + 1].epoch + SeqWindowSize < L1Head}

\* Mutant: the pipeline goes on from where it was.
ResetOriginKept(n) == l1Origin

\* The origin from which channels are read again: the epoch of the first block
\* going back that is at the L1 genesis or a channel timeout away.
ResetOrigin(n) ==
    Max({0} \cup {chain[k].epoch : k \in {j \in 1..n :
                      chain[j].epoch + ChannelTimeout <= chain[n].epoch}})

Reset(n) ==
    /\ resetting /\ ~critical
    /\ n \in SafeHeads
    /\ resetting' = FALSE
    /\ safe' = n
    /\ chain' = SubSeq(chain, 1, n)
    /\ attributes' = None
    /\ l1Origin' = ResetOrigin(n)
    /\ unread' = l1[ResetOrigin(n)]
    /\ reader' = None
    /\ bqOrigin' = ResetOrigin(n)
    /\ l1Blocks' = <<ResetOrigin(n)>>
    /\ batches' = <<>>
    /\ nextSpan' = <<>>
    /\ ended' = [m \in {k \in DOMAIN ended : ended[k] <= n} |-> ended[m]]
    /\ cut' = (cut \/ n \notin WasSafe)
    /\ UNCHANGED <<l1, critical, resets, derived>>

Step == \/ ReadFails \/ SkipBehind \/ EpochMismatch \/ AcceptBatch \/ Undecided
        \/ ForceEmpty \/ NoBatchFits \/ PopNextBatch
        \/ BuildFails \/ InsertBlock \/ RejectBlock

Next ==
    \/ \E cs \in BoundedSeq(Channels, MaxChannels) : NewL1Block(cs)
    \/ Step
    \/ AskReset
    \/ \E n \in 0..safe : Reset(n)

Spec == Init /\ [][Next]_vars

-----------------------------------------------------------------------------
(***************************************************************************)
(* The non-eager derivation: what the L1 chain says the L2 chain is, read  *)
(* with hindsight.  The next block is decided once every L1 block that may *)
(* hold a batch for it is known; the batches are taken in order of         *)
(* inclusion and checked with all of L1 at hand.                           *)
(***************************************************************************)
Decodable(ch, n) ==
    IF ch = Garbage THEN <<>>
    ELSE LET good == {k \in 0..Len(ch) : \A i \in 1..k : ch[i] # Garbage}
         IN  SelectSeq(SubSeq(ch, 1, Max(good)),
                       LAMBDA b : b.type = "span" => IsSpanBatch(L1Time[n]))

\* All batches of L1, in order of inclusion.
Posted ==
    LET InBlock(n) ==
            LET bs == FoldLeft(LAMBDA acc, ch : acc \o Decodable(ch, n), <<>>, l1[n])
            IN  [i \in DOMAIN bs |-> [batch |-> bs[i], incl |-> n]]
    IN  FoldLeft(LAMBDA acc, n : acc \o InBlock(n), <<>>, [i \in 1..L1Head |-> i])

NewBlocks(c, b) == SubSeq(b.blocks, OldBlocks(c, b) + 1, Len(b.blocks))

\* The chains that extend c by the first of the batches, included up to L1 block
\* last, that is valid with l1Blocks from epoch on; at most one.
ByBatch(items, c, epoch, last) ==
    LET ls == [i \in 1..(L1Head - epoch + 1) |-> epoch + i - 1]
        Fits(item) == /\ item.incl <= last
                      /\ CheckBatch(ls, c, item) = "accept"
                      /\ \A blk \in Range(NewBlocks(c, item.batch)) : blk.txs # "bad"
        fit == {i \in DOMAIN items : Fits(items[i])}
    IN  IF fit = {} THEN {} ELSE {c \o NewBlocks(c, items[Min(fit)].batch)}

NonEagerNext(items, c) ==
    LET e == Epoch(c)
        Empty(epoch) == Append(c, [epoch |-> epoch, txs |-> "none"])
        now == ByBatch(items, c, e, e + SeqWindowSize)
        later == ByBatch(items, c, e + 1, e + 1 + SeqWindowSize)
    IN  IF e + 1 + SeqWindowSize > L1Head THEN c
        ELSE IF now # {} THEN CHOOSE x \in now : TRUE
        ELSE IF Time(Len(c) + 1) < L1Time[e + 1] THEN Empty(e)
        ELSE IF later # {} THEN CHOOSE x \in later : TRUE
        ELSE Empty(e + 1)

\* No chain is longer: a block is within the drift of an L1 block or before the
\* next one.
MaxBlocks == ((L1Time[MaxL1] + MaxSequencerDrift) \div BlockTime) + 1

NonEager ==
    LET items == Posted
        Chain[k \in 0..MaxBlocks] ==
            IF k = 0 THEN <<>> ELSE NonEagerNext(items, Chain[k - 1])
    IN  Chain[MaxBlocks]

-----------------------------------------------------------------------------
SafeChain == SubSeq(chain, 1, safe)
Comparable(s, t) == IsPrefix(s, t) \/ IsPrefix(t, s)

\* The batches on L1 are those of one sequencer chain.
OneChain ==
    \A x, y \in Range(Posted) :
        Comparable(x.batch.parent \o x.batch.blocks, y.batch.parent \o y.batch.blocks)

\* The comment of checkSingularBatch asks for it: the queue, which decides as
\* soon as it can, never derives another safe chain than the algorithm that
\* waits for the whole sequencing window, unless a reset cut a batch while L1
\* holds batches of several chains.
EagerAgreesWithNonEager ==
    (cut => OneChain) => Comparable(SafeChain, NonEager)

\* Whatever safe head the pipeline is reset to, it derives the same safe chain
\* again, unless the reset cut a batch while L1 holds batches of several chains.
ResetRederives == (cut => OneChain) => IsPrefix(SafeChain, derived)

\* "The rollup chain can be deterministically derived given an L1 Ethereum
\* chain": also by a node that was reset in the middle of a span batch.
DerivationDeterministic == IsPrefix(SafeChain, derived)

\* The safe chain keeps the rules of the protocol: an epoch is never skipped,
\* L2 time does not run ahead of L1, transactions stay within the drift, and a
\* block past the drift does not put off an origin it could adopt.
SafeChainWellFormed ==
    \A n \in 1..safe :
        LET blk == chain[n]
            prev == IF n = 1 THEN 0 ELSE chain[n - 1].epoch
            late == Time(n) > L1Time[blk.epoch] + MaxSequencerDrift
        IN  /\ blk.epoch \in {prev, prev + 1}
            /\ Time(n) >= L1Time[blk.epoch]
            /\ blk.txs \in {"none", "ok"}
            /\ late => blk.txs = "none"
            /\ late /\ blk.epoch = prev => Time(n) < L1Time[blk.epoch + 1]

\* An accepted span batch can always be split into blocks: every epoch it
\* needs is buffered.
NoCriticalError == ~critical

\* The queue waits for L1 with nothing left to read or to derive.
Idle ==
    /\ Stepping /\ attributes = None /\ ~SpanContinues
    /\ AtEnd /\ l1Origin = L1Head /\ bqOrigin = l1Origin
    /\ ~OriginBehind /\ EpochMatches /\ ~Accepted
    /\ Decisive = {} => ~WindowOver

\* When the queue has nothing to do, the safe head is at most a sequencing
\* window behind L1, unless a span batch waits for an epoch that the queue has
\* left behind or that L1 does not have yet.
IdleWithinWindow ==
    Idle => \/ Epoch(chain) + SeqWindowSize + 1 >= L1Head
            \/ /\ Decisive # {}
               /\ \/ EndEpoch(Buffered[Stop].batch) < Head(Origins)
                  \/ EndEpoch(Buffered[Stop].batch) > L1Head
=============================================================================
