# TLA+ models of the Blast rollup

Blast is an optimistic rollup derived from the OP stack.  A *batcher* packs L2
blocks into channels, cuts the channels into frames and posts the frames in L1
transactions.  Every *rollup node* (`bl-node`) reads them back: its derivation
pipeline reassembles channels, decodes batches, derives the attributes of L2
blocks and drives an execution engine through the engine API, while a sequencer
or gossip extends the chain ahead of what L1 already confirms.  A *proposer*
posts output roots of L2 to L1, where contracts pay out withdrawals against them
and play dispute games about them.  The models here are about the parts which
keep state across steps and must keep it consistent under reorganisations,
timeouts, failed transactions, lost replies, half-applied engine updates, resets
and restarts.

Parsing a module: `tlasany M.tla`.  A run: `tlc -config X.cfg M`.  The proofs
about a module `M`: `tlapm MProofs.tla`.  `PROJECT.json` lists components, runs,
mutants, the map from definitions to source lines, findings, hazards and theorems.

## 1. Inventory

| component | state | operations | talks to | what is hard |
|---|---|---|---|---|
| L1 traversal, frame queue, channel bank (`derive/l1_traversal.go`, `frame_queue.go`, `channel.go`, `channel_bank.go`) | L1 origin; frames of the current transaction; map and FIFO of open channels; per channel its frames, size, end | advance L1, ingest a frame, prune, read, reset | L1 retrieval below, channel-in reader above | frames in any order, duplicates, late frames racing the timeout, eviction at the size limit |
| channel-in reader, batch queue (`channel_in_reader.go`, `batch_queue.go`, `batches.go`) | pending batches per origin, next span | check and order batches, force empty ones | channel bank, attributes queue | sequencing window boundaries, overlapping span batches |
| attributes (`attributes*.go`, `deposits.go`) | the batch in hand | build attributes | batch queue, engine queue | reorg between fetches |
| engine queue (`derive/engine_queue.go`, `engine_update.go`), payload buffer (`payloads_queue.go`), sync start (`sync/start.go`) | unsafe, pending safe, safe, finalized heads; the building job; queued attributes and payloads; finality data; a due forkchoice update | step, reset, finalize, add payload, start/confirm/cancel a block | execution engine, sequencer, driver, all earlier stages | engine errors half way through, L1 reorg and finality signals in between, resets from nothing but the engine's labels |
| driver (`driver/state.go`, `sequencer.go`, `origin_selector.go`, `l1_state.go`) | timers, L1 labels, sequencer's next action | event loop | engine queue, p2p, L1 | order of events, backoff, liveness |
| p2p (`p2p/`) | gossip, peer scores, in-flight sync requests, quarantine, trusted hashes | publish, request ranges, promote payloads | driver | out-of-order and conflicting answers, bounded channels between four kinds of goroutine |
| batcher (`bl-batcher/batcher`) | pending blocks, channels with their frames and transactions, L1 tip, last stored block | load blocks, build channels, hand out frames, receipts, close, clear | transaction manager, L2 and L1 RPC | failures and confirmations in any order, channel timeouts, shutdown with transactions in flight |
| transaction manager (`bl-service/txmgr`) | nonce, send state per transaction, queue of sends | send, bump, poll receipts, abort | L1 RPC | concurrent sends, lost replies, reorgs |
| proposer, challenger (`bl-proposer`, `bl-challenger`) | next proposal; games in progress | propose; act, resolve | transaction manager, contracts | races with the chain and with other actors |
| contracts (`packages/contracts-bedrock`) | outputs, withdrawals, messages, dispute games | propose, prove, finalize, relay, move, resolve | each other | replays, reentry, clocks |
| proxyd, indexer | consensus group; indexed range | poll, index | RPC | disagreeing back ends, reorgs |
| Cannon, fault proof program, bindings, tools, JS packages | | | | an emulator, generated code and tools: see `PROJECT.json` |

What makes them correct, component by component, is what the properties of
section 3 say for the modelled ones; for the others the plan of section 7 names
the property that is worth its run.

## 2. Modules and how they correspond to the code

**`ChannelBank`** (L1 traversal, frame queue, channel, channel bank).  `channels`
and `channelQueue` are the two fields of the bank, `frames` the frame queue,
`origin` the L1 block, `data` what the last `NextData` returned.  A channel is a
record with the fields of `derive.Channel`; a frame is a channel id, a number, a
size and the last flag, so a frame's bytes are only a size.  One action per way
through `ChannelBank.NextData` (`ReadTimedOut`, `ReadChannel`, `NextFrame` with
`IngestFrame` and `prune`), one for the next L1 transaction, one for
`AdvanceL1Block`, one for `Reset`.  Reads before Canyon look at the head of the
queue only, from `CanyonOrigin` on at every channel.

**`BatchQueue`** (channel-in reader, batch queue, batch checks, attributes queue,
and the engine's verdict on a block).  `l1` holds the channels that become ready
at each L1 block; `reader`, `l1Blocks`, `batches` and `nextSpan` are the fields of
the stages; `attributes` is the block to build, `chain` and `safe` the pending safe
chain and the safe head.  A block is its epoch and the kind of its transactions;
a block's hash is the chain up to it, so parent checks and overlap checks compare
chains.  `Step` has one disjunct per way through `BatchQueue.NextBatch`,
`deriveNextBatch` and `AddBatch`; `CheckSingularBatch` and `CheckSpanBatch` follow
`batches.go` rule by rule.  `OldBlocks` counts the blocks of a span batch that the
chain has already, `Remaining` and `Future` are what `NextBatch` keeps of its buffer.
`Buildable` is what the attributes builder demands of a batch; `BuildFails` is the
reset it asks for otherwise.  `Reset(n)` takes any safe head that `FindL2Heads` may
give.  `NonEager` is the reference definition: the chain that an algorithm derives
which waits for the whole sequencing window before it decides a block.

**`PayloadsQueue`** (buffer of unsafe payloads).  The heap is a set, its top any
payload of the lowest number; `currentSize` and `blockHashes` are the other
fields.  `Push` contains its evictions, and the hash is recorded after them.

**`EngineQueue`** (engine queue, engine update, sync start, stepping), with an
instance of `PayloadsQueue`.  The variables are the fields of the queue; `mode`
is the pipeline's `resetting` together with the critical stop, `prevOrigin` the
L1 block of the stages before, `eng` the forkchoice of the execution engine,
`l1Head`, `l1Fork`, `l1Final` the L1 chain.  The driver calls everything from one
event loop, so a call is one step and `Next` lets any call come next.  `Step` is
the ordered chain of early returns of `EngineQueue.Step`: a due forkchoice
update, then the unsafe payloads, then the queued attributes (consolidate, or
force with each outcome class of the engine), then the new origin, finality and
the next attributes.  A due forkchoice update may be applied, lost or refused also
while the engine syncs, since the engine may have finished without the queue knowing.  `Reset` computes the result of the walk of `FindL2Heads`
instead of walking.  L2 blocks form a constant tree with heights, L1 origins and
the L1 block that completes their batch.

**`UnsafeSync`** composes the event loop of the driver, the payloads queue (it
EXTENDS `PayloadsQueue`), the P2P sync client and its peers.  Handlers are atomic
up to where they may block: the driver inside `RequestL2Range` (`requesting`), the
client's main loop inside `receivePayload` (`promoting`).  `unsafeL2Payloads`,
`peerRequests` and `results` are the bounded channels; `quarantine` is an LRU and
`quarantineByNum` its index; an entry of `inFlight` names the request it belongs
to, since a result deletes whatever entry its number has.  A peer that leaves and
comes back has two loops for a while.

**`Sequencer`** (sequencer, event loop, origin selection, confirmation depth, L1
state).  The unsafe chain is a sequence of blocks, each with its origin and whether
it was built without the transaction pool; `timer` is `sequencerCh` with its timer,
`nextAction` the field of the sequencer, `building` the engine's open job.  Every
event ends with the top of the event loop (`Loop`), which plans again, disarms, or
leaves the timer.  `StartBuildingBlock` and `CompleteBuildingBlock` fire when the
timer does, with their failures as `StartFails` and `SealFails`; derivation
appears as what it does to the heads and the job.

**`ChannelManager`** (channel manager, channel, channel builder of the batcher).
`blocks`, `tip`, `channelQueue`, `currentChannel`, `txChannels`, `closed` are the
manager's fields, `channels` the channel objects (also those that left the queue:
transactions still refer to them).  The driver holds the manager's lock for a
call, so a call is a step: `AddL2Block`, the two ways through `TxData` that
change anything, `TxFailed`, `TxConfirmed`, `Close`, `Clear`.  What the
compressor decides (how many blocks fill a channel, how many frames come out) is
a choice, constrained as `processBlocks` and `OutputFrames` constrain it.
`CloseScan` keeps the aliasing of Go's slices: `Close` ranges over a slice whose
array its own removals shift, so which entries go depends on the entries before
them.  `BlocksTimeout` is the sequencing window less the safety margin, from the
lowest epoch in the channel.  `l1Head`, `inflight` and `loaded` are environment
and history.

**`TxMgr`** (transaction manager, send state, queue of sends).  `nonce` is the
manager's, `pc` where the goroutine of each send is, `minedTxs`,
`nonceTooLowCount` and `published` its `SendState`, `poller` its `waitMined`
goroutines, `group` and `groupDone` the queue's error group.  A step is what
happens between two RPC calls or under one lock, so `CheckWaiting` and
`SendAccepted`, or the two calls of `queryReceipt`, can have anything of another
send or of L1 between them.  L1 is the account's transactions by nonce, each with
its confirmations, and a pool.  Fees are only the number of versions within the
limit.

**`Withdrawals`** composes the L2 message passer and messenger, the proposer, and
on L1 the output oracle, the portal and the messenger.  An output root is a block
number with the messages sent up to it; a proof of inclusion is membership.  A
transaction on L1 is atomic, but the target of a message runs inside it and may
call back: `stack` holds the running targets, each with the state to return to if
it fails, and every public function is enabled for a running target as far as the
contracts' own guards let it.  The proposer's read of the next block number, of
the output and the inclusion of its transaction are three steps, with
reorganisations between them.  The challenger of the output oracle deletes outputs
that are wrong, before they are `ChallengePeriod` old (an assumption on it: time does
not pass beyond that).

**`FaultDisputeGame`** composes the contract of one game with the challenger's
agent and solver and with anybody else.  The contract refuses identical claims, so
a claim is its path of moves from the root and `claimData` a function on paths;
values are right or wrong ones, and the VM is a function on them.  Positions,
trace ancestors and clocks follow the contract; a subgame is the sequence of the
claims against one, as they were made, because `resolveClaim` reads them in that order
and stops at the first that is not countered: `Visited` are those that it reads, and
only their subgames must be resolved.  `NextMove` and `NextStep` follow the solver.
Others move and step, and anybody resolves, whenever the contract lets them, so moves
come before, between and after resolutions, also against claims already resolved.
`hasty` remembers that a claim was resolved on account of one that the agent would still
have answered (`Overtakes`) or was answered after it had been resolved (`Reopens`).

The **`*Proofs`** modules hold the theorems, one module per component: `ChannelBank`,
`EngineQueue`, `BatchQueue`, `ChannelManager`, `TxMgr`, `Sequencer`, `Withdrawals`,
`UnsafeSync` with `PayloadsQueue`.
The `MC*` modules give instances for TLC.

## 3. Runs

| run | instance | what it shows |
|---|---|---|
| `channel_bank` | 2 channels, 3 frame numbers, sizes 1 and 2, bank of 4, 3 L1 blocks, timeout 1, Canyon at block 1 | map and queue agree; a closed channel keeps no frame past its end, whatever the order of arrival; no expired channel hides behind a live one; tracked sizes never go negative and stay in bounds; from Canyon on no ready channel is left when L1 advances |
| `batch_queue` | 9 channels of singular and span batches of four sequencer chains, 2 of them posted on 5 L1 blocks, window 2, drift 3, one reset | the queue, deciding as early as it does, derives the chain that hindsight derives, again after a reset; the safe chain keeps the rules; an accepted span batch can always be split; an idle queue is within the sequencing window |
| `batch_reset` | the same | *violated*: a reset inside a span batch, with batches of two chains on L1, derives another safe chain |
| `engine_queue` | 5 L2 blocks (two competing at height 1, a chain of three on one of them), the second of which is gossiped, L1 of height 2 that may reorganise once, engine P2P sync, lost replies | heads stay ordered and only advance between resets; when settled, the safe head is on the unsafe chain; what is finalized since a reset is reproducible from finalized L1 data; the engine's finalized block only advances |
| `engine_window` | 5 L2 blocks in a row, L1 of height 4, window 1 | a reset that winds the safe head back leaves only blocks that no later batch can change, and finality is tracked correctly from there |
| `unsafe_sync` | 3 blocks, the last two gossiped, a block of another chain, one peer with two loops, all channels of capacity 1, quarantine and payloads queue of 2 | only the gossiped chain gets through; the index names quarantined blocks only; evictions of the payloads queue keep the highest blocks; gaps are filled |
| `sequencer` | 3 L2 blocks, L1 of height 2 with a fork, confirmation depth 1, drift 4, safe lag at most 2, one reset and one stop | sequenced blocks can be derived, are on time, extend the head they were begun on; sequencing goes on |
| `channel_manager` | 2 blocks, 3 channels of at most 2 frames, 5 L1 heads | no frame is lost or sent twice at once; no block is lost while the manager is open; no channel is stuck; a channel ends once |
| `txmgr` | 2 sends, one of which may raise its fees once, 2 confirmations, one reorganisation, lost replies | no live send waits behind a nonce that nobody has; a returned receipt is confirmed; every send ends, unless L1 took a version whose reply was lost |
| `withdrawals` | 3 messages, one past the messenger, 2 L2 blocks, one reorganisation, one wrong output, calls nested twice | only messages that were sent are paid; the proposer's outputs are those of L2; a target runs to its end once; no message is lost; the messenger can pay every replay |
| `dispute_game` | depth 4, two kinds of wrong value, half of the game 1 unit of time and 4 in all, 3 moves of others at any time | the game ends, for the side that is right unless a resolution was hasty; the contract accepts the solver's steps |
| `dispute_clock` | depth 3, one kind of wrong value, 2 moves of others at any time | *violated*: the wrong side wins when a claim is resolved while the clock against it still runs |

*Why these bounds.*  Two channels are the least with a head and another behind it,
three frame numbers the least with frames below, at and above an end; a bank of 4 is
filled by two frames of size 2 and overflows with a third.  The batches of
`batch_queue` contain, for each rule of `batches.go`, one that it decides: past the
drift with and without a later origin, overlapping, misaligned, of a dead fork,
rejected by the engine, undecodable, and one that skips an epoch; two channels are the
least of which one can hold up, precede or contradict the other, and five L1 blocks
let two windows pass. Three channels of the batcher are the least for which a removal
during `Close` can skip one between others; five L1 heads let a confirmation fall on
both sides of the channel timeout.  In the engine queue, height 1 without an L1 fork
makes two blocks compete by the engine's and the sequencer's choice, a third height
lets the unsafe head fall behind the pending safe head, and an L1 fork at height 2
takes the batches of the higher blocks away.  A lookback of 3 fills with the third L1
block, so finality data is pruned.  `engine_window` needs four L1 blocks for a safe
head that a reset moves back by a window and one block.  In `unsafe_sync` channels of
capacity 1 make every full-channel branch happen, and a gap of one block below a
gossiped chain of two makes promotion go through the quarantine.  In `sequencer` L1
blocks are further apart than the drift allows on either fork, and the third block
exceeds the safe lag.  Two sends are the least that share the nonce and a group; with
two confirmations a reorganisation can take away a transaction that was seen mined but
not a confirmed one.  Two nested calls are the least with a replay inside a
finalization inside a relay; two L2 blocks and an interval of two give one output that
a reorganisation can take back.  Depth 4 is the least at which a step needs a state
from a claim three moves up and a game can have several honest subtrees; three moves
of others are enough for a wrong claim on each side and an answer of a teammate.  A half
of 1 and 4 units of time let claims be resolved while moves against others, and against
those resolved, are still accepted: games in which a move follows a resolution, in which
a parent is resolved with the subgame of a later sibling open, and in which a claim is
resolved while it can still be answered, all occur, with and without haste.  In every passing run each action of the next-state relation fires.

*Mutants.*  Each property of a passing run has a mutant in `PROJECT.json`: the
definition with the slip one could make in that code (a reset that keeps stale
data, a missing guard, a wrong boundary), under which TLC finds the property
violated.  Mutants are the operators marked so next to what they mutate.

*Fairness.*  Stated where liveness is checked; the others are safety
specifications.

* `TxMgr`: goroutines proceed (weak fairness of `Proceed` and of the pollers):
  Go's scheduler and the tickers give that.  A `select` with a ready receipt,
  cancellation or abort does not lose to the ticker for ever (strong fairness,
  `select` chooses at random).  Of the environment: L1 does not refuse a valid
  transaction for ever, grows, and includes what waits; the calls that read the
  block number do not fail for ever.  `TxNotInMempoolTimeout` passes.
* `UnsafeSync`: both loops serve what they can take, contexts time out, the alt-sync
  ticker comes again (weak fairness); a `select` among several ready channels is
  fair (strong fairness of taking a payload and of taking a request); a peer comes
  back, and a block asked for again and again is served in the end.
* `Sequencer`: the clock runs, L1 grows, the event loop takes the events that wait,
  derivation finishes the safe block it began and consolidates what was batched;
  starting and sealing, when tried again and again, succeed in the end (strong
  fairness).  No fairness of stopping, resets without cause or reorganisations.
* `FaultDisputeGame`: weak fairness of `Progress`: as long as time can pass, the agent
  has something to do or something can be resolved, one of these happens in the end.
  No single claim need be resolved.  The agent answers before time goes on: its
  polling interval is short against the game's duration.

## 4. Proofs

`ChannelBankProofs` proves, for any set of channel ids, frame sizes, frame
numbers, bank size, timeout, Canyon block and length of L1:

* `TypeCorrect`, `BankAlwaysConsistent`, `AlwaysClosedPruned`, `SizesAccounted`,
  `ReadsComplete`, `NeverExpiredBehindHead` (invariants) and `NeverReadyLeftBehind`
  (action property).

None of these is inductive alone.  `ReadComplete` (what is handed on has the frames
from 0 to its end and no other, all of its window, and is read within it) needs that
every buffered frame lies in its channel's window and that highest and end frame are right;
`NoExpiredBehindHead` needs the queue to be ordered by opening block; both need
that the map and the queue hold the same channels.  The invariant `IInv` is
therefore the types of `frames` and `origin`, `Bank` (queue injective, in step
with the map, oldest first, every channel `Good`: typed, well pruned, inside its
window, opened no later than the origin) and `ReadComplete`.  The lemmas follow
the helpers: adding a frame keeps a channel good, dropping from the head of the
queue and removing one entry keep the bank, ingesting keeps it.  `SizeAccounting`
needs `Good` to say that the size of an open channel is the sum over its frames: one
frame more adds its size (`AddFrameSize`), and what the closing frame subtracts is part
of that sum.  The total size of the bank is left uninterpreted, since the rest of the
argument only needs that prune takes a prefix.

The provers have no induction, and the sums of the models are folds.  Three of the proof
modules therefore derive, each for its own sums, what they need from the definition of
`SumFunctionOnSet`: that the recursive function it chooses exists (`SumExists`, from the
functions that sum all subsets of up to k elements, with a smallest k for which there is
none) and is unique (`SumUnique`, from a smallest subset on which two differ), then that a sum is a natural
number, that one element adds its value (`SumAdd`) and that disjoint sets add up.

`EngineQueueProofs` proves, for any tree of L2 blocks, any L1 chain with a fork,
any windows, delays and lookback, with and without engine sync and lost replies:

* `HeadsStayOrdered` and `AttributesStayOnPendingSafe` (invariants), `HeadsAdvance`
  and `EngineFinalizedAdvances` (action properties);
* `SettledStaysOnUnsafeChain`, `FinalizedFromFinalL1`, `ResetGoesBackFarEnough`
  (invariants).

The first four hold only together.  That the engine is never told to finalize a
competing block needs, while the pipeline runs, that its finalized block is an
ancestor of the queue's; after a reset this needs that the walk of `FindL2Heads`
ends at a descendant of the engine's finalized block, so that this block lies on the
engine's own chain, also after updates whose reply was lost.  That the finalized
head stays below the safe head needs finality data to hold ancestors of the safe
head only, and that the safe head stays below the pending one needs the queued
attributes to build on it.  `IInv` is the conjunction: `L1Typed`, `EngineInv`,
`HeadsInv`, `AttributesInv` and `Tracks`.  Every action but `Reset` and `Restart`
is shown to leave the engine alone or to send it a valid forkchoice with the
queue's finalized head (`EngineStep`), from which one lemma gives the engine's
part.  The last three rest on a second invariant, `IInv2`, proved on top of the
first.  `DerivedInv` says of the safe head, the queued attributes, the finalized head
and each entry of the finality data that its batch is in L1 blocks up to the one it
is tracked at, or that it is an ancestor of where the last reset went; `FinalL1Inv`
that the finalized L1 block the queue knows is canonical and final and that the
origins of the queue and of the stages before it are on one fork; `SettledInv` that,
unless a forkchoice update is due, also while the engine syncs, the safe head is on
the unsafe chain.  The assumptions on the constants say that `Parent`, `Number` and
`Chain` describe a tree whose chains are finite and in which an epoch's first block
has a later L1 origin; TLC evaluates them in every engine run.  The buffer of unsafe
payloads is not looked into: the argument holds whatever it holds.

`BatchQueueProofs` proves, for any batches in any channels on L1, any L1 times, block
time, window, drift and number of resets:

* `SafeChainKeepsRules`: every safe block keeps the rules on epochs, time and drift;
* `SpansCanBeSplit`: an accepted span batch always has a block to build next;
* `WaitsWithinWindow`: a queue with nothing to do is within the sequencing window, or
  holds an undecided batch.

The invariant follows the data through the stages: `L1Inv` (what is posted), `ReadInv`
(how far the traversal, the reader and the queue's own origin have read), `BufferInv`
(`l1Blocks` are consecutive up to the queue's origin, and missing only while it has
not caught up with the safe head; buffered batches are from L1 blocks already read),
`ChainInv` (the rules for all of the pending chain), `SpanInv` (the attributes in hand
and the rest of the span are for consecutive block times and buffered epochs and keep
the rules on the drift), `NoCriticalError`, and `WindowInv`: when the epoch of the
safe head was given up, every batch that may be for it has been read, and those that
remain are for later blocks.  Without `WindowInv` a batch for an epoch that was given
up could not be excluded when a span is split.  Statements about all blocks of a span
batch are shown by taking the smallest index that breaks them (`Smallest`), since the
provers cannot apply the induction rule.

`ChannelManagerProofs` proves, for any blocks, channels, timeouts and number of
frames, `FramesConserved`, `BlocksKept`, `ChannelsAdvance` (invariants) and
`ChannelsEndOnce` (action property).  `IInv` adds to the three invariants what they
need: `ChannelsInv` (the types of a channel, and that its unsent, pending and
confirmed frames partition the frames it has put out) and `QueueInv` (the queue holds
a channel once, and a transaction in flight is of a channel that is known).  The
hard cases are `Close`, whose removals are known only as the set that the aliased loop
drops, and a channel that times out while it is the current one.

`TxMgrProofs` proves, for any set of sends, versions, confirmations, nonce space and
reorganisations less deep than the confirmations:

* `ReceiptsConfirmed`: a receipt that a send returned is of a transaction on L1 with
  enough confirmations, also after a later reorganisation;
* `NoncesWithoutGap`: below the nonce of a live send of a group that was not cancelled
  there is no nonce that nobody has.

`IInv` has the types, `ChainInv` (one transaction per nonce, confirmations falling
with the nonce), `PhaseInv` (who has a nonce, is in the group, has a result),
`PollerInv` (a receipt that a poller holds has the confirmations it was read with
until L1 changes, and is deep only if it is for good), `ReceiptInv`, `NonceInv` (every
nonce below the manager's is on L1 or taken by a send that will reset it if it fails)
and `GapInv` (the same below the nonce of a live send, or a failed send is about to
cancel the group).

`SequencerProofs` proves, for any L1 with a fork, times, drift, confirmation depth and
safe lag, `BlocksDerivable` and `NeverAheadOfClock` (invariants) and `SealsExtendHead`
(action property).  `Core` holds the rules for every block of the unsafe chain
(`ChainInv`), the same for the job being built (`JobInv`: it is on the head, whatever
happened since it was begun, and was begun when its parent's time had come) and
`NotAheadOfClock`; `TimerInv` says that the timer runs only if the sequencer does and
does not fire for a new block before its parent's time, without which a block could
be begun, and so sealed, too early.

`WithdrawalsProofs` proves, for any messages, values, nesting of calls and
reorganisations, `NoDoubleExecution`, `MessagesSurvive`, `MessengerAlwaysSolvent`,
`OnlySentIsPaid` and `CorrectProposer`.  `ContractsInv` says of the contracts' state, and of each state that
a running target returns to if it fails, that what was finalized was sent in an L2
block which no reorganisation drops any more, that what the portal finalized by way of
the messenger failed, succeeded or is running, and that what was executed or runs
cannot be started again.  `PendingInv` says that a proposal which refers to a canonical
L1 block has the root of L2, `OutputsInv` that an output was right when it was
recorded, became right while it could still be deleted, or can still be deleted.
The proof attempt without a margin failed for a good reason: an output for a block
that L2 has not reached may become right when L2 reaches it, and wrong again when that
block is reorganised away, at which time it may be too late to delete it.
`ChallengeMargin` therefore asks that the finalization period exceeds the challenge
period by what the reorganisations can take; the finalization period is days, a
reorganisation minutes.  `SolvencyInv`, which `MessengerAlwaysSolvent` needs on top, says
of the current state and of each state that a running target returns to (`Undone`) that
the messenger holds the value of the messages that failed, neither succeeded nor are
being run there: the value of a message being relayed is with its target, and when that fails
the message is among the failed ones again or for the first time, with its value.
From the same invariant follows `FirstRelayAccepted`: when the portal finalizes a message
of the messenger, the messenger has neither relayed nor kept it.  The portal finalizes
also when its call fails, and would lose the message if the messenger's assertions
(`CrossDomainMessenger.sol:240`) made it fail; `FinalizeByMessenger` has no case for
that because the theorem shows that there is none.

`UnsafeSyncProofs` proves, for any blocks and parents, any answers of peers, any payload
sizes and memory limit and any capacity of the quarantine and the channels:

* `IndexMatchesQuarantine` and `SyncsOnlyGossipedChain` (invariants) of the sync client;
* `PushKeepsHighest` (action property) and `MemoryStaysAccounted` (invariant) of the
  payloads queue, as the driver uses it;
* `UsesPayloadsQueue`: the composition implements `Spec` of `PayloadsQueue`.

`IInv` is `DriverInv` (what is queued, on its way, requested or the unsafe head is on the
chain of a gossiped payload), `TrustInv` (so is every trusted hash and the block the main loop is
blocked with, while results may be any block), `Indexed` (a number is indexed to a block of
that number in the quarantine) and `QueueInv` (the payloads queue has counted what it
holds, within the limit, and knows its hashes).  That the block has the number it is indexed at is what makes
the index safe: an eviction clears the entry of the evicted block's number, whatever it
says.  `GossipedChain` is defined as a least set, so that it is closed under parents by
definition (`AncestorFacts`) and only grows (`ChainGrows`).  The loop of a range request is
a fold over numbers; that it keeps what each of its turns keeps (`LoopKeeps`) is shown like
the facts on sums, by a smallest set of turns that does not.

The properties of the runs that are stated by a theorem are in `PROJECT.json` with
it; `TypeOK` and `ReadComplete` of the channel bank, `AttributesOnPendingSafe`,
`MemoryAccounted` and `FirstRelayAccepted` are proved only.

Only model-checked:

* `ResetRederives` and `EagerAgreesWithNonEager`: they compare the queue with an
  algorithm defined by recursion over all of L1, and an early decision with one made
  in hindsight, for every length of the chain at once;
* `RightSideWins` and `SolverStepsAccepted`: over the whole tree of moves, with
  positions that are powers of two; that the first must except hasty resolutions is
  what the run `dispute_clock` shows;
* liveness (`SequencingGoesOn`, `EverySendEnds`, `GameEnds`, `GapsAreFilled`), by the
  nature of the prover.

## 5. Findings

Disagreements of the code with what the repository says of it, each with a run:

1. `batch_reset`: which of two conflicting batches wins depends on where the safe
   head is when they are checked, and a reset can put it inside a span batch, so a
   node that was reset can derive another chain.  `ResetRederives` and
   `EagerAgreesWithNonEager` show that this needs batches of several chains on L1.
2. `dispute_clock`: `resolveClaim` tests the clock of the claim it resolves and not
   the one that `move` tests, so a claim can be resolved, answered and resolved
   again without its first answers (`RightSideAlwaysWins`).  `RightSideWins` shows
   that nothing else makes the wrong side win: neither resolving while siblings are
   open, nor moving while others resolve.

Observations without a run of their own:

* `channel.go:79`: when the closing frame arrives, `AddFrame` subtracts the size of
  every buffered frame, also of those it keeps, so prune under-counts
  (`SizeAccounting` bounds the error).
* `channel_manager.go:351`: `Close` ranges over the queue from which it removes, and
  can skip a channel without submitted transactions.
* `channel_manager.go:169`: timeouts are only looked at when there is a block to add.
* `payloads_queue.go:130`: a payload evicted by its own `Push` stays known by hash
  and can never be queued again (`GapsAreFilled` excepts it as `Refused`).
* `engine_queue.go:282`: the first step after a reset records the safe head as
  derived from the L1 block where the pipeline restarts, although its batch is in a
  later one, and finalizes it with that block.  `FinalizedReproducible` shows that
  blocks derived since the reset are not affected.
* `engine_queue.go:778`: a reset that finds no heads is tried again for ever.
* A forced block that is rejected leaves the engine on another chain than
  `unsafeHead`; `SettledSafeOnUnsafeChain` shows that this is caught.
* `txmgr.go:366`: a version that L1 took although `SendTransaction` returned an error
  is never polled; once the fee limit is reached the send stays for ever
  (`EverySendEnds` excepts it as `Unpolled`).  With three pending sends, the nonce
  read after a failed one can be that of a live one until the group is cancelled.
* `batches.go:258`: a span batch that ends in an epoch the queue has left behind, or
  that L1 does not have, stays undecided and holds up the forced empty batches
  (excepted by `IdleWithinWindow`); `batch_queue.go:215`: after a reset into the
  first epoch the queue's first L1 block is one too old and it asks for resets.
* `batches.go:99`: `checkSingularBatch` accepts a batch two epochs after its parent's
  once the queue has given up the parent's epoch; the attributes builder then asks for
  a reset (`attributes.go:64`), and again after each reset.  `SafeChainWellFormed`
  holds because of the builder's check.
* A wrong output can be right for a while and wrong again after a reorganisation
  (`ChallengeMargin`, section 4).
* `sync.go:396`: a block of another chain in quarantine is not fetched again before
  something evicts it (`ForkQuarantined`); `sync.go:488`: a rescheduled result
  deletes the in-flight entry of a live request; `sync.go:501`: the loop of a peer
  that left unregisters the loop the peer has since its return; `sync.go:478`: the
  parent is removed from quarantine also if it could not be rescheduled;
  `node.go:503`: the driver's error is swallowed, so a block that was dropped counts
  as received.
* `sequencer.go:240`: the back-off is not applied when starting a job fails, and
  an old `nextAction` replaces the sealing margin of a later job.
* `solver.go:38`: the check for the honest path is not exact, without consequence for
  the result (`SolverStepsAccepted`, `RightSideWins`).

## 6. Abstractions, limits and what is not modelled

* Failures of L1 or engine calls that change nothing are steps that change
  nothing, and are left out.  A failed attempt that changes something is modelled.
* `ChannelManager`: the `uint16` frame index and the RLP size limit of a channel
  are not reached; the first block of a channel always fits.
* `EngineQueue`: blocks are members of a constant tree, so attributes equal a
  block or not; decoding and hash errors count as a refusal by the engine; a
  refused forkchoice changes nothing in the engine; the engine does not wind
  back its chain for an ancestor; L1 grows and reorganises at most once, never
  below what it finalized; `SkipSyncStartCheck`, the sanity checks for malformed
  chains, restarts of the engine and the safe-head database are left out; the
  branches of `tryNextSafeAttributes` for attributes that do not build on the
  pending safe head are left out because `AttributesOnPendingSafe` shows them
  unreachable; the sequencer's timing and origin choice are any time and any
  block with a canonical origin.
* `TxMgr`: a query lasts less than two changes of L1; a reorganisation is less
  deep than the confirmations, and its transactions go back to the pool, which
  loses none; gas estimation fails or succeeds with the fee calls around it;
  `TxSendTimeout` is 0.
* `BatchQueue`: span batches are active from the start in the runs, so the activation
  check (`batches.go:182`) never drops one there; it is in `CheckSpanBatch` all the same.
  The check takes the time of the safe head's epoch or of the next, so a batch that
  begins before the activation is dropped while the safe head is in an epoch before it
  too, and can be accepted once it is not: with `SpanBatchTime = 3` in
  `MCBatchQueue.cfg`, `EagerAgreesWithNonEager` is violated by that.  L1 has no forks; a batch refers to L1 blocks that exist when it is
  posted; channels are what the bank hands on, in order;
  encodings of batches are garbage or decoded; a reset of the stages is one step.
* `UnsafeSync`: derivation does not move the head; peers' scores and rate limits,
  and the eviction of trusted hashes (10000 of them), are left out; a gossiped
  payload is valid; `RequestL2Range` with an open end does nothing in the client.
* `Sequencer`: one active sequencer, so blocks of others only come while it is
  stopped; execution of a job is in `EngineQueue`; times are whole units.
* `Withdrawals`: one messenger message per withdrawal, gas is enough or not (a target
  fails), the pause is the guardian's at any time; a reorganisation of L1 drops no
  transaction of these contracts; the challenger is in time; deposits are not
  modelled, and so the balance of ETH that the portal holds against them is not
  either: it always can pay.  The messenger is called with enough gas to run, and no
  message has it or the portal as its target.
* `FaultDisputeGame`: one agent, honest and in time; bonds and the factory are left
  out; a step of the VM is a function on values.  `SolverStepsAccepted` is about steps
  against answers to what the solver itself would have moved: where a teammate moved
  otherwise, the claims that a step needs may be missing, and only `RightSideWins`,
  which holds with such teammates too, says that it does no harm.
* Resets of the earlier stages happen in one step with the engine queue's.
* Components without a module are listed in `PROJECT.json` with the reason.  By lines
  most of the repository is generated bindings, end-to-end tests, chain and genesis
  tools, codecs, the MIPS emulator and RPC plumbing, which have no protocol state.

## 7. Plan

Done: `ChannelBank`, `EngineQueue`, `BatchQueue`, `ChannelManager`, `TxMgr`,
`Sequencer`, `Withdrawals`, `PayloadsQueue` and `UnsafeSync` with their proofs;
`FaultDisputeGame` with its runs.  Left, in this order:

1. Proofs: the clocks and the arithmetic of positions in `FaultDisputeGame`, as the
   first steps towards `SolverStepsAccepted`.
2. `BatchSubmitter` composing `ChannelManager` with the driver's loops: range of
   blocks to load, reorg, shutdown.
3. The challenger's coordinator; deposits through the portal; proxyd's consensus
   poller; the indexer's ETL.
