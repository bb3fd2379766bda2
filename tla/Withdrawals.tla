---------------------------- MODULE Withdrawals ----------------------------
(***************************************************************************)
(* Messages from L2 to L1: the message passer and the messenger on L2, the *)
(* proposer (bl-proposer/proposer/l2_output_submitter.go) that posts       *)
(* output roots, and on L1 the L2OutputOracle, the OptimismPortal and the  *)
(* L1CrossDomainMessenger.                                                 *)
(*                                                                         *)
(* An output root commits to the messages sent up to its L2 block, so it   *)
(* is the number of the block and that set.  Proofs of inclusion are       *)
(* membership in it.  A transaction on L1 is atomic, but the contract that *)
(* a message is for runs in the middle of it and may call the portal and   *)
(* the messenger again: the contracts that are running form a stack, each  *)
(* with the state to return to if it fails.                                *)
(*                                                                         *)
(* A reorganisation of L1 replaces blocks without transactions of these    *)
(* contracts; L2 blocks derived from them, and proposals that refer to     *)
(* them, are those it invalidates.                                         *)
(***************************************************************************)
EXTENDS Naturals, Sequences, FiniteSets, SequencesExt, FiniteSetsExt

CONSTANTS
    Messages,               \* messages that may be sent
    Direct,                 \* those not by way of the messenger, or to a target
                            \* that the messenger refuses
    Batches,                \* the sets of them that an L2 block may carry
    Value,                  \* the ETH a message carries
    None,
    SubmissionInterval,
    L2BlockTime,
    HashWindow,             \* the EVM knows the hashes of the last 256 blocks
    FinalizationPeriod,     \* FINALIZATION_PERIOD_SECONDS
    AllowNonFinalized,      \* the proposer's option
    FinalityDepth,          \* a reorganisation replaces at most this many L1 blocks
    ChallengePeriod,        \* the challenger lets a wrong output get no older
    MaxTime,                \* bound: L1 time
    MaxL2,                  \* bound: L2 blocks
    MaxReorgs,              \* bound: reorganisations of L1
    MaxFaults,              \* bound: wrong outputs by a faulty proposer
    MaxPending,             \* bound: proposals waiting for inclusion
    MaxDepth                \* bound: contracts running in one another

ASSUME BridgeAssumption ==
    /\ Direct \subseteq Messages /\ Batches \subseteq SUBSET Messages
    /\ Value \in [Messages -> Nat]
    /\ {SubmissionInterval, L2BlockTime, HashWindow, FinalizationPeriod} \subseteq Nat \ {0}
    /\ {FinalityDepth, ChallengePeriod} \subseteq Nat \ {0}
    /\ {MaxTime, MaxL2, MaxReorgs, MaxFaults, MaxPending, MaxDepth} \subseteq Nat
    /\ AllowNonFinalized \in BOOLEAN

\* A wrong output may become right, when L2 reaches its block, and wrong again
\* when that block is reorganised away: with less of a margin than this the
\* challenger may see it wrong only when it is too late.
ASSUME ChallengeMargin ==
    ChallengePeriod + MaxReorgs * (FinalityDepth - 1) <= FinalizationPeriod

VARIABLES
    now,            \* timestamp and number of the L1 block being built
    lastCall,       \* when a transaction last changed the contracts
    reorgs, faults, \* counters for the bounds
    l2,             \* L2 blocks: messages sent up to it, L1 block it is from
    next,           \* the proposer: the block number it read, or None
    pending,        \* proposals sent to L1 and not included
    outputs,        \* L2OutputOracle.l2Outputs
    paused,         \* OptimismPortal
    proven,
    finalized,
    held,           \* the messenger's balance
    failed,         \* L1CrossDomainMessenger
    successful,
    executed,       \* how often the target of a message ran to its end
    stack           \* the targets that are running, last one innermost

chains == <<now, lastCall, reorgs, l2>>
proposer == <<next, pending, faults>>
portal == <<proven, finalized>>
messenger == <<held, failed, successful, executed>>
vars == <<chains, proposer, outputs, paused, portal, messenger, stack>>

Init ==
    /\ now = 1 /\ lastCall = 0 /\ reorgs = 0 /\ faults = 0
    /\ l2 = <<>>
    /\ next = None /\ pending = {}
    /\ outputs = <<>>
    /\ paused = FALSE
    /\ proven = [m \in Messages |-> None]
    /\ finalized = {}
    /\ held = 0 /\ failed = {} /\ successful = {}
    /\ executed = [m \in Messages |-> 0]
    /\ stack = <<>>

Root(n) == [number |-> n, sent |-> l2[n].sent]
SentBy(n) == IF n = 0 THEN {} ELSE l2[n].sent
Idle == stack = <<>>

-----------------------------------------------------------------------------
(***************************************************************************)
(* The two chains.                                                         *)
(***************************************************************************)

\* An output is wrong if its root is not the one of the L2 chain.
Wrong(root) == IF root.number <= Len(l2) THEN root # Root(root.number) ELSE TRUE

\* The next L1 block.  The challenger deletes wrong outputs in time.
NewL1Block ==
    /\ Idle
    /\ now < MaxTime
    /\ \A i \in DOMAIN outputs : Wrong(outputs[i].root) => now + 1 - outputs[i].timestamp < ChallengePeriod
    /\ now' = now + 1
    /\ UNCHANGED <<lastCall, reorgs, l2, proposer, outputs, paused, portal, messenger, stack>>

\* A safe L2 block with messages passed to the L2ToL1MessagePasser, directly or
\* by L2CrossDomainMessenger.sendMessage.
InitiateWithdrawals(ms) ==
    LET n == Len(l2)
    IN  /\ Idle
        /\ n < MaxL2 /\ (n + 1) * L2BlockTime <= now
        /\ ms \cap SentBy(n) = {}
        /\ l2' = Append(l2, [sent |-> SentBy(n) \cup ms, l1 |-> now - 1])
        /\ UNCHANGED <<now, lastCall, reorgs, proposer, outputs, paused, portal, messenger, stack>>

\* The L1 blocks after t are replaced, and the L2 blocks derived from them dropped.
Reorg(t) ==
    /\ Idle
    /\ reorgs < MaxReorgs
    /\ t < now - 1 /\ lastCall <= t /\ now <= t + 1 + FinalityDepth
    /\ reorgs' = reorgs + 1
    /\ \E n \in 0..Len(l2) :
           /\ \A i \in 1..Len(l2) : l2[i].l1 <= t <=> i <= n
           /\ l2' = SubSeq(l2, 1, n)
    /\ pending' = {[root |-> p.root, l1 |-> p.l1, canonical |-> p.canonical /\ p.l1 <= t] : p \in pending}
    /\ UNCHANGED <<now, lastCall, next, faults, outputs, paused, portal, messenger, stack>>

-----------------------------------------------------------------------------
(***************************************************************************)
(* The output oracle and the proposer.                                     *)
(***************************************************************************)
LatestBlockNumber == IF outputs = <<>> THEN 0 ELSE Last(outputs).root.number
NextBlockNumber == LatestBlockNumber + SubmissionInterval

\* FetchNextOutputInfo asks the oracle for the next block number ...
ReadNextBlock ==
    /\ Idle
    /\ next = None
    /\ next' = NextBlockNumber
    /\ UNCHANGED <<chains, pending, faults, outputs, paused, portal, messenger, stack>>

\* ... and then the rollup node for its heads and the output.
FinalizedL2 == Cardinality({n \in DOMAIN l2 : l2[n].l1 + FinalityDepth < now})
ProposableHead == IF AllowNonFinalized THEN Len(l2) ELSE FinalizedL2

FetchOutput ==
    /\ Idle
    /\ next # None
    /\ next <= ProposableHead
    /\ Cardinality(pending) < MaxPending
    /\ pending' = pending \cup {[root |-> Root(next), l1 |-> now - 1, canonical |-> TRUE]}
    /\ next' = None
    /\ UNCHANGED <<chains, faults, outputs, paused, portal, messenger, stack>>

NothingToPropose ==
    /\ Idle
    /\ next # None
    /\ next > ProposableHead
    /\ next' = None
    /\ UNCHANGED <<chains, pending, faults, outputs, paused, portal, messenger, stack>>

\* Mutant: the block hash is not compared.
ProposableUnhashed(p) ==
    /\ p.root.number = NextBlockNumber
    /\ p.root.number * L2BlockTime < now
    /\ now <= p.l1 + HashWindow

\* proposeL2Output, which requires the block hash to be that of this chain.
Proposable(p) ==
    /\ p.root.number = NextBlockNumber
    /\ p.root.number * L2BlockTime < now
    /\ p.canonical /\ now <= p.l1 + HashWindow

Record(root) == outputs' = Append(outputs, [root |-> root, timestamp |-> now]) /\ lastCall' = now

\* A proposal is included, at once or long after the proposer gave up waiting;
\* it reverts if the oracle does not accept it.
IncludeProposal(p) ==
    /\ Idle
    /\ pending' = pending \ {p}
    /\ IF Proposable(p) THEN Record(p.root) ELSE UNCHANGED <<outputs, lastCall>>
    /\ UNCHANGED <<now, reorgs, l2, next, faults, paused, portal, messenger, stack>>

\* A faulty proposer posts a root that claims messages nobody sent.
ProposeWrong ==
    LET root == [number |-> NextBlockNumber, sent |-> Messages]
    IN  /\ Idle
        /\ faults < MaxFaults
        /\ faults' = faults + 1
        /\ root.number * L2BlockTime < now
        /\ Wrong(root)
        /\ Record(root)
        /\ UNCHANGED <<now, reorgs, l2, next, pending, paused, portal, messenger, stack>>

\* The challenger deletes the outputs from index i on.
DeleteL2Outputs(i) ==
    /\ Idle
    /\ i \in DOMAIN outputs
    /\ Wrong(outputs[i].root) /\ \A j \in 1..(i - 1) : ~Wrong(outputs[j].root)
    /\ now - outputs[i].timestamp < FinalizationPeriod
    /\ outputs' = SubSeq(outputs, 1, i - 1)
    /\ lastCall' = now
    /\ UNCHANGED <<now, reorgs, l2, proposer, paused, portal, messenger, stack>>

-----------------------------------------------------------------------------
(***************************************************************************)
(* The portal and the messenger.  Calls come from outside, with an empty   *)
(* stack, or from the target that is running.                              *)
(***************************************************************************)
FinalizationPeriodElapsed(t) == now > t + FinalizationPeriod

\* Mutant: the messenger does not notice that it is being re-entered.
InRelayUnnoticed == FALSE

\* l2Sender and xDomainMsgSender are set while a target runs.
InFinalize == \E i \in DOMAIN stack : stack[i].caller = "portal"
InRelay == \E i \in DOMAIN stack : stack[i].message \notin Direct

ProveWithdrawal(m, i) ==
    /\ ~paused
    /\ i \in DOMAIN outputs
    /\ m \in outputs[i].root.sent
    /\ proven[m] # None =>
           /\ proven[m].index \in DOMAIN outputs
           /\ outputs[proven[m].index].root # proven[m].root
    /\ proven' = [proven EXCEPT ![m] = [root |-> outputs[i].root, timestamp |-> now, index |-> i]]
    /\ lastCall' = now
    /\ UNCHANGED <<now, reorgs, l2, proposer, outputs, paused, finalized, messenger, stack>>

\* Mutant: the root that was proven is not compared with the oracle's.
FinalizableStale(m) ==
    /\ ~paused
    /\ ~InFinalize
    /\ proven[m] # None
    /\ FinalizationPeriodElapsed(proven[m].timestamp)
    /\ proven[m].index \in DOMAIN outputs
    /\ FinalizationPeriodElapsed(outputs[proven[m].index].timestamp)
    /\ m \notin finalized

Finalizable(m) ==
    /\ ~paused
    /\ ~InFinalize
    /\ proven[m] # None
    /\ FinalizationPeriodElapsed(proven[m].timestamp)
    /\ proven[m].index \in DOMAIN outputs
    /\ outputs[proven[m].index].root = proven[m].root
    /\ FinalizationPeriodElapsed(outputs[proven[m].index].timestamp)
    /\ m \notin finalized

\* The state the contracts return to when the target of m fails.
Frame(m, caller, h, fin) ==
    [message |-> m, caller |-> caller,
     saved |-> [proven |-> proven, finalized |-> fin, held |-> h, failed |-> failed,
                successful |-> successful, executed |-> executed]]

\* Mutant: a message that the portal has not relayed can be replayed.
RelayRevertsIfRelayed(m, caller) == m \in successful

\* relayMessage refuses the call.
RelayReverts(m, caller) ==
    \/ caller = "portal" /\ m \in failed
    \/ caller # "portal" /\ m \notin failed
    \/ m \in successful

\* relayMessage by the portal, with the value, or by anyone as a replay, the
\* contracts having finalized fin and the messenger holding h.  It may lack gas;
\* then, without the value, and inside another relay, the message can be replayed later.
RelayMessage(m, caller, fin, h) ==
    /\ ~RelayReverts(m, caller)
    /\ finalized' = fin
    /\ lastCall' = now
    /\ \/ /\ failed' = failed \cup {m}
          /\ held' = h
          /\ UNCHANGED stack
       \/ /\ ~InRelay
          /\ Value[m] <= h
          /\ Len(stack) < MaxDepth
          /\ stack' = Append(stack, Frame(m, caller, h, fin))
          /\ held' = h - Value[m]
          /\ UNCHANGED failed
    /\ UNCHANGED <<now, reorgs, l2, proposer, outputs, paused, proven, successful, executed>>

\* finalizeWithdrawalTransaction: the withdrawal is finalized whether or not the
\* call it makes succeeds.  The messenger never refuses it (FirstRelayAccepted).
FinalizeByMessenger(m) ==
    /\ Finalizable(m)
    /\ m \notin Direct
    /\ RelayMessage(m, "portal", finalized \cup {m}, held + Value[m])

FinalizeDirect(m) ==
    /\ Finalizable(m)
    /\ m \in Direct
    /\ Len(stack) < MaxDepth
    /\ finalized' = finalized \cup {m}
    /\ stack' = Append(stack, Frame(m, "portal", held, finalized \cup {m}))
    /\ lastCall' = now
    /\ UNCHANGED <<now, reorgs, l2, proposer, outputs, paused, proven, messenger>>

Replay(m) == RelayMessage(m, "anyone", finalized, held)

\* The innermost target ends: well, or with all it did undone.
TargetReturns ==
    LET f == Last(stack)
        m == f.message
    IN  /\ ~Idle
        /\ stack' = Front(stack)
        /\ executed' = [executed EXCEPT ![m] = @ + 1]
        /\ successful' = successful \cup ({m} \ Direct)
        /\ UNCHANGED <<chains, proposer, outputs, paused, portal, held, failed>>

\* Mutant: a message that fails is not kept for a replay.
TargetFailsForgotten ==
    LET f == Last(stack)
    IN  /\ ~Idle
        /\ stack' = Front(stack)
        /\ proven' = f.saved.proven
        /\ finalized' = f.saved.finalized
        /\ held' = f.saved.held
        /\ failed' = f.saved.failed
        /\ successful' = f.saved.successful
        /\ executed' = f.saved.executed
        /\ UNCHANGED <<chains, proposer, outputs, paused>>

TargetFails ==
    LET f == Last(stack)
        m == f.message
    IN  /\ ~Idle
        /\ stack' = Front(stack)
        /\ proven' = f.saved.proven
        /\ finalized' = f.saved.finalized
        /\ held' = f.saved.held
        /\ failed' = f.saved.failed \cup ({m} \ Direct)
        /\ successful' = f.saved.successful
        /\ executed' = f.saved.executed
        /\ UNCHANGED <<chains, proposer, outputs, paused>>

\* The guardian pauses and unpauses withdrawals.
SetPaused ==
    /\ Idle
    /\ paused' = ~paused
    /\ UNCHANGED <<chains, proposer, outputs, portal, messenger, stack>>

Next ==
    \/ NewL1Block
    \/ \E ms \in Batches : InitiateWithdrawals(ms)
    \/ \E t \in 0..MaxTime : Reorg(t)
    \/ ReadNextBlock \/ FetchOutput \/ NothingToPropose
    \/ \E p \in pending : IncludeProposal(p)
    \/ ProposeWrong
    \/ \E i \in DOMAIN outputs : DeleteL2Outputs(i)
    \/ \E m \in Messages : \/ \E i \in DOMAIN outputs : ProveWithdrawal(m, i)
                           \/ FinalizeByMessenger(m)
                           \/ FinalizeDirect(m)
                           \/ Replay(m)
    \/ TargetReturns \/ TargetFails
    \/ SetPaused

Spec == Init /\ [][Next]_vars

-----------------------------------------------------------------------------
SumOf(S) == SumFunctionOnSet(Value, S)

\* A withdrawal that the portal pays out was sent on L2, although a faulty
\* proposer may post roots that claim it was, as long as the challenger deletes
\* them within the finalization period.
FinalizedWasSent == finalized \subseteq SentBy(Len(l2))

\* The proposer's outputs are those of the L2 chain, although L1 may be
\* reorganised between reading an output and its inclusion.
ProposalsCorrect == faults = 0 => \A i \in DOMAIN outputs : ~Wrong(outputs[i].root)

\* The target of a message runs to its end at most once, by the portal or by
\* replays, whatever it calls meanwhile.
ExecutedOnce == \A m \in Messages : executed[m] <= 1

\* Outside of transactions, a message by way of the messenger that the portal
\* has finalized has succeeded or can be replayed: it is never lost.
NoMessageLost ==
    Idle => finalized \ Direct \subseteq failed \cup successful

\* Outside of transactions, the messenger holds the value of exactly the
\* messages that failed and did not succeed since, so every replay can be paid.
MessengerSolvent == Idle => held = SumOf(failed \ successful)
=============================================================================
