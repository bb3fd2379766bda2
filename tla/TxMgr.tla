------------------------------- MODULE TxMgr -------------------------------
(***************************************************************************)
(* The transaction manager of bl-service (txmgr): SimpleTxManager with its *)
(* SendState, and the Queue through which the batcher sends.  A send signs *)
(* one transaction with the next nonce, publishes it, publishes versions   *)
(* of it with higher fees while none is mined, polls the receipts of the   *)
(* versions that were accepted, and ends with a receipt or an error.       *)
(*                                                                         *)
(* Sends are goroutines and their pollers too; a step is what happens      *)
(* between two RPC calls or under one lock.  The account's transactions    *)
(* on L1 are a sequence by nonce; instead of heights a transaction has its *)
(* number of confirmations, so that L1 can grow for ever.                  *)
(***************************************************************************)
EXTENDS Integers, Sequences, FiniteSets

CONSTANTS
    Sends,                      \* the candidates that the queue is given
    MaxPending,                 \* maxPending of the queue
    MaxVersions,                \* versions of each send's transaction within the fee limit
    NumConfirmations,
    SafeAbortNonceTooLowCount,
    NonceSpace,                 \* number of nonces, 2^64
    ReorgDepth, MaxReorgs,      \* depth and number of the reorganisations of L1
    NoNonce,                    \* nil
    LostReplies                 \* a transaction may be accepted and the reply lost

ASSUME TxMgrAssumption ==
    /\ MaxPending \in Nat \ {0} /\ MaxVersions \in [Sends -> Nat \ {0}]
    /\ NumConfirmations \in Nat \ {0} /\ SafeAbortNonceTooLowCount \in Nat \ {0}
    /\ NonceSpace \in Nat \ {0} /\ NoNonce \notin Nat
    /\ ReorgDepth \in 0..(NumConfirmations - 1) /\ MaxReorgs \in Nat
    /\ LostReplies \in BOOLEAN

Versions == UNION {1..MaxVersions[s] : s \in Sends}

(* A poller: not started, between two queries, or holding a receipt that   *)
(* had 1.. confirmations; old if L1 has changed since.                     *)
NoPoller == [at |-> -1, old |-> FALSE]
IdlePoller == [at |-> 0, old |-> FALSE]

VARIABLES
    nonce,       \* m.nonce
    pc,          \* where each send is
    nonceOf,     \* the nonce signed by each send
    version,     \* its latest version
    minedTxs, nonceTooLowCount, published,   \* SendState; published: successFullPublishCount > 0
    poller,      \* waitMined of each version
    receiptChan, \* the version whose receipt is in the channel, 0 if none
    result,      \* version whose receipt was returned, 0 for an error
    group,       \* sends given to the queue's current group
    groupDone,   \* the group's context is cancelled
    chain,       \* L1: transactions [send, version, confs] by nonce
    mempool,     \* L1: transactions [send, version] that wait
    reorgs       \* number of reorganisations so far

sendState == <<minedTxs, nonceTooLowCount, published>>
queue == <<group, groupDone>>
l1 == <<chain, mempool, reorgs>>
vars == <<nonce, pc, nonceOf, version, sendState, poller, receiptChan, result, queue, l1>>

-----------------------------------------------------------------------------
(* L1                                                                      *)

Tx(s) == [send |-> s, version |-> version[s]]

WithNonce(n) == {tx \in mempool : nonceOf[tx.send] = n}

(* Where version v of s is on L1. *)
MinedAt(s, v) == {i \in DOMAIN chain : chain[i].send = s /\ chain[i].version = v}

(* A query lasts less than two changes of L1 (NetworkTimeout). *)
QueriesRecent == \A s \in Sends, v \in Versions : ~poller[s][v].old

Aged(step) ==
    [s \in Sends |-> [v \in Versions |->
        IF poller[s][v].at > 0
        THEN [at |-> IF poller[s][v].at < NumConfirmations THEN poller[s][v].at + step
                                                         ELSE poller[s][v].at,
              old |-> TRUE]
        ELSE poller[s][v]]]

Deeper ==
    [i \in DOMAIN chain |->
        IF chain[i].confs < NumConfirmations THEN [chain[i] EXCEPT !.confs = @ + 1] ELSE chain[i]]

(* A block without, or with, the account's next transaction. *)
Mine ==
    /\ QueriesRecent
    /\ \/ /\ \E i \in DOMAIN chain : chain[i].confs < NumConfirmations
          /\ chain' = Deeper
          /\ UNCHANGED mempool
       \/ \E tx \in WithNonce(Len(chain)) :
             /\ chain' = Append(Deeper, [send |-> tx.send, version |-> tx.version, confs |-> 1])
             /\ mempool' = mempool \ {tx}
    /\ poller' = Aged(1)
    /\ UNCHANGED <<nonce, pc, nonceOf, version, sendState, receiptChan, result, queue, reorgs>>

(* The last d blocks are replaced by as many empty ones; the transactions  *)
(* in them wait again.                                                     *)
Reorg(d) ==
    LET kept == {i \in DOMAIN chain : chain[i].confs > d}
        lost == {[send |-> chain[i].send, version |-> chain[i].version] : i \in DOMAIN chain \ kept}
    IN  /\ QueriesRecent
        /\ reorgs < MaxReorgs /\ lost # {}
        /\ reorgs' = reorgs + 1
        /\ chain' = SubSeq(chain, 1, Cardinality(kept))
        /\ mempool' = mempool \cup lost
        /\ poller' = Aged(0)
        /\ UNCHANGED <<nonce, pc, nonceOf, version, sendState, receiptChan, result, queue>>

-----------------------------------------------------------------------------
(* Queue                                                                   *)

Running(s) == pc[s] \notin {"idle", "queued", "done"}

(* Queue.Send of a new candidate: a cancelled group is waited for and      *)
(* replaced.  The caller is one goroutine, blocked until the group has     *)
(* room for the send.                                                      *)
QueueSend(s) ==
    /\ pc[s] = "idle" /\ \A t \in Sends : pc[t] # "queued"
    /\ IF groupDone
       THEN (\A t \in group : pc[t] = "done") /\ group' = {s}
       ELSE group' = group \cup {s}
    /\ groupDone' = FALSE
    /\ pc' = [pc EXCEPT ![s] = "queued"]
    /\ UNCHANGED <<nonce, nonceOf, version, sendState, poller, receiptChan, result, l1>>

(* group.Go: the goroutine of the send starts. *)
Start(s) ==
    /\ pc[s] = "queued"
    /\ Cardinality({t \in group : Running(t)}) < MaxPending
    /\ pc' = [pc EXCEPT ![s] = "craft"]
    /\ UNCHANGED <<nonce, nonceOf, version, sendState, poller, receiptChan, result, queue, l1>>

(* The batcher drains: Queue.Wait, which also cancels the group. *)
QueueWait ==
    /\ group # {} /\ ~groupDone /\ \A t \in group : pc[t] = "done"
    /\ groupDone' = TRUE
    /\ UNCHANGED <<nonce, pc, nonceOf, version, sendState, poller, receiptChan, result, group, l1>>

(* The batcher reads the receipt or the error of s; an error cancels the   *)
(* group.                                                                  *)
Deliver(s) ==
    /\ pc[s] = "deliver"
    /\ pc' = [pc EXCEPT ![s] = "done"]
    /\ groupDone' = (groupDone \/ result[s] = 0)
    /\ UNCHANGED <<nonce, nonceOf, version, sendState, poller, receiptChan, result, group, l1>>

-----------------------------------------------------------------------------
(* SimpleTxManager.send                                                    *)

CtxDone(s) == groupDone

(* The next nonce: one more than the last, or read from the latest block. *)
NextNonce == IF nonce = NoNonce THEN Len(chain) ELSE (nonce + 1) % NonceSpace

(* craftTx, once the fees are read: signWithNextNonce, if the nonce can be *)
(* read.  A failed signature leaves the nonce to the next call.            *)
Craft(s) ==
    LET n == NextNonce
    IN  /\ pc[s] = "craft"
        /\ nonce = NoNonce => ~CtxDone(s)
        /\ \/ /\ nonce' = n
              /\ nonceOf' = [nonceOf EXCEPT ![s] = n]
              /\ version' = [version EXCEPT ![s] = 1]
              /\ pc' = [pc EXCEPT ![s] = "publish"]
           \/ /\ nonce' = (n - 1) % NonceSpace
              /\ UNCHANGED <<pc, nonceOf, version>>
        /\ UNCHANGED <<sendState, poller, receiptChan, result, queue, l1>>

(* The transaction could not be created in all attempts. *)
CraftFails(s) ==
    /\ pc[s] = "craft"
    /\ pc' = [pc EXCEPT ![s] = "failed"]
    /\ UNCHANGED <<nonce, nonceOf, version, sendState, poller, receiptChan, result, queue, l1>>

(* Mutant of ResetNonce: the nonce is kept. *)
ResetNonceKeeps(s) ==
    /\ pc[s] = "failed"
    /\ pc' = [pc EXCEPT ![s] = "deliver"]
    /\ UNCHANGED <<nonce, nonceOf, version, sendState, poller, receiptChan, result, queue, l1>>

(* Send returns an error: resetNonce. *)
ResetNonce(s) ==
    /\ pc[s] = "failed"
    /\ nonce' = NoNonce
    /\ pc' = [pc EXCEPT ![s] = "deliver"]
    /\ UNCHANGED <<nonceOf, version, sendState, poller, receiptChan, result, queue, l1>>

-----------------------------------------------------------------------------
(* publishTx                                                               *)

IsWaitingForConfirmation(s) == minedTxs[s] # {}

(* increaseGasPrice: a new version, the old one if signing fails, or none  *)
(* if the fees cannot be read or are at their limit.                       *)
IncreaseGasPrice(s) ==
    /\ pc[s] = "bump"
    /\ \/ /\ version[s] < MaxVersions[s] /\ ~CtxDone(s)
          /\ version' = [version EXCEPT ![s] = @ + 1]
          /\ pc' = [pc EXCEPT ![s] = "publish"]
       \/ /\ version[s] < MaxVersions[s] /\ ~CtxDone(s)
          /\ UNCHANGED version
          /\ pc' = [pc EXCEPT ![s] = "publish"]
       \/ /\ UNCHANGED version
          /\ pc' = [pc EXCEPT ![s] = "loop"]
    /\ UNCHANGED <<nonce, nonceOf, sendState, poller, receiptChan, result, queue, l1>>

(* The last look at the pollers before the transaction goes out. *)
CheckWaiting(s) ==
    /\ pc[s] = "publish"
    /\ pc' = [pc EXCEPT ![s] = IF IsWaitingForConfirmation(s) THEN "loop" ELSE "sending"]
    /\ UNCHANGED <<nonce, nonceOf, version, sendState, poller, receiptChan, result, queue, l1>>

(* L1 can take the transaction, in place of another of the same nonce. *)
Acceptable(s) == nonceOf[s] >= Len(chain) /\ Tx(s) \notin mempool

AcceptedPool(s) == (mempool \ WithNonce(nonceOf[s])) \cup {Tx(s)}

(* The transaction is accepted: from now on its receipt is polled. *)
SendAccepted(s) ==
    /\ pc[s] = "sending" /\ Acceptable(s) /\ ~CtxDone(s)
    /\ mempool' = AcceptedPool(s)
    /\ published' = [published EXCEPT ![s] = TRUE]
    /\ poller' = [poller EXCEPT ![s][version[s]] = IdlePoller]
    /\ pc' = [pc EXCEPT ![s] = "loop"]
    /\ UNCHANGED <<nonce, nonceOf, version, minedTxs, nonceTooLowCount, receiptChan, result,
                   queue, chain, reorgs>>

(* It is not: the nonce is used, the transaction is known, its fees are    *)
(* too low and are raised at once, or the call fails.                      *)
SendRefused(s) ==
    /\ pc[s] = "sending"
    /\ \/ /\ nonceOf[s] < Len(chain) /\ ~CtxDone(s)
          /\ nonceTooLowCount' = [nonceTooLowCount EXCEPT
                ![s] = IF @ < SafeAbortNonceTooLowCount THEN @ + 1 ELSE @]
          /\ pc' = [pc EXCEPT ![s] = "loop"]
          /\ UNCHANGED mempool
       \/ /\ Acceptable(s) /\ ~CtxDone(s)
          /\ pc' = [pc EXCEPT ![s] = "bump"]
          /\ UNCHANGED <<nonceTooLowCount, mempool>>
       \/ /\ pc' = [pc EXCEPT ![s] = "loop"]
          /\ mempool' \in IF LostReplies /\ Acceptable(s) THEN {mempool, AcceptedPool(s)} ELSE {mempool}
          /\ UNCHANGED nonceTooLowCount
    /\ UNCHANGED <<nonce, nonceOf, version, minedTxs, published, poller, receiptChan, result,
                   queue, chain, reorgs>>

-----------------------------------------------------------------------------
(* The loop of sendTx                                                      *)

ShouldAbortImmediately(s) ==
    /\ minedTxs[s] = {}
    /\ nonceTooLowCount[s] >= SafeAbortNonceTooLowCount

(* The resubmission ticker. *)
Tick(s) ==
    /\ pc[s] = "loop" /\ ~IsWaitingForConfirmation(s) /\ ~ShouldAbortImmediately(s)
    /\ pc' = [pc EXCEPT ![s] = "bump"]
    /\ UNCHANGED <<nonce, nonceOf, version, sendState, poller, receiptChan, result, queue, l1>>

(* sendTx returns; its pollers end first. *)
Return(s, v) ==
    /\ pc[s] = "loop"
    /\ result' = [result EXCEPT ![s] = v]
    /\ poller' = [poller EXCEPT ![s] = [w \in Versions |-> NoPoller]]
    /\ pc' = [pc EXCEPT ![s] = IF v = 0 THEN "failed" ELSE "deliver"]
    /\ UNCHANGED <<nonce, nonceOf, version, sendState, receiptChan, queue, l1>>

(* Mutant of Abort: a send is not given up for not being published. *)
AbortIfNonceUsed(s) ==
    /\ ShouldAbortImmediately(s)
    /\ Return(s, 0)

(* The ticker finds that the send makes no progress: its nonce is used, or *)
(* nothing was accepted within TxNotInMempoolTimeout.                      *)
Abort(s) ==
    /\ minedTxs[s] = {}
    /\ ShouldAbortImmediately(s) \/ ~published[s]
    /\ Return(s, 0)

Cancelled(s) == CtxDone(s) /\ Return(s, 0)

Confirmed(s) == receiptChan[s] # 0 /\ Return(s, receiptChan[s])

-----------------------------------------------------------------------------
(* waitMined: queryReceipt                                                 *)

(* The receipt of version v: TxMined or TxNotMined. *)
QueryReceipt(s, v) ==
    /\ poller[s][v] = IdlePoller /\ ~CtxDone(s)
    /\ IF MinedAt(s, v) # {}
       THEN /\ minedTxs' = [minedTxs EXCEPT ![s] = @ \cup {v}]
            /\ \E i \in MinedAt(s, v) :
                  poller' = [poller EXCEPT ![s][v] = [at |-> chain[i].confs, old |-> FALSE]]
            /\ UNCHANGED nonceTooLowCount
       ELSE /\ minedTxs' = [minedTxs EXCEPT ![s] = @ \ {v}]
            /\ nonceTooLowCount' = [nonceTooLowCount EXCEPT
                  ![s] = IF minedTxs[s] = {v} THEN 0 ELSE @]
            /\ UNCHANGED poller
    /\ UNCHANGED <<nonce, pc, nonceOf, version, published, receiptChan, result, queue, l1>>

(* Mutant of Deep: one confirmation less. *)
DeepEarly(confs) == confs >= NumConfirmations - 1

(* txHeight + NumConfirmations <= tipHeight + 1, with confs the number of  *)
(* blocks from txHeight to tipHeight.                                      *)
Deep(confs) == confs >= NumConfirmations

(* The height of L1, and with it whether the receipt is deep enough; the   *)
(* first receipt that is goes to the loop and ends its poller.             *)
CheckConfirmations(s, v) ==
    /\ poller[s][v].at > 0
    /\ \/ /\ Deep(poller[s][v].at) /\ ~CtxDone(s)
          /\ receiptChan' = [receiptChan EXCEPT ![s] = IF @ = 0 THEN v ELSE @]
          /\ poller' = [poller EXCEPT ![s][v] = NoPoller]
       \/ /\ poller' = [poller EXCEPT ![s][v] = IdlePoller]
          /\ UNCHANGED receiptChan
    /\ UNCHANGED <<nonce, pc, nonceOf, version, sendState, result, queue, l1>>

-----------------------------------------------------------------------------

Init ==
    /\ nonce = NoNonce
    /\ pc = [s \in Sends |-> "idle"]
    /\ nonceOf = [s \in Sends |-> NoNonce] /\ version = [s \in Sends |-> 0]
    /\ minedTxs = [s \in Sends |-> {}] /\ nonceTooLowCount = [s \in Sends |-> 0]
    /\ published = [s \in Sends |-> FALSE]
    /\ poller = [s \in Sends |-> [v \in Versions |-> NoPoller]]
    /\ receiptChan = [s \in Sends |-> 0] /\ result = [s \in Sends |-> 0]
    /\ group = {} /\ groupDone = TRUE
    /\ chain = <<>> /\ mempool = {} /\ reorgs = 0

Step(s) ==
    \/ Start(s) \/ Craft(s) \/ CraftFails(s) \/ ResetNonce(s) \/ Deliver(s)
    \/ IncreaseGasPrice(s) \/ CheckWaiting(s) \/ SendAccepted(s) \/ SendRefused(s)
    \/ Tick(s) \/ Abort(s) \/ Cancelled(s) \/ Confirmed(s)
    \/ \E v \in Versions : QueryReceipt(s, v) \/ CheckConfirmations(s, v)

Next ==
    \/ \E s \in Sends : QueueSend(s) \/ Step(s)
    \/ QueueWait
    \/ Mine \/ \E d \in 1..ReorgDepth : Reorg(d)

Spec == Init /\ [][Next]_vars

(* The next step of the goroutine of s, outside its select. *)
Proceed(s) ==
    \/ Start(s) \/ ResetNonce(s) \/ Deliver(s)
    \/ Craft(s) /\ pc'[s] = "publish"
    \/ CraftFails(s) /\ CtxDone(s)
    \/ IncreaseGasPrice(s) \/ CheckWaiting(s) \/ SendRefused(s) \/ Tick(s)

(* Every goroutine proceeds; a select does not pass over a ready case for  *)
(* ever; a signature, a read of L1 and the acceptance of a transaction do  *)
(* not fail for ever; TxNotInMempoolTimeout passes; L1 includes a          *)
(* transaction that waits and grows.                                       *)
Fairness ==
    /\ \A s \in Sends :
          /\ WF_vars(Proceed(s)) /\ SF_vars(SendAccepted(s)) /\ SF_vars(Abort(s) \/ Cancelled(s) \/ Confirmed(s))
          /\ \A v \in 1..MaxVersions[s] :
                /\ WF_vars(QueryReceipt(s, v) \/ CheckConfirmations(s, v))
                /\ SF_vars(CheckConfirmations(s, v) /\ receiptChan'[s] # 0)
    /\ SF_vars(Mine /\ mempool' = mempool) /\ SF_vars(Mine /\ mempool' # mempool)

FairSpec == Spec /\ Fairness

-----------------------------------------------------------------------------
(* Properties                                                              *)

Live(s) == pc[s] \in {"publish", "sending", "bump", "loop"}

(* No send waits behind a missing nonce: every nonce from the next one of  *)
(* the account up to that of a live send waits on L1 or is of a send that  *)
(* has not been delivered, unless the group is being cancelled.            *)
NoNonceGap ==
    ~groupDone =>
        \A s \in group : Live(s) =>
            \A n \in Len(chain)..(nonceOf[s] - 1) :
                \/ WithNonce(n) # {}
                \/ \E t \in group : nonceOf[t] = n /\ pc[t] # "done"

(* A receipt that is returned is of a transaction that is on L1, with the  *)
(* confirmations asked for, although receipt and height are read one after *)
(* the other.                                                              *)
ReceiptConfirmed ==
    \A s \in Sends : result[s] # 0 =>
        \E i \in MinedAt(s, result[s]) : chain[i].confs >= NumConfirmations

(* L1 has a version of the transaction of s whose reply was lost. *)
Unpolled(s) ==
    \E tx \in mempool \cup {[send |-> chain[i].send, version |-> chain[i].version] : i \in DOMAIN chain} :
        tx.send = s /\ poller[s][tx.version] = NoPoller

(* Every send that starts ends, with a receipt or an error: not one stays  *)
(* with a transaction that was replaced, mined and reorganised away, or    *)
(* behind a nonce that no transaction has.  Only one with a version that   *)
(* L1 took and that is not polled, the reply being lost, may stay.         *)
EverySendEnds == <>[](\A s \in Sends : Running(s) => Unpolled(s))
=============================================================================
