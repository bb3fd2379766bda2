----------------------------- MODULE TxMgrProofs -----------------------------
(***************************************************************************)
(* Proofs about TxMgr, for any sends and fee limits, any number of         *)
(* confirmations above the depth of the reorganisations, and any number of *)
(* those.                                                                  *)
(***************************************************************************)
EXTENDS TxMgr, FiniteSetTheorems, SequenceTheorems, TLAPS

-----------------------------------------------------------------------------
(* The inductive invariant                                                 *)

Phases == {"idle", "queued", "craft", "publish", "sending", "bump", "loop", "failed", "deliver",
           "done"}

Txs == [send : Sends, version : Nat]

Mined == [send : Sends, version : Nat, confs : 1..NumConfirmations]

Pollers == [at : Int, old : BOOLEAN]

SendsTyped ==
    /\ nonce \in Nat \cup {NoNonce} /\ pc \in [Sends -> Phases]
    /\ nonceOf \in [Sends -> Nat \cup {NoNonce}] /\ version \in [Sends -> Nat]
    /\ receiptChan \in [Sends -> Nat] /\ result \in [Sends -> Nat]
    /\ group \subseteq Sends /\ groupDone \in BOOLEAN

L1Typed ==
    /\ chain \in Seq(Mined) /\ mempool \subseteq Txs
    /\ poller \in [Sends -> [Versions -> Pollers]]

(* An earlier transaction has as many confirmations as a later one; the    *)
(* transaction with the nonce n is the n + 1st.                            *)
ChainInv ==
    /\ \A i, j \in 1..Len(chain) : i <= j => chain[j].confs <= chain[i].confs
    /\ \A i \in 1..Len(chain) : nonceOf[chain[i].send] = i - 1

(* A send has its nonce for good before L1 has a transaction of it. *)
Crafted(s) == pc[s] \notin {"idle", "queued", "craft"}

(* Who has a nonce, who is in the group, and who has no result. *)
PhaseInv ==
    /\ \A tx \in mempool : Crafted(tx.send)
    /\ \A i \in 1..Len(chain) : Crafted(chain[i].send)
    /\ \A s \in Sends :
          /\ Live(s) => nonceOf[s] \in Nat
          /\ pc[s] \notin {"idle", "done"} => s \in group
          /\ pc[s] \notin {"deliver", "done"} => result[s] = 0

(* Version v of s is on L1 with the confirmations asked for. *)
Final(s, v) ==
    \E i \in 1..Len(chain) :
        chain[i].send = s /\ chain[i].version = v /\ chain[i].confs >= NumConfirmations

(* A receipt that a poller holds has at least the confirmations it was     *)
(* read with, until L1 changes; it is deep only if it is for good.         *)
PollerInv ==
    \A s \in Sends, v \in Versions :
        poller[s][v].at > 0 =>
            /\ ~poller[s][v].old =>
                  \E i \in 1..Len(chain) :
                      chain[i].send = s /\ chain[i].version = v /\ poller[s][v].at <= chain[i].confs
            /\ poller[s][v].at >= NumConfirmations => Final(s, v)

ReceiptInv ==
    \A s \in Sends :
        /\ receiptChan[s] # 0 => Final(s, receiptChan[s])
        /\ result[s] # 0 => Final(s, result[s])

(* L1 has a transaction with the nonce n, which a reorganisation does not  *)
(* change.                                                                 *)
OnL1(n) == n < Len(chain) \/ WithNonce(n) # {}

(* A send that will reset the nonce if its transaction is not mined. *)
Holds(s, n) == nonceOf[s] = n /\ (Live(s) \/ pc[s] = "failed")

(* Every nonce below the next one is taken: on L1, or by a send that will  *)
(* reset the nonce if it fails.                                            *)
NonceInv ==
    nonce # NoNonce =>
        \A n \in 0..(((nonce + 1) % NonceSpace) - 1) : OnL1(n) \/ \E t \in group : Holds(t, n)

(* The same for the nonces below that of a live send; a send that has      *)
(* failed cancels the group when it is delivered.                          *)
GapInv ==
    ~groupDone =>
        \A s \in group : Live(s) =>
            \A n \in 0..(nonceOf[s] - 1) :
                \/ OnL1(n)
                \/ \E t \in group : Holds(t, n)
                \/ \E t \in group : nonceOf[t] = n /\ pc[t] = "deliver" /\ result[t] = 0

IInv ==
    /\ SendsTyped /\ L1Typed /\ ChainInv /\ PhaseInv
    /\ PollerInv /\ ReceiptInv /\ NonceInv /\ GapInv

-----------------------------------------------------------------------------
(* Arithmetic and sequences                                                *)

LEMMA NextNonceFacts ==
    ASSUME NEW k \in Nat
    PROVE  /\ (k + 1) % NonceSpace \in Nat /\ (k + 1) % NonceSpace <= k + 1
           /\ (k - 1) % NonceSpace \in Nat
           /\ (((k - 1) % NonceSpace) + 1) % NonceSpace \in Nat
           /\ (((k - 1) % NonceSpace) + 1) % NonceSpace <= k
<1>1. NonceSpace \in Nat \ {0}
  BY TxMgrAssumption
<1>2. \A i \in Int : i % NonceSpace \in Nat
  BY <1>1
<1>3. (k + 1) % NonceSpace <= k + 1
  BY <1>1
<1>4. (((k - 1) % NonceSpace) + 1) % NonceSpace <= k
  BY <1>1
<1> QED BY <1>2, <1>3, <1>4

LEMMA PrefixFacts ==
    ASSUME NEW S, NEW s \in Seq(S), NEW n \in 0..Len(s)
    PROVE  /\ SubSeq(s, 1, n) \in Seq(S)
           /\ Len(SubSeq(s, 1, n)) = n
           /\ \A i \in 1..n : SubSeq(s, 1, n)[i] = s[i]
<1>1. Len(s) \in Nat
  BY LenProperties
<1>2. \A i \in 1..n : s[i] \in S
  BY <1>1, ElementOfSeq
<1>3. /\ SubSeq(s, 1, n) \in Seq(S)
      /\ Len(SubSeq(s, 1, n)) = IF 1 <= n THEN n - 1 + 1 ELSE 0
      /\ \A i \in 1..(n - 1 + 1) : SubSeq(s, 1, n)[i] = s[1 + i - 1]
  BY <1>1, <1>2, SubSeqProperties
<1> QED BY <1>1, <1>3

LEMMA ChainFacts ==
    ASSUME L1Typed
    PROVE  /\ Len(chain) \in Nat /\ DOMAIN chain = 1..Len(chain)
           /\ \A i \in 1..Len(chain) : chain[i] \in Mined
           /\ NumConfirmations \in Nat \ {0}
  BY TxMgrAssumption, LenProperties, ElementOfSeq DEF L1Typed

-----------------------------------------------------------------------------
(* Nonces over the steps of the sends                                      *)

(* A step that keeps what is on L1 and the sends that hold nonces, unless  *)
(* the nonce is reset; and the failures that are to be delivered, unless   *)
(* the group is cancelled.                                                 *)
LEMMA NoncesKept ==
    ASSUME IInv, nonceOf' = nonceOf, nonce' = nonce \/ nonce' = NoNonce,
           groupDone => groupDone', group \subseteq group',
           \A n \in Nat : OnL1(n) => OnL1(n)',
           \A t \in group, n \in Nat : Holds(t, n) =>
               \/ OnL1(n)' \/ Holds(t, n)'
               \/ nonce' = NoNonce /\ pc'[t] = "deliver" /\ result'[t] = 0,
           groupDone' \/ \A t \in group : pc[t] = "deliver" /\ result[t] = 0 =>
                             pc'[t] = "deliver" /\ result'[t] = 0,
           \A s \in group' : Live(s)' => s \in group /\ Live(s)
    PROVE  NonceInv' /\ GapInv'
<1>1. NonceInv'
  <2> SUFFICES ASSUME nonce' # NoNonce, NEW n \in 0..(((nonce' + 1) % NonceSpace) - 1)
               PROVE  OnL1(n)' \/ \E t \in group' : Holds(t, n)'
    BY DEF NonceInv
  <2>1. nonce' = nonce /\ nonce \in Nat
    BY DEF IInv, SendsTyped
  <2>2. (nonce + 1) % NonceSpace \in Nat
    BY <2>1, NextNonceFacts
  <2>3. n \in Nat
    BY <2>1, <2>2
  <2>4. OnL1(n) \/ \E t \in group : Holds(t, n)
    BY <2>1 DEF IInv, NonceInv
  <2> QED BY <2>3, <2>4
<1>2. GapInv'
  <2> SUFFICES ASSUME ~groupDone', NEW s \in group', Live(s)', NEW n \in 0..(nonceOf'[s] - 1)
               PROVE  \/ OnL1(n)'
                      \/ \E t \in group' : Holds(t, n)'
                      \/ \E t \in group' : nonceOf'[t] = n /\ pc'[t] = "deliver" /\ result'[t] = 0
    BY DEF GapInv
  <2>1. s \in group /\ Live(s) /\ ~groupDone /\ nonceOf'[s] = nonceOf[s] /\ s \in Sends
    BY DEF IInv, SendsTyped
  <2>2. nonceOf[s] \in Nat
    BY <2>1 DEF IInv, PhaseInv
  <2>3. n \in Nat /\ n \in 0..(nonceOf[s] - 1)
    BY <2>1, <2>2
  <2>4. \/ OnL1(n) \/ \E t \in group : Holds(t, n)
        \/ \E t \in group : nonceOf[t] = n /\ pc[t] = "deliver" /\ result[t] = 0
    BY <2>1, <2>3 DEF IInv, GapInv
  <2>5. CASE OnL1(n)
    BY <2>3, <2>5
  <2>6. CASE \E t \in group : Holds(t, n)
    <3>1. PICK t \in group : Holds(t, n)
      BY <2>6
    <3>2. nonceOf'[t] = n
      BY <3>1 DEF Holds
    <3> QED BY <2>3, <3>1, <3>2
  <2>7. CASE \E t \in group : nonceOf[t] = n /\ pc[t] = "deliver" /\ result[t] = 0
    BY <2>7
  <2> QED BY <2>4, <2>5, <2>6, <2>7
<1> QED BY <1>1, <1>2

(* Steps of one send that publish, or wait, or fail before they have a     *)
(* nonce.                                                                  *)
LEMMA PlainStep ==
    ASSUME IInv, NEW s \in Sends, NEW p \in Phases, pc' = [pc EXCEPT ![s] = p],
           \/ pc[s] = "queued" /\ p = "craft"
           \/ pc[s] = "craft" /\ p = "failed"
           \/ Live(s) /\ p \in {"publish", "sending", "bump", "loop"},
           UNCHANGED <<nonce, nonceOf, receiptChan, result, group, groupDone, chain>>,
           version' \in [Sends -> Nat], L1Typed', PollerInv',
           \A tx \in mempool' : tx \in mempool \/ (Live(s) /\ tx.send = s),
           \A n \in Nat : OnL1(n) => OnL1(n)'
    PROVE  IInv'
<1>1. SendsTyped'
  BY DEF IInv, SendsTyped
<1>2. ChainInv'
  BY DEF IInv, ChainInv
<1>3. /\ pc'[s] = p
      /\ \A t \in Sends : t # s => pc'[t] = pc[t]
  BY DEF IInv, SendsTyped
<1>4. \A t \in Sends : Live(t)' => Live(t)
  BY <1>3 DEF Live
<1>5. \A t \in Sends : Crafted(t) => Crafted(t)'
  BY <1>3 DEF Crafted, Live
<1>6. PhaseInv'
  <2>1. ASSUME NEW tx \in mempool' PROVE Crafted(tx.send)'
    <3>1. CASE tx \in mempool
      <4>1. Crafted(tx.send) /\ tx.send \in Sends
        BY <3>1 DEF IInv, PhaseInv, L1Typed, Txs
      <4> QED BY <1>5, <4>1
    <3>2. CASE Live(s) /\ tx.send = s
      BY <1>5, <3>2 DEF Live, Crafted
    <3> QED BY <3>1, <3>2
  <2>2. ASSUME NEW i \in 1..Len(chain') PROVE Crafted(chain[i].send)'
    <3>1. Crafted(chain[i].send) /\ chain[i].send \in Sends
      BY ChainFacts DEF IInv, PhaseInv, Mined
    <3> QED BY <1>5, <3>1
  <2>3. ASSUME NEW t \in Sends
        PROVE  /\ Live(t)' => nonceOf'[t] \in Nat
               /\ pc'[t] \notin {"idle", "done"} => t \in group'
               /\ pc'[t] \notin {"deliver", "done"} => result'[t] = 0
    BY <1>3, <1>4 DEF IInv, PhaseInv, Live
  <2> QED BY <2>1, <2>2, <2>3 DEF PhaseInv
<1>7. ReceiptInv'
  BY DEF IInv, ReceiptInv, Final
<1>8. NonceInv' /\ GapInv'
  <2>1. group \subseteq Sends
    BY DEF IInv, SendsTyped
  <2>2. \A t \in group, n \in Nat : Holds(t, n) => Holds(t, n)'
    BY <1>3, <2>1 DEF Holds, Live
  <2>3. \A t \in group : pc[t] = "deliver" /\ result[t] = 0 => pc'[t] = "deliver" /\ result'[t] = 0
    BY <1>3, <2>1 DEF Live
  <2> QED BY <1>4, <2>1, <2>2, <2>3, NoncesKept
<1> QED BY <1>1, <1>2, <1>6, <1>7, <1>8 DEF IInv

(* Raising fees, or looking, waiting and failing, without a word to L1. *)
LEMMA QuietSteps ==
    ASSUME IInv, NEW s \in Sends,
           Start(s) \/ CraftFails(s) \/ IncreaseGasPrice(s) \/ CheckWaiting(s) \/ Tick(s)
    PROVE  IInv'
<1>1. UNCHANGED <<nonce, nonceOf, receiptChan, result, group, groupDone, chain, mempool, poller>>
  BY DEF Start, CraftFails, IncreaseGasPrice, CheckWaiting, Tick, queue, l1
<1>2. version' \in [Sends -> Nat]
  BY DEF Start, CraftFails, IncreaseGasPrice, CheckWaiting, Tick, IInv, SendsTyped
<1>3. L1Typed' /\ PollerInv'
  BY <1>1 DEF IInv, L1Typed, PollerInv, Final
<1>4. \A n \in Nat : OnL1(n) => OnL1(n)'
  BY <1>1 DEF OnL1, WithNonce
<1>5. PICK p \in Phases :
          /\ pc' = [pc EXCEPT ![s] = p]
          /\ \/ pc[s] = "queued" /\ p = "craft"
             \/ pc[s] = "craft" /\ p = "failed"
             \/ Live(s) /\ p \in {"publish", "sending", "bump", "loop"}
  <2>1. CASE Start(s)
    BY <2>1 DEF Start, Phases
  <2>2. CASE CraftFails(s)
    BY <2>2 DEF CraftFails, Phases
  <2>3. CASE IncreaseGasPrice(s)
    BY <2>3 DEF IncreaseGasPrice, Phases, Live
  <2>4. CASE CheckWaiting(s)
    <3>1. \/ pc' = [pc EXCEPT ![s] = "loop"]
          \/ pc' = [pc EXCEPT ![s] = "sending"]
      BY <2>4 DEF CheckWaiting
    <3> QED BY <2>4, <3>1 DEF CheckWaiting, Phases, Live
  <2>5. CASE Tick(s)
    BY <2>5 DEF Tick, Phases, Live
  <2> QED BY <2>1, <2>2, <2>3, <2>4, <2>5
<1> QED BY <1>1, <1>2, <1>3, <1>4, <1>5, PlainStep

(* What L1 knows stays known when it accepts a transaction. *)
LEMMA AcceptedFacts ==
    ASSUME IInv, NEW s \in Sends, Live(s)
    PROVE  /\ AcceptedPool(s) \subseteq Txs
           /\ \A tx \in AcceptedPool(s) : tx \in mempool \/ tx.send = s
           /\ \A n \in Nat : WithNonce(n) # {} =>
                  {tx \in AcceptedPool(s) : nonceOf[tx.send] = n} # {}
<1>1. Tx(s) \in Txs /\ Tx(s).send = s
  BY DEF Tx, Txs, IInv, SendsTyped
<1>2. AcceptedPool(s) \subseteq Txs
  BY <1>1 DEF AcceptedPool, IInv, L1Typed
<1>3. \A tx \in AcceptedPool(s) : tx \in mempool \/ tx.send = s
  BY <1>1 DEF AcceptedPool
<1>4. ASSUME NEW n \in Nat, WithNonce(n) # {}
      PROVE  {tx \in AcceptedPool(s) : nonceOf[tx.send] = n} # {}
  <2>1. CASE nonceOf[s] = n
    BY <1>1, <2>1 DEF AcceptedPool
  <2>2. CASE nonceOf[s] # n
    <3>1. PICK tx \in mempool : nonceOf[tx.send] = n
      BY <1>4 DEF WithNonce
    <3> QED BY <2>2, <3>1 DEF AcceptedPool, WithNonce
  <2> QED BY <2>1, <2>2
<1> QED BY <1>2, <1>3, <1>4

LEMMA PublishSteps ==
    ASSUME IInv, NEW s \in Sends, SendAccepted(s) \/ SendRefused(s)
    PROVE  IInv'
<1>1. /\ UNCHANGED <<nonce, nonceOf, receiptChan, result, group, groupDone, chain, version>>
      /\ pc[s] = "sending"
      /\ pc' = [pc EXCEPT ![s] = "loop"] \/ pc' = [pc EXCEPT ![s] = "bump"]
      /\ mempool' = mempool \/ mempool' = AcceptedPool(s)
      /\ poller' = poller \/ poller' = [poller EXCEPT ![s][version[s]] = IdlePoller]
  <2>1. CASE SendAccepted(s)
    BY <2>1 DEF SendAccepted, queue
  <2>2. CASE SendRefused(s)
    BY <2>2 DEF SendRefused, queue
  <2> QED BY <2>1, <2>2
<1>2. Live(s)
  BY <1>1 DEF Live
<1>3. mempool' \subseteq Txs
  BY <1>1, <1>2, AcceptedFacts DEF IInv, L1Typed
<1>4. \A tx \in mempool' : tx \in mempool \/ (Live(s) /\ tx.send = s)
  BY <1>1, <1>2, AcceptedFacts
<1>5. ASSUME NEW n \in Nat, OnL1(n) PROVE OnL1(n)'
  <2>1. CASE n < Len(chain)
    BY <1>1, <2>1 DEF OnL1
  <2>2. CASE WithNonce(n) # {}
    <3>1. WithNonce(n)' = {tx \in mempool' : nonceOf[tx.send] = n}
      BY <1>1 DEF WithNonce
    <3>2. WithNonce(n)' # {}
      BY <1>1, <1>2, <2>2, <3>1, AcceptedFacts DEF WithNonce
    <3> QED BY <3>2 DEF OnL1
  <2> QED BY <1>5, <2>1, <2>2 DEF OnL1
<1>6. /\ IdlePoller \in Pollers /\ IdlePoller.at = 0
  BY DEF IdlePoller, Pollers
<1>7. /\ poller' \in [Sends -> [Versions -> Pollers]]
      /\ \A t \in Sends, v \in Versions : poller'[t][v] = poller[t][v] \/ poller'[t][v] = IdlePoller
  <2>1. poller \in [Sends -> [Versions -> Pollers]]
    BY DEF IInv, L1Typed
  <2> QED BY <1>1, <1>6, <2>1
<1>8. L1Typed'
  BY <1>1, <1>3, <1>7 DEF IInv, L1Typed
<1>9. PollerInv'
  <2> SUFFICES ASSUME NEW t \in Sends, NEW v \in Versions, poller'[t][v].at > 0
               PROVE  /\ ~poller'[t][v].old =>
                            \E i \in 1..Len(chain') :
                               chain'[i].send = t /\ chain'[i].version = v
                               /\ poller'[t][v].at <= chain'[i].confs
                      /\ poller'[t][v].at >= NumConfirmations => Final(t, v)'
    BY DEF PollerInv
  <2>1. poller'[t][v] = poller[t][v]
    BY <1>6, <1>7
  <2> QED BY <1>1, <2>1 DEF IInv, PollerInv, Final
<1>10. {"loop", "bump"} \subseteq Phases
  BY DEF Phases
<1> QED
  <2>1. ASSUME NEW p \in {"loop", "bump"}, pc' = [pc EXCEPT ![s] = p] PROVE IInv'
    BY <1>1, <1>2, <1>4, <1>5, <1>8, <1>9, <1>10, <2>1, PlainStep DEF IInv, SendsTyped
  <2> QED BY <1>1, <2>1

-----------------------------------------------------------------------------
(* The end of a send                                                       *)

(* The nonce of a transaction with enough confirmations is used on L1. *)
LEMMA FinalOnL1 ==
    ASSUME IInv, NEW s \in Sends, NEW v, Final(s, v)
    PROVE  nonceOf[s] \in Nat /\ nonceOf[s] < Len(chain)
<1>1. PICK i \in 1..Len(chain) : chain[i].send = s
  BY DEF Final
<1>2. nonceOf[s] = i - 1
  BY <1>1 DEF IInv, ChainInv
<1>3. Len(chain) \in Nat
  BY ChainFacts DEF IInv
<1> QED BY <1>1, <1>2, <1>3

LEMMA ReturnStep ==
    ASSUME IInv, NEW s \in Sends, NEW v \in Nat, v # 0 => Final(s, v), Return(s, v)
    PROVE  IInv'
<1>1. /\ UNCHANGED <<nonce, nonceOf, version, receiptChan, group, groupDone, chain, mempool>>
      /\ pc[s] = "loop" /\ result' = [result EXCEPT ![s] = v]
      /\ poller' = [poller EXCEPT ![s] = [w \in Versions |-> NoPoller]]
      /\ pc' = [pc EXCEPT ![s] = IF v = 0 THEN "failed" ELSE "deliver"]
  BY DEF Return, queue, l1
<1>2. /\ pc'[s] = (IF v = 0 THEN "failed" ELSE "deliver") /\ result'[s] = v
      /\ \A t \in Sends : t # s => pc'[t] = pc[t] /\ result'[t] = result[t]
      /\ pc' \in [Sends -> Phases] /\ result' \in [Sends -> Nat]
  BY <1>1 DEF IInv, SendsTyped, Phases
<1>3. SendsTyped'
  BY <1>1, <1>2 DEF IInv, SendsTyped
<1>4. NoPoller \in Pollers /\ NoPoller.at = -1
  BY DEF NoPoller, Pollers
<1>5. /\ poller' \in [Sends -> [Versions -> Pollers]]
      /\ \A t \in Sends, w \in Versions : poller'[t][w] = poller[t][w] \/ poller'[t][w] = NoPoller
  <2>1. poller \in [Sends -> [Versions -> Pollers]]
    BY DEF IInv, L1Typed
  <2> QED BY <1>1, <1>4, <2>1
<1>6. L1Typed'
  BY <1>1, <1>5 DEF IInv, L1Typed
<1>7. ChainInv'
  BY <1>1 DEF IInv, ChainInv
<1>8. PollerInv'
  <2> SUFFICES ASSUME NEW t \in Sends, NEW w \in Versions, poller'[t][w].at > 0
               PROVE  /\ ~poller'[t][w].old =>
                            \E i \in 1..Len(chain') :
                               chain'[i].send = t /\ chain'[i].version = w
                               /\ poller'[t][w].at <= chain'[i].confs
                      /\ poller'[t][w].at >= NumConfirmations => Final(t, w)'
    BY DEF PollerInv
  <2>1. poller'[t][w] = poller[t][w]
    BY <1>4, <1>5
  <2> QED BY <1>1, <2>1 DEF IInv, PollerInv, Final
<1>9. PhaseInv'
  <2>1. \A t \in Sends : Crafted(t) => Crafted(t)'
    BY <1>1, <1>2 DEF Crafted
  <2>2. \A tx \in mempool : tx.send \in Sends
    BY DEF IInv, L1Typed, Txs
  <2>3. \A i \in 1..Len(chain) : chain[i].send \in Sends
    BY ChainFacts DEF IInv, Mined
  <2>4. \A tx \in mempool' : Crafted(tx.send)'
    BY <1>1, <2>1, <2>2 DEF IInv, PhaseInv
  <2>5. \A i \in 1..Len(chain') : Crafted(chain[i].send)'
    BY <1>1, <2>1, <2>3 DEF IInv, PhaseInv
  <2>6. ASSUME NEW t \in Sends
        PROVE  /\ Live(t)' => nonceOf'[t] \in Nat
               /\ pc'[t] \notin {"idle", "done"} => t \in group'
               /\ pc'[t] \notin {"deliver", "done"} => result'[t] = 0
    BY <1>1, <1>2 DEF IInv, PhaseInv, Live
  <2> QED BY <2>4, <2>5, <2>6 DEF PhaseInv
<1>10. ReceiptInv'
  <2>1. \A t, w : Final(t, w)' <=> Final(t, w)
    BY <1>1 DEF Final
  <2> QED BY <1>1, <1>2, <2>1 DEF IInv, ReceiptInv
<1>11. NonceInv' /\ GapInv'
  <2>1. group \subseteq Sends
    BY DEF IInv, SendsTyped
  <2>2. \A n \in Nat : OnL1(n) => OnL1(n)'
    BY <1>1 DEF OnL1, WithNonce
  <2>3. ASSUME NEW t \in group, NEW n \in Nat, Holds(t, n) PROVE OnL1(n)' \/ Holds(t, n)'
    <3>1. CASE t # s \/ v = 0
      BY <1>1, <1>2, <2>1, <2>3, <3>1 DEF Holds, Live
    <3>2. CASE t = s /\ v # 0
      <4>1. nonceOf[s] = n /\ nonceOf[s] < Len(chain)
        BY <2>3, <3>2, FinalOnL1 DEF Holds
      <4> QED BY <1>1, <4>1 DEF OnL1
    <3> QED BY <3>1, <3>2
  <2>4. \A t \in group : pc[t] = "deliver" /\ result[t] = 0 => pc'[t] = "deliver" /\ result'[t] = 0
    BY <1>1, <1>2, <2>1
  <2>5. \A t \in group' : Live(t)' => t \in group /\ Live(t)
    BY <1>1, <1>2, <2>1 DEF Live
  <2> QED BY <1>1, <2>2, <2>3, <2>4, <2>5, NoncesKept
<1> QED BY <1>3, <1>6, <1>7, <1>8, <1>9, <1>10, <1>11 DEF IInv

LEMMA EndSteps ==
    ASSUME IInv, NEW s \in Sends, Abort(s) \/ Cancelled(s) \/ Confirmed(s)
    PROVE  IInv'
<1>1. CASE Abort(s) \/ Cancelled(s)
  BY <1>1, ReturnStep DEF Abort, Cancelled
<1>2. CASE Confirmed(s)
  <2>1. receiptChan[s] \in Nat /\ Final(s, receiptChan[s])
    BY <1>2 DEF Confirmed, IInv, SendsTyped, ReceiptInv
  <2> QED BY <1>2, <2>1, ReturnStep DEF Confirmed
<1> QED BY <1>1, <1>2

-----------------------------------------------------------------------------
(* The queue, the nonce and the errors                                     *)

(* Steps that leave L1, the receipts and the pollers alone, and the nonces *)
(* of the sends that have one.                                             *)
LEMMA L1Alone ==
    ASSUME IInv, UNCHANGED <<chain, mempool, poller, receiptChan, result>>,
           \A t \in Sends : Crafted(t) => Crafted(t)' /\ nonceOf'[t] = nonceOf[t]
    PROVE  /\ L1Typed' /\ ChainInv' /\ PollerInv' /\ ReceiptInv'
           /\ \A tx \in mempool' : Crafted(tx.send)'
           /\ \A i \in 1..Len(chain') : Crafted(chain[i].send)'
           /\ \A n \in Nat : OnL1(n) => OnL1(n)'
<1>1. L1Typed' /\ PollerInv' /\ ReceiptInv'
  BY DEF IInv, L1Typed, PollerInv, ReceiptInv, Final
<1>2. \A tx \in mempool : tx.send \in Sends /\ Crafted(tx.send)
  BY DEF IInv, L1Typed, Txs, PhaseInv
<1>3. \A i \in 1..Len(chain) : chain[i].send \in Sends /\ Crafted(chain[i].send)
  BY ChainFacts DEF IInv, Mined, PhaseInv
<1>4. ChainInv'
  BY <1>3 DEF IInv, ChainInv
<1>5. ASSUME NEW n \in Nat, OnL1(n) PROVE OnL1(n)'
  <2>1. CASE n < Len(chain)
    BY <2>1 DEF OnL1
  <2>2. CASE WithNonce(n) # {}
    <3>1. PICK tx \in mempool : nonceOf[tx.send] = n
      BY <2>2 DEF WithNonce
    <3>2. nonceOf'[tx.send] = n /\ tx \in mempool'
      BY <1>2, <3>1
    <3> QED BY <3>2 DEF OnL1, WithNonce
  <2> QED BY <1>5, <2>1, <2>2 DEF OnL1
<1>6. \A tx \in mempool' : Crafted(tx.send)'
  BY <1>2
<1>7. \A i \in 1..Len(chain') : Crafted(chain[i].send)'
  BY <1>3
<1> QED BY <1>1, <1>4, <1>5, <1>6, <1>7

LEMMA DeliverStep ==
    ASSUME IInv, NEW s \in Sends, Deliver(s)
    PROVE  IInv'
<1>1. /\ UNCHANGED <<nonce, nonceOf, version, receiptChan, result, group, chain, mempool, poller>>
      /\ pc[s] = "deliver" /\ pc' = [pc EXCEPT ![s] = "done"]
      /\ groupDone' = (groupDone \/ result[s] = 0)
  BY DEF Deliver, l1
<1>2. /\ pc'[s] = "done" /\ pc' \in [Sends -> Phases]
      /\ \A t \in Sends : t # s => pc'[t] = pc[t]
  BY <1>1 DEF IInv, SendsTyped, Phases
<1>3. groupDone' \in BOOLEAN
  BY <1>1
<1>4. SendsTyped'
  BY <1>1, <1>2, <1>3 DEF IInv, SendsTyped
<1>5. \A t \in Sends : Crafted(t) => Crafted(t)' /\ nonceOf'[t] = nonceOf[t]
  BY <1>1, <1>2 DEF Crafted
<1>6. \A t \in Sends : /\ Live(t)' => Live(t)
                       /\ \A n \in Nat : Holds(t, n) => Holds(t, n)'
  BY <1>1, <1>2 DEF Live, Holds
<1>7. PhaseInv'
  <2>1. ASSUME NEW t \in Sends
        PROVE  /\ Live(t)' => nonceOf'[t] \in Nat
               /\ pc'[t] \notin {"idle", "done"} => t \in group'
               /\ pc'[t] \notin {"deliver", "done"} => result'[t] = 0
    BY <1>1, <1>2, <1>6 DEF IInv, PhaseInv
  <2> QED BY <1>1, <1>5, <2>1, L1Alone DEF PhaseInv
<1>8. NonceInv' /\ GapInv'
  <2>1. group \subseteq Sends
    BY DEF IInv, SendsTyped
  <2>2. groupDone' \/ \A t \in group : pc[t] = "deliver" /\ result[t] = 0 =>
                                         pc'[t] = "deliver" /\ result'[t] = 0
    BY <1>1, <1>2, <2>1
  <2>3. groupDone => groupDone'
    BY <1>1
  <2>4. \A n \in Nat : OnL1(n) => OnL1(n)'
    BY <1>1, <1>5, L1Alone
  <2> QED BY <1>1, <1>6, <2>1, <2>2, <2>3, <2>4, NoncesKept
<1> QED BY <1>1, <1>4, <1>5, <1>7, <1>8, L1Alone DEF IInv

LEMMA ResetStep ==
    ASSUME IInv, NEW s \in Sends, ResetNonce(s)
    PROVE  IInv'
<1>1. /\ UNCHANGED <<nonceOf, version, receiptChan, result, group, groupDone, chain, mempool, poller>>
      /\ pc[s] = "failed" /\ pc' = [pc EXCEPT ![s] = "deliver"] /\ nonce' = NoNonce
  BY DEF ResetNonce, l1, queue
<1>2. /\ pc'[s] = "deliver" /\ pc' \in [Sends -> Phases]
      /\ \A t \in Sends : t # s => pc'[t] = pc[t]
  BY <1>1 DEF IInv, SendsTyped, Phases
<1>3. SendsTyped'
  BY <1>1, <1>2 DEF IInv, SendsTyped
<1>4. \A t \in Sends : Crafted(t) => Crafted(t)' /\ nonceOf'[t] = nonceOf[t]
  BY <1>1, <1>2 DEF Crafted
<1>5. result[s] = 0
  BY <1>1 DEF IInv, PhaseInv
<1>6. \A t \in Sends : Live(t)' => Live(t)
  BY <1>1, <1>2 DEF Live
<1>7. PhaseInv'
  <2>1. ASSUME NEW t \in Sends
        PROVE  /\ Live(t)' => nonceOf'[t] \in Nat
               /\ pc'[t] \notin {"idle", "done"} => t \in group'
               /\ pc'[t] \notin {"deliver", "done"} => result'[t] = 0
    BY <1>1, <1>2, <1>6 DEF IInv, PhaseInv
  <2> QED BY <1>1, <1>4, <2>1, L1Alone DEF PhaseInv
<1>8. NonceInv' /\ GapInv'
  <2>1. group \subseteq Sends
    BY DEF IInv, SendsTyped
  <2>2. \A t \in group : pc[t] = "deliver" /\ result[t] = 0 => pc'[t] = "deliver" /\ result'[t] = 0
    BY <1>1, <1>2, <2>1
  <2>3. \A t \in group, n \in Nat : Holds(t, n) =>
            \/ Holds(t, n)'
            \/ nonce' = NoNonce /\ pc'[t] = "deliver" /\ result'[t] = 0
    BY <1>1, <1>2, <1>5, <2>1 DEF Holds, Live
  <2>4. \A n \in Nat : OnL1(n) => OnL1(n)'
    BY <1>1, <1>4, L1Alone
  <2> QED BY <1>1, <1>6, <2>1, <2>2, <2>3, <2>4, NoncesKept
<1> QED BY <1>1, <1>3, <1>4, <1>7, <1>8, L1Alone DEF IInv

(* signWithNextNonce: all nonces below the one signed are taken. *)
LEMMA CraftStep ==
    ASSUME IInv, NEW s \in Sends, Craft(s)
    PROVE  IInv'
<1>1. /\ UNCHANGED <<receiptChan, result, group, groupDone, chain, mempool, poller>>
      /\ pc[s] = "craft"
      /\ \/ /\ nonce' = NextNonce
            /\ nonceOf' = [nonceOf EXCEPT ![s] = NextNonce]
            /\ version' = [version EXCEPT ![s] = 1]
            /\ pc' = [pc EXCEPT ![s] = "publish"]
         \/ /\ nonce' = (NextNonce - 1) % NonceSpace
            /\ UNCHANGED <<pc, nonceOf, version>>
  BY DEF Craft, l1, queue
<1>2. group \subseteq Sends /\ s \in group /\ Len(chain) \in Nat
  BY <1>1, ChainFacts DEF IInv, SendsTyped, PhaseInv
<1>3. NextNonce \in Nat
  <2>1. CASE nonce = NoNonce
    BY <1>2, <2>1 DEF NextNonce
  <2>2. CASE nonce # NoNonce
    <3>1. nonce \in Nat
      BY <2>2 DEF IInv, SendsTyped
    <3> QED BY <2>2, <3>1, NextNonceFacts DEF NextNonce
  <2> QED BY <2>1, <2>2
<1>4. \A n \in 0..(NextNonce - 1) : OnL1(n) \/ \E t \in group : Holds(t, n)
  <2>1. CASE nonce = NoNonce
    BY <1>2, <2>1 DEF NextNonce, OnL1
  <2>2. CASE nonce # NoNonce
    BY <2>2 DEF NextNonce, IInv, NonceInv
  <2> QED BY <2>1, <2>2
<1>5. \A t \in Sends : t # s => pc'[t] = pc[t] /\ nonceOf'[t] = nonceOf[t]
  BY <1>1 DEF IInv, SendsTyped
<1>6. \A t \in Sends : Crafted(t) => Crafted(t)' /\ nonceOf'[t] = nonceOf[t]
  BY <1>1, <1>5 DEF Crafted
<1>7. \A t \in group, n \in Nat : Holds(t, n) => Holds(t, n)'
  BY <1>1, <1>2, <1>5 DEF Holds, Live
<1>8. \A n \in Nat : OnL1(n) => OnL1(n)'
  BY <1>1, <1>6, L1Alone
<1>9. \A n \in 0..(NextNonce - 1) : OnL1(n)' \/ \E t \in group' : Holds(t, n)'
  <2>1. \A n \in 0..(NextNonce - 1) : n \in Nat
    BY <1>3
  <2> QED BY <1>1, <1>4, <1>7, <1>8, <2>1
<1>10. CASE /\ nonce' = NextNonce
            /\ nonceOf' = [nonceOf EXCEPT ![s] = NextNonce]
            /\ version' = [version EXCEPT ![s] = 1]
            /\ pc' = [pc EXCEPT ![s] = "publish"]
  <2>1. pc'[s] = "publish" /\ nonceOf'[s] = NextNonce
    BY <1>10 DEF IInv, SendsTyped
  <2>2. SendsTyped'
    BY <1>1, <1>3, <1>10 DEF IInv, SendsTyped, Phases
  <2>3. PhaseInv'
    <3>1. ASSUME NEW t \in Sends
          PROVE  /\ Live(t)' => nonceOf'[t] \in Nat
                 /\ pc'[t] \notin {"idle", "done"} => t \in group'
                 /\ pc'[t] \notin {"deliver", "done"} => result'[t] = 0
      BY <1>1, <1>2, <1>3, <1>5, <2>1 DEF IInv, PhaseInv, Live
    <3> QED BY <1>1, <1>6, <3>1, L1Alone DEF PhaseInv
  <2>4. \A n : n = NextNonce => Holds(s, n)'
    BY <2>1 DEF Holds, Live
  <2>5. NonceInv'
    <3> SUFFICES ASSUME NEW n \in 0..(((nonce' + 1) % NonceSpace) - 1)
                 PROVE  OnL1(n)' \/ \E t \in group' : Holds(t, n)'
      BY DEF NonceInv
    <3>1. /\ (NextNonce + 1) % NonceSpace \in Nat
          /\ (NextNonce + 1) % NonceSpace <= NextNonce + 1
      BY <1>3, NextNonceFacts
    <3>2. n \in 0..(NextNonce - 1) \/ n = NextNonce
      BY <1>3, <1>10, <3>1
    <3> QED BY <1>1, <1>2, <1>9, <2>4, <3>2
  <2>6. GapInv'
    <3> SUFFICES ASSUME ~groupDone', NEW t \in group', Live(t)', NEW n \in 0..(nonceOf'[t] - 1)
                 PROVE  \/ OnL1(n)'
                        \/ \E u \in group' : Holds(u, n)'
                        \/ \E u \in group' : nonceOf'[u] = n /\ pc'[u] = "deliver" /\ result'[u] = 0
      BY DEF GapInv
    <3>1. CASE t = s
      BY <1>9, <2>1, <3>1
    <3>2. CASE t # s
      <4>1. t \in group /\ t \in Sends /\ Live(t) /\ nonceOf'[t] = nonceOf[t]
        BY <1>1, <1>2, <1>5, <3>2 DEF Live
      <4>2. nonceOf[t] \in Nat /\ n \in 0..(nonceOf[t] - 1)
        BY <4>1 DEF IInv, PhaseInv
      <4>3. n \in Nat
        BY <4>2
      <4>4. \/ OnL1(n) \/ \E u \in group : Holds(u, n)
            \/ \E u \in group : nonceOf[u] = n /\ pc[u] = "deliver" /\ result[u] = 0
        BY <1>1, <4>1, <4>2 DEF IInv, GapInv
      <4>5. CASE \E u \in group : nonceOf[u] = n /\ pc[u] = "deliver" /\ result[u] = 0
        <5>1. PICK u \in group : nonceOf[u] = n /\ pc[u] = "deliver" /\ result[u] = 0
          BY <4>5
        <5>2. u # s /\ u \in Sends
          BY <1>1, <1>2, <5>1
        <5>3. nonceOf'[u] = n /\ pc'[u] = "deliver" /\ result'[u] = 0
          BY <1>1, <1>5, <5>1, <5>2
        <5> QED BY <1>1, <5>3
      <4> QED BY <1>1, <1>7, <1>8, <4>3, <4>4, <4>5
    <3> QED BY <3>1, <3>2
  <2> QED BY <1>1, <1>6, <2>2, <2>3, <2>5, <2>6, L1Alone DEF IInv
<1>11. CASE nonce' = (NextNonce - 1) % NonceSpace /\ UNCHANGED <<pc, nonceOf, version>>
  <2>1. /\ nonce' \in Nat
        /\ (nonce' + 1) % NonceSpace \in Nat /\ (nonce' + 1) % NonceSpace <= NextNonce
    BY <1>3, <1>11, NextNonceFacts
  <2>2. SendsTyped'
    BY <1>1, <1>11, <2>1 DEF IInv, SendsTyped
  <2>3. PhaseInv'
    BY <1>1, <1>6, <1>11, L1Alone DEF IInv, PhaseInv, Live
  <2>4. NonceInv'
    <3> SUFFICES ASSUME NEW n \in 0..(((nonce' + 1) % NonceSpace) - 1)
                 PROVE  OnL1(n)' \/ \E t \in group' : Holds(t, n)'
      BY DEF NonceInv
    <3>1. n \in 0..(NextNonce - 1)
      BY <1>3, <2>1
    <3> QED BY <1>9, <3>1
  <2>5. GapInv'
    BY <1>1, <1>11 DEF IInv, GapInv, OnL1, WithNonce, Holds, Live
  <2> QED BY <1>1, <1>6, <2>2, <2>3, <2>4, <2>5, L1Alone DEF IInv
<1> QED BY <1>1, <1>10, <1>11

LEMMA QueueSendStep ==
    ASSUME IInv, NEW s \in Sends, QueueSend(s)
    PROVE  IInv'
<1>1. /\ UNCHANGED <<nonce, nonceOf, version, receiptChan, result, chain, mempool, poller>>
      /\ pc[s] = "idle" /\ pc' = [pc EXCEPT ![s] = "queued"] /\ groupDone' = FALSE
      /\ IF groupDone THEN (\A t \in group : pc[t] = "done") /\ group' = {s}
                      ELSE group' = group \cup {s}
  BY DEF QueueSend, l1
<1>2. /\ pc'[s] = "queued" /\ pc' \in [Sends -> Phases]
      /\ \A t \in Sends : t # s => pc'[t] = pc[t]
  BY <1>1 DEF IInv, SendsTyped, Phases
<1>3. group \subseteq Sends /\ group' \subseteq Sends /\ groupDone \in BOOLEAN
  BY <1>1 DEF IInv, SendsTyped
<1>4. SendsTyped'
  <2>1. groupDone' \in BOOLEAN
    BY <1>1, Zenon
  <2> QED BY <1>1, <1>2, <1>3, <2>1 DEF IInv, SendsTyped
<1>5. \A t \in Sends : Crafted(t) => Crafted(t)' /\ nonceOf'[t] = nonceOf[t]
  BY <1>1, <1>2 DEF Crafted
<1>6. \A t \in Sends : (Live(t)' <=> Live(t)) /\ (pc'[t] = "failed" <=> pc[t] = "failed")
  BY <1>1, <1>2 DEF Live
<1>7. PhaseInv'
  <2>1. ASSUME NEW t \in Sends
        PROVE  /\ Live(t)' => nonceOf'[t] \in Nat
               /\ pc'[t] \notin {"idle", "done"} => t \in group'
               /\ pc'[t] \notin {"deliver", "done"} => result'[t] = 0
    BY <1>1, <1>2, <1>6 DEF IInv, PhaseInv
  <2> QED BY <1>1, <1>5, <2>1, L1Alone DEF PhaseInv
<1>8. \A n \in Nat : OnL1(n) => OnL1(n)'
  BY <1>1, <1>5, L1Alone
<1>9. NonceInv' /\ GapInv'
  <2>1. CASE groupDone
    <3>1. \A t \in group : pc[t] = "done"
      BY <1>1, <2>1
    <3>2. \A t \in group, n \in Nat : ~Holds(t, n)
      BY <3>1 DEF Holds, Live
    <3>3. NonceInv'
      <4> SUFFICES ASSUME nonce # NoNonce, NEW n \in 0..(((nonce + 1) % NonceSpace) - 1)
                   PROVE  OnL1(n)'
        BY <1>1 DEF NonceInv
      <4>1. (nonce + 1) % NonceSpace \in Nat
        BY NextNonceFacts DEF IInv, SendsTyped
      <4>2. n \in Nat
        BY <4>1
      <4>3. OnL1(n) \/ \E t \in group : Holds(t, n)
        BY DEF IInv, NonceInv
      <4> QED BY <1>8, <3>2, <4>2, <4>3
    <3>4. GapInv'
      <4>1. \A t \in group' : ~Live(t)'
        BY <1>1, <1>2, <2>1 DEF Live
      <4> QED BY <4>1 DEF GapInv
    <3> QED BY <3>3, <3>4
  <2>2. CASE ~groupDone
    <3>1. group' = group \cup {s}
      BY <1>1, <2>2
    <3>2. \A t \in group, n \in Nat : Holds(t, n) => Holds(t, n)'
      BY <1>1, <1>3, <1>6 DEF Holds
    <3>3. \A t \in group : pc[t] = "deliver" /\ result[t] = 0 => pc'[t] = "deliver" /\ result'[t] = 0
      BY <1>1, <1>2, <1>3
    <3>4. \A t \in group' : Live(t)' => t \in group /\ Live(t)
      BY <1>1, <1>2, <1>3, <1>6, <3>1 DEF Live
    <3> QED BY <1>1, <1>8, <2>2, <3>1, <3>2, <3>3, <3>4, NoncesKept
  <2> QED BY <1>3, <2>1, <2>2
<1> QED BY <1>1, <1>4, <1>5, <1>7, <1>9, L1Alone DEF IInv

LEMMA QueueWaitStep ==
    ASSUME IInv, QueueWait
    PROVE  IInv'
<1>1. /\ UNCHANGED <<nonce, pc, nonceOf, version, receiptChan, result, group, chain, mempool, poller>>
      /\ groupDone' = TRUE
  BY DEF QueueWait, l1
<1>2. SendsTyped'
  <2>1. groupDone' \in BOOLEAN
    BY <1>1, Zenon
  <2> QED BY <1>1, <2>1 DEF IInv, SendsTyped
<1>3. \A t \in Sends : Crafted(t) => Crafted(t)' /\ nonceOf'[t] = nonceOf[t]
  BY <1>1 DEF Crafted
<1>4. PhaseInv'
  BY <1>1 DEF IInv, PhaseInv, Crafted, Live
<1>5. NonceInv'
  BY <1>1 DEF IInv, NonceInv, OnL1, WithNonce, Holds, Live
<1>6. GapInv'
  BY <1>1 DEF GapInv
<1> QED BY <1>1, <1>2, <1>3, <1>4, <1>5, <1>6, L1Alone DEF IInv

-----------------------------------------------------------------------------
(* The pollers                                                             *)

(* Steps of the pollers leave the sends, the nonces and L1 alone. *)
LEMMA SendsAlone ==
    ASSUME IInv, L1Typed', PollerInv', ReceiptInv', receiptChan' \in [Sends -> Nat],
           UNCHANGED <<nonce, pc, nonceOf, version, result, group, groupDone, chain, mempool>>
    PROVE  IInv'
<1>1. SendsTyped' /\ ChainInv'
  BY DEF IInv, SendsTyped, ChainInv
<1>2. PhaseInv'
  BY DEF IInv, PhaseInv, Crafted, Live
<1>3. NonceInv'
  BY DEF IInv, NonceInv, OnL1, WithNonce, Holds, Live
<1>4. GapInv'
  BY DEF IInv, GapInv, OnL1, WithNonce, Holds, Live
<1> QED BY <1>1, <1>2, <1>3, <1>4 DEF IInv

LEMMA QueryStep ==
    ASSUME IInv, NEW s \in Sends, NEW v \in Versions, QueryReceipt(s, v)
    PROVE  IInv'
<1>1. UNCHANGED <<nonce, pc, nonceOf, version, receiptChan, result, group, groupDone, chain, mempool>>
  BY DEF QueryReceipt, queue, l1
<1>2. \/ poller' = poller
      \/ \E i \in MinedAt(s, v) :
            poller' = [poller EXCEPT ![s][v] = [at |-> chain[i].confs, old |-> FALSE]]
  BY DEF QueryReceipt
<1>3. receiptChan' \in [Sends -> Nat] /\ ReceiptInv'
  BY <1>1 DEF IInv, SendsTyped, ReceiptInv, Final
<1>4. CASE poller' = poller
  <2>1. L1Typed'
    BY <1>1, <1>4 DEF IInv, L1Typed
  <2>2. PollerInv'
    BY <1>1, <1>4 DEF IInv, PollerInv, Final
  <2> QED BY <1>1, <1>3, <2>1, <2>2, SendsAlone
<1>5. ASSUME NEW i \in MinedAt(s, v),
             poller' = [poller EXCEPT ![s][v] = [at |-> chain[i].confs, old |-> FALSE]]
      PROVE  IInv'
  <2>1. /\ i \in 1..Len(chain) /\ chain[i].send = s /\ chain[i].version = v
        /\ chain[i].confs \in Int
    BY ChainFacts DEF MinedAt, IInv, Mined
  <2> DEFINE q == [at |-> chain[i].confs, old |-> FALSE]
  <2>2. q \in Pollers /\ q.at = chain[i].confs
    BY <2>1 DEF Pollers
  <2> HIDE DEF q
  <2>3. /\ poller' \in [Sends -> [Versions -> Pollers]]
        /\ poller'[s][v] = q
        /\ \A t \in Sends, w \in Versions : t # s \/ w # v => poller'[t][w] = poller[t][w]
    <3>1. poller \in [Sends -> [Versions -> Pollers]]
      BY DEF IInv, L1Typed
    <3>2. poller' = [poller EXCEPT ![s][v] = q]
      BY <1>5 DEF q
    <3> QED BY <2>2, <3>1, <3>2
  <2>4. L1Typed'
    BY <1>1, <2>3 DEF IInv, L1Typed
  <2>5. PollerInv'
    <3> SUFFICES ASSUME NEW t \in Sends, NEW w \in Versions, poller'[t][w].at > 0
                 PROVE  /\ ~poller'[t][w].old =>
                              \E j \in 1..Len(chain) :
                                 chain[j].send = t /\ chain[j].version = w
                                 /\ poller'[t][w].at <= chain[j].confs
                        /\ poller'[t][w].at >= NumConfirmations => Final(t, w)
      BY <1>1 DEF PollerInv, Final
    <3>1. CASE t = s /\ w = v
      BY <2>1, <2>2, <2>3, <3>1 DEF Final
    <3>2. CASE t # s \/ w # v
      <4>1. poller'[t][w] = poller[t][w]
        BY <2>3, <3>2
      <4> QED BY <4>1 DEF IInv, PollerInv
    <3> QED BY <3>1, <3>2
  <2> QED BY <1>1, <1>3, <2>4, <2>5, SendsAlone
<1> QED BY <1>2, <1>4, <1>5

LEMMA CheckStep ==
    ASSUME IInv, NEW s \in Sends, NEW v \in Versions, CheckConfirmations(s, v)
    PROVE  IInv'
<1>1. /\ UNCHANGED <<nonce, pc, nonceOf, version, result, group, groupDone, chain, mempool>>
      /\ poller[s][v].at > 0
      /\ \/ poller' = [poller EXCEPT ![s][v] = NoPoller]
         \/ poller' = [poller EXCEPT ![s][v] = IdlePoller]
      /\ \/ receiptChan' = receiptChan
         \/ /\ poller[s][v].at >= NumConfirmations
            /\ receiptChan' = [receiptChan EXCEPT ![s] = IF @ = 0 THEN v ELSE @]
  BY DEF CheckConfirmations, queue, l1, Deep
<1>2. v \in Nat
  BY TxMgrAssumption DEF Versions
<1>3. receiptChan' \in [Sends -> Nat] /\ ReceiptInv'
  <2>1. \A t, w : Final(t, w)' <=> Final(t, w)
    BY <1>1 DEF Final
  <2>2. CASE receiptChan' = receiptChan
    BY <1>1, <2>1, <2>2 DEF IInv, SendsTyped, ReceiptInv
  <2>3. CASE /\ poller[s][v].at >= NumConfirmations
             /\ receiptChan' = [receiptChan EXCEPT ![s] = IF @ = 0 THEN v ELSE @]
    <3>1. Final(s, v)
      BY <1>1, <2>3 DEF IInv, PollerInv
    <3>2. /\ receiptChan' \in [Sends -> Nat]
          /\ \A t \in Sends : receiptChan'[t] = receiptChan[t] \/ (t = s /\ receiptChan'[t] = v)
      BY <1>2, <2>3 DEF IInv, SendsTyped
    <3> QED BY <1>1, <2>1, <3>1, <3>2 DEF IInv, ReceiptInv
  <2> QED BY <1>1, <2>2, <2>3
<1>4. /\ {NoPoller, IdlePoller} \subseteq Pollers /\ ~(NoPoller.at > 0) /\ ~(IdlePoller.at > 0)
  BY DEF NoPoller, IdlePoller, Pollers
<1>5. /\ poller' \in [Sends -> [Versions -> Pollers]]
      /\ \A t \in Sends, w \in Versions : poller'[t][w] \in {poller[t][w], NoPoller, IdlePoller}
  <2>1. poller \in [Sends -> [Versions -> Pollers]]
    BY DEF IInv, L1Typed
  <2> QED BY <1>1, <1>4, <2>1
<1>6. L1Typed'
  BY <1>1, <1>5 DEF IInv, L1Typed
<1>7. PollerInv'
  <2> SUFFICES ASSUME NEW t \in Sends, NEW w \in Versions, poller'[t][w].at > 0
               PROVE  /\ ~poller'[t][w].old =>
                            \E j \in 1..Len(chain) :
                               chain[j].send = t /\ chain[j].version = w
                               /\ poller'[t][w].at <= chain[j].confs
                      /\ poller'[t][w].at >= NumConfirmations => Final(t, w)
    BY <1>1 DEF PollerInv, Final
  <2>1. poller'[t][w] = poller[t][w]
    BY <1>4, <1>5
  <2> QED BY <2>1 DEF IInv, PollerInv
<1> QED BY <1>1, <1>3, <1>6, <1>7, SendsAlone

-----------------------------------------------------------------------------
(* L1                                                                      *)

(* A change of L1 that keeps the nonces it knows and what is deep enough. *)
LEMMA L1Step ==
    ASSUME IInv, L1Typed', ChainInv', PollerInv',
           UNCHANGED <<nonce, pc, nonceOf, version, receiptChan, result, group, groupDone>>,
           \A tx \in mempool' : Crafted(tx.send),
           \A i \in 1..Len(chain') : Crafted(chain'[i].send),
           \A s \in Sends, v \in Nat : Final(s, v) => Final(s, v)',
           \A n \in Nat : OnL1(n) => OnL1(n)'
    PROVE  IInv'
<1>1. SendsTyped'
  BY DEF IInv, SendsTyped
<1>2. PhaseInv'
  BY DEF IInv, PhaseInv, Crafted, Live
<1>3. ReceiptInv'
  BY DEF IInv, SendsTyped, ReceiptInv
<1>4. NonceInv' /\ GapInv'
  <2>1. group \subseteq group'
    OBVIOUS
  <2>2. \A t \in group, n \in Nat : Holds(t, n) => Holds(t, n)'
    BY DEF Holds, Live
  <2>3. \A t \in group' : Live(t)' => t \in group /\ Live(t)
    BY DEF Live
  <2> QED BY <2>1, <2>2, <2>3, NoncesKept
<1> QED BY <1>1, <1>2, <1>3, <1>4 DEF IInv

LEMMA DeeperFacts ==
    ASSUME L1Typed
    PROVE  /\ Deeper \in Seq(Mined) /\ Len(Deeper) = Len(chain)
           /\ \A i \in 1..Len(chain) :
                 /\ Deeper[i].send = chain[i].send /\ Deeper[i].version = chain[i].version
                 /\ Deeper[i].confs = IF chain[i].confs < NumConfirmations THEN chain[i].confs + 1
                                                                         ELSE chain[i].confs
<1>1. /\ Len(chain) \in Nat /\ DOMAIN chain = 1..Len(chain) /\ NumConfirmations \in Nat
      /\ \A i \in 1..Len(chain) : chain[i] \in Mined
  BY ChainFacts
<1>2. Deeper = [i \in 1..Len(chain) |->
                  IF chain[i].confs < NumConfirmations
                  THEN [chain[i] EXCEPT !.confs = chain[i].confs + 1] ELSE chain[i]]
  BY <1>1 DEF Deeper
<1>3. ASSUME NEW i \in 1..Len(chain)
      PROVE  /\ Deeper[i] \in Mined
             /\ Deeper[i].send = chain[i].send /\ Deeper[i].version = chain[i].version
             /\ Deeper[i].confs = IF chain[i].confs < NumConfirmations THEN chain[i].confs + 1
                                                                     ELSE chain[i].confs
  <2>1. chain[i] \in Mined
    BY <1>1
  <2>2. Deeper[i] = IF chain[i].confs < NumConfirmations
                    THEN [chain[i] EXCEPT !.confs = chain[i].confs + 1] ELSE chain[i]
    BY <1>2
  <2>3. chain[i].confs \in 1..NumConfirmations
    BY <2>1 DEF Mined
  <2>4. CASE chain[i].confs < NumConfirmations
    <3> DEFINE k == chain[i].confs + 1
    <3>1. k \in 1..NumConfirmations
      BY <1>1, <2>3, <2>4
    <3>2. Deeper[i] = [chain[i] EXCEPT !.confs = k]
      BY <2>2, <2>4
    <3> HIDE DEF k
    <3>3. /\ Deeper[i] \in Mined /\ Deeper[i].confs = k
          /\ Deeper[i].send = chain[i].send /\ Deeper[i].version = chain[i].version
      BY <2>1, <3>1, <3>2 DEF Mined
    <3> QED BY <2>4, <3>3 DEF k
  <2>5. CASE ~(chain[i].confs < NumConfirmations)
    BY <2>1, <2>2, <2>5
  <2> QED BY <2>4, <2>5
<1>4. Deeper \in [1..Len(chain) -> Mined]
  <2>1. DOMAIN Deeper = 1..Len(chain)
    BY <1>2
  <2> HIDE DEF Deeper
  <2>2. Deeper = [i \in 1..Len(chain) |-> Deeper[i]]
    BY <1>2, <2>1
  <2> QED BY <1>3, <2>2
<1>5. Deeper \in Seq(Mined) /\ Len(Deeper) = Len(chain)
  BY <1>1, <1>4
<1> QED BY <1>3, <1>5

LEMMA AgedFacts ==
    ASSUME L1Typed, QueriesRecent, NEW step \in 0..1, poller' = Aged(step)
    PROVE  /\ poller' \in [Sends -> [Versions -> Pollers]]
           /\ \A s \in Sends, v \in Versions : poller'[s][v].at > 0 =>
                 /\ poller[s][v].at > 0 /\ ~poller[s][v].old /\ poller'[s][v].old
                 /\ poller'[s][v].at = IF poller[s][v].at < NumConfirmations
                                       THEN poller[s][v].at + step ELSE poller[s][v].at
<1>1. /\ poller \in [Sends -> [Versions -> Pollers]] /\ NumConfirmations \in Nat
  BY ChainFacts DEF L1Typed
<1>2. ASSUME NEW s \in Sends, NEW v \in Versions
      PROVE  /\ poller[s][v] \in Pollers
             /\ poller'[s][v] = IF poller[s][v].at > 0
                  THEN [at |-> IF poller[s][v].at < NumConfirmations THEN poller[s][v].at + step
                                                                   ELSE poller[s][v].at,
                        old |-> TRUE]
                  ELSE poller[s][v]
  BY <1>1 DEF Aged
<1>3. ASSUME NEW s \in Sends, NEW v \in Versions
      PROVE  /\ poller'[s][v] \in Pollers
             /\ poller'[s][v].at > 0 =>
                  /\ poller[s][v].at > 0 /\ poller'[s][v].old
                  /\ poller'[s][v].at = IF poller[s][v].at < NumConfirmations
                                        THEN poller[s][v].at + step ELSE poller[s][v].at
  <2>1. CASE poller[s][v].at > 0
    <3> DEFINE k == IF poller[s][v].at < NumConfirmations THEN poller[s][v].at + step
                                                         ELSE poller[s][v].at
    <3>1. poller[s][v].at \in Int
      BY <1>2 DEF Pollers
    <3>2. k \in Int
      BY <3>1
    <3>3. poller'[s][v] = [at |-> k, old |-> TRUE]
      BY <1>2, <2>1
    <3> HIDE DEF k
    <3>4. poller'[s][v] \in Pollers /\ poller'[s][v].at = k
      BY <3>2, <3>3 DEF Pollers
    <3>5. poller'[s][v].old
      BY <3>3
    <3> QED BY <2>1, <3>4, <3>5 DEF k
  <2>2. CASE ~(poller[s][v].at > 0)
    <3>1. poller'[s][v] = poller[s][v]
      BY <1>2, <2>2
    <3> QED BY <1>2, <2>2, <3>1
  <2> QED BY <2>1, <2>2
<1>4. poller' \in [Sends -> [Versions -> Pollers]]
  BY <1>2, <1>3 DEF Aged
<1>5. \A s \in Sends, v \in Versions : ~poller[s][v].old
  BY DEF QueriesRecent
<1> QED BY <1>3, <1>4, <1>5

LEMMA MineStep ==
    ASSUME IInv, Mine
    PROVE  IInv'
<1>1. /\ UNCHANGED <<nonce, pc, nonceOf, version, receiptChan, result, group, groupDone>>
      /\ QueriesRecent /\ poller' = Aged(1)
      /\ \/ chain' = Deeper /\ mempool' = mempool
         \/ \E tx \in WithNonce(Len(chain)) :
               /\ chain' = Append(Deeper, [send |-> tx.send, version |-> tx.version, confs |-> 1])
               /\ mempool' = mempool \ {tx}
  BY DEF Mine, queue
<1>2. /\ Len(chain) \in Nat /\ NumConfirmations \in Nat \ {0}
      /\ \A i \in 1..Len(chain) : chain[i] \in Mined
  BY ChainFacts DEF IInv
<1>3. /\ Deeper \in Seq(Mined) /\ Len(Deeper) = Len(chain)
      /\ \A i \in 1..Len(chain) :
            /\ Deeper[i].send = chain[i].send /\ Deeper[i].version = chain[i].version
            /\ Deeper[i].confs = IF chain[i].confs < NumConfirmations THEN chain[i].confs + 1
                                                                    ELSE chain[i].confs
  BY DeeperFacts DEF IInv
<1>4. \A i \in 1..Len(chain) : chain[i].confs \in 1..NumConfirmations /\ Deeper[i].confs \in Int
  BY <1>2, <1>3 DEF Mined
<1>5. \A i, j \in 1..Len(chain) : i <= j => Deeper[j].confs <= Deeper[i].confs
  <2> SUFFICES ASSUME NEW i \in 1..Len(chain), NEW j \in 1..Len(chain), i <= j
               PROVE  Deeper[j].confs <= Deeper[i].confs
    OBVIOUS
  <2>1. chain[j].confs <= chain[i].confs
    BY DEF IInv, ChainInv
  <2> QED BY <1>2, <1>3, <1>4, <2>1
(* The chain that results extends the old one, and all is deeper. *)
<1>6. /\ chain' \in Seq(Mined) /\ mempool' \subseteq mempool
      /\ Len(chain') \in Nat /\ Len(chain) <= Len(chain')
      /\ \A i \in 1..Len(chain) : chain'[i] = Deeper[i]
      /\ \/ Len(chain') = Len(chain) /\ mempool' = mempool
         \/ /\ Len(chain') = Len(chain) + 1 /\ chain'[Len(chain) + 1].confs = 1
            /\ \E tx \in mempool : /\ nonceOf[tx.send] = Len(chain) /\ mempool' = mempool \ {tx}
                                   /\ chain'[Len(chain) + 1].send = tx.send
  <2>1. CASE chain' = Deeper /\ mempool' = mempool
    BY <1>2, <1>3, <2>1
  <2>2. CASE \E tx \in WithNonce(Len(chain)) :
               /\ chain' = Append(Deeper, [send |-> tx.send, version |-> tx.version, confs |-> 1])
               /\ mempool' = mempool \ {tx}
    <3>1. PICK tx \in mempool :
              /\ nonceOf[tx.send] = Len(chain)
              /\ chain' = Append(Deeper, [send |-> tx.send, version |-> tx.version, confs |-> 1])
              /\ mempool' = mempool \ {tx}
      BY <2>2 DEF WithNonce
    <3> DEFINE b == [send |-> tx.send, version |-> tx.version, confs |-> 1]
    <3>2. b \in Mined /\ b.confs = 1 /\ b.send = tx.send
      <4>1. tx \in Txs
        BY DEF IInv, L1Typed
      <4> QED BY <1>2, <4>1 DEF Txs, Mined
    <3> HIDE DEF b
    <3>3. /\ Append(Deeper, b) \in Seq(Mined) /\ Len(Append(Deeper, b)) = Len(Deeper) + 1
          /\ \A i \in 1..Len(Deeper) : Append(Deeper, b)[i] = Deeper[i]
          /\ Append(Deeper, b)[Len(Deeper) + 1] = b
      BY <1>3, <3>2, AppendProperties
    <3>4. chain' = Append(Deeper, b)
      BY <3>1 DEF b
    <3> QED BY <1>2, <1>3, <3>1, <3>2, <3>3, <3>4
  <2> QED BY <1>1, <2>1, <2>2
<1>7. poller' \in [Sends -> [Versions -> Pollers]]
  BY <1>1, AgedFacts DEF IInv
<1>8. L1Typed'
  BY <1>6, <1>7 DEF IInv, L1Typed
<1>9. \A i \in 1..Len(chain') : i \in 1..Len(chain) \/ i = Len(chain) + 1
  BY <1>2, <1>6
<1>10. ChainInv'
  <2>1. ASSUME NEW i \in 1..Len(chain'), NEW j \in 1..Len(chain'), i <= j
        PROVE  chain'[j].confs <= chain'[i].confs
    <3>1. CASE j \in 1..Len(chain)
      <4>1. i \in 1..Len(chain)
        BY <1>2, <2>1, <3>1
      <4> QED BY <1>5, <1>6, <2>1, <3>1, <4>1
    <3>2. CASE j = Len(chain) + 1
      <4>1. chain'[j].confs = 1
        BY <1>2, <1>6, <3>2
      <4>2. CASE i = j
        BY <4>1, <4>2
      <4>3. CASE i # j
        <5>1. i \in 1..Len(chain)
          BY <1>9, <3>2, <4>3
        <5>2. Deeper[i].confs >= 1
          BY <1>2, <1>3, <1>4, <5>1
        <5> QED BY <1>4, <1>6, <4>1, <5>1, <5>2
      <4> QED BY <4>2, <4>3
    <3> QED BY <1>9, <3>1, <3>2
  <2>2. ASSUME NEW i \in 1..Len(chain') PROVE nonceOf'[chain'[i].send] = i - 1
    <3>1. CASE i \in 1..Len(chain)
      BY <1>1, <1>3, <1>6, <3>1 DEF IInv, ChainInv
    <3>2. CASE i = Len(chain) + 1
      BY <1>1, <1>2, <1>6, <3>2
    <3> QED BY <1>9, <3>1, <3>2
  <2> QED BY <2>1, <2>2 DEF ChainInv
<1>11. ASSUME NEW s, NEW v, Final(s, v) PROVE Final(s, v)'
  <2>1. PICK i \in 1..Len(chain) :
            chain[i].send = s /\ chain[i].version = v /\ chain[i].confs >= NumConfirmations
    BY <1>11 DEF Final
  <2>2. i \in 1..Len(chain')
    BY <1>2, <1>6
  <2>3. chain'[i].send = s /\ chain'[i].version = v /\ chain'[i].confs >= NumConfirmations
    BY <1>2, <1>3, <1>4, <1>6, <2>1
  <2> QED BY <2>2, <2>3 DEF Final
<1>12. PollerInv'
  <2> SUFFICES ASSUME NEW t \in Sends, NEW w \in Versions, poller'[t][w].at > 0
               PROVE  poller'[t][w].old /\ (poller'[t][w].at >= NumConfirmations => Final(t, w)')
    BY DEF PollerInv
  <2>1. /\ poller[t][w].at > 0 /\ ~poller[t][w].old /\ poller'[t][w].old
        /\ poller'[t][w].at = IF poller[t][w].at < NumConfirmations
                              THEN poller[t][w].at + 1 ELSE poller[t][w].at
    BY <1>1, AgedFacts DEF IInv
  <2>2. PICK i \in 1..Len(chain) :
            chain[i].send = t /\ chain[i].version = w /\ poller[t][w].at <= chain[i].confs
    BY <2>1 DEF IInv, PollerInv
  <2>3. poller[t][w].at \in Int
    BY DEF IInv, L1Typed, Pollers
  <2>4. poller'[t][w].at <= chain'[i].confs
    <3>1. /\ chain'[i].confs = IF chain[i].confs < NumConfirmations THEN chain[i].confs + 1
                                                                   ELSE chain[i].confs
          /\ chain[i].confs \in Int
      BY <1>3, <1>4, <1>6
    <3> QED BY <1>2, <2>1, <2>2, <2>3, <3>1
  <2>5. i \in 1..Len(chain') /\ chain'[i].send = t /\ chain'[i].version = w
    BY <1>2, <1>3, <1>6, <2>2
  <2>6. poller'[t][w].at \in Int /\ chain'[i].confs \in Int
    BY <1>4, <1>6, <2>1, <2>3
  <2>7. poller'[t][w].at >= NumConfirmations => chain'[i].confs >= NumConfirmations
    BY <1>2, <2>4, <2>6
  <2> QED BY <2>1, <2>5, <2>7 DEF Final
<1>13. \A tx \in mempool' : Crafted(tx.send)
  BY <1>6 DEF IInv, PhaseInv
<1>14. \A i \in 1..Len(chain') : Crafted(chain'[i].send)
  <2> SUFFICES ASSUME NEW i \in 1..Len(chain') PROVE Crafted(chain'[i].send)
    OBVIOUS
  <2>1. CASE i \in 1..Len(chain)
    BY <1>3, <1>6, <2>1 DEF IInv, PhaseInv
  <2>2. CASE i = Len(chain) + 1
    BY <1>2, <1>6, <2>2 DEF IInv, PhaseInv
  <2> QED BY <1>9, <2>1, <2>2
<1>15. ASSUME NEW n \in Nat, OnL1(n) PROVE OnL1(n)'
  <2>1. CASE n < Len(chain')
    BY <2>1 DEF OnL1
  <2>2. CASE ~(n < Len(chain'))
    <3>1. ~(n < Len(chain)) /\ (Len(chain') = Len(chain) + 1 => n # Len(chain))
      BY <1>2, <1>6, <2>2
    <3>2. PICK tx \in mempool : nonceOf[tx.send] = n
      BY <1>15, <3>1 DEF OnL1, WithNonce
    <3>3. tx \in mempool'
      BY <1>6, <3>1, <3>2
    <3> QED BY <1>1, <3>2, <3>3 DEF OnL1, WithNonce
  <2> QED BY <2>1, <2>2
<1> QED BY <1>1, <1>8, <1>10, <1>11, <1>12, <1>13, <1>14, <1>15, L1Step

(* A reorganisation drops a tail of the chain, and nothing that has enough *)
(* confirmations; what it drops waits again under its nonce.               *)
LEMMA ReorgStep ==
    ASSUME IInv, NEW d \in 1..ReorgDepth, Reorg(d)
    PROVE  IInv'
<1> DEFINE kept == {i \in DOMAIN chain : chain[i].confs > d}
           lost == {[send |-> chain[i].send, version |-> chain[i].version] : i \in DOMAIN chain \ kept}
           c    == Cardinality(kept)
<1>1. /\ UNCHANGED <<nonce, pc, nonceOf, version, receiptChan, result, group, groupDone>>
      /\ QueriesRecent /\ poller' = Aged(0)
      /\ chain' = SubSeq(chain, 1, c) /\ mempool' = mempool \cup lost
  BY DEF Reorg, queue
<1>2. /\ Len(chain) \in Nat /\ NumConfirmations \in Nat \ {0} /\ DOMAIN chain = 1..Len(chain)
      /\ \A i \in 1..Len(chain) : chain[i] \in Mined
  BY ChainFacts DEF IInv
<1>3. \A i \in 1..Len(chain) : chain[i].confs \in Int
  BY <1>2 DEF Mined
<1>4. d \in Int /\ d < NumConfirmations
  BY <1>2, TxMgrAssumption
<1>5. ASSUME NEW n \in Nat PROVE IsFiniteSet(1..n) /\ Cardinality(1..n) = n
  <2>1. 1 \in Int /\ n \in Int
    OBVIOUS
  <2>2. IsFiniteSet(1..n) /\ Cardinality(1..n) = IF 1 > n THEN 0 ELSE n - 1 + 1
    BY <2>1, FS_Interval, Zenon
  <2> QED BY <2>2
<1>6. kept \subseteq 1..Len(chain)
  BY <1>2
<1>7. IsFiniteSet(kept) /\ c \in 0..Len(chain)
  <2>1. IsFiniteSet(1..Len(chain)) /\ Cardinality(1..Len(chain)) = Len(chain)
    BY <1>2, <1>5
  <2>2. IsFiniteSet(kept) /\ c <= Len(chain)
    BY <1>6, <2>1, FS_Subset
  <2>3. c \in Nat
    BY <2>2, FS_CardinalityType
  <2> QED BY <1>2, <2>2, <2>3
<1>8. ASSUME NEW i \in 1..Len(chain), chain[i].confs > d PROVE i <= c
  <2>1. i \in Nat
    BY <1>2
  <2>2. 1..i \subseteq kept
    <3> SUFFICES ASSUME NEW j \in 1..i PROVE j \in kept
      OBVIOUS
    <3>1. j \in 1..Len(chain) /\ j <= i
      BY <1>2
    <3>2. chain[i].confs <= chain[j].confs
      BY <3>1 DEF IInv, ChainInv
    <3>3. chain[j].confs > d
      BY <1>3, <1>4, <1>8, <3>1, <3>2
    <3> QED BY <1>2, <3>1, <3>3
  <2>3. Cardinality(1..i) = i
    BY <1>5, <2>1
  <2> QED BY <1>7, <2>2, <2>3, FS_Subset
<1>9. /\ chain' \in Seq(Mined) /\ Len(chain') = c
      /\ \A i \in 1..c : chain'[i] = chain[i]
  BY <1>1, <1>7, PrefixFacts DEF IInv, L1Typed
<1>10. \A i \in 1..c : i \in 1..Len(chain)
  BY <1>2, <1>7
<1>11. \A i \in 1..Len(chain) : i > c =>
           [send |-> chain[i].send, version |-> chain[i].version] \in mempool'
  <2> SUFFICES ASSUME NEW i \in 1..Len(chain), i > c
               PROVE  [send |-> chain[i].send, version |-> chain[i].version] \in lost
    BY <1>1
  <2>1. i \notin kept
    BY <1>2, <1>7, <1>8
  <2> QED BY <1>2, <2>1
<1>12. \A tx \in lost : \E i \in 1..Len(chain) :
           tx = [send |-> chain[i].send, version |-> chain[i].version]
  BY <1>2
<1> HIDE DEF kept, lost, c
<1>13. \A tx \in lost : tx \in Txs /\ Crafted(tx.send)
  <2> SUFFICES ASSUME NEW tx \in lost PROVE tx \in Txs /\ Crafted(tx.send)
    OBVIOUS
  <2>1. PICK i \in 1..Len(chain) : tx = [send |-> chain[i].send, version |-> chain[i].version]
    BY <1>12
  <2>2. chain[i].send \in Sends /\ chain[i].version \in Nat
    BY <1>2 DEF Mined
  <2> QED BY <2>1, <2>2 DEF Txs, IInv, PhaseInv
<1>14. L1Typed'
  <2>1. poller' \in [Sends -> [Versions -> Pollers]]
    BY <1>1, AgedFacts DEF IInv
  <2> QED BY <1>1, <1>9, <1>13, <2>1 DEF IInv, L1Typed
<1>15. ChainInv'
  BY <1>1, <1>9, <1>10 DEF IInv, ChainInv
<1>16. ASSUME NEW s, NEW v, Final(s, v) PROVE Final(s, v)'
  <2>1. PICK i \in 1..Len(chain) :
            chain[i].send = s /\ chain[i].version = v /\ chain[i].confs >= NumConfirmations
    BY <1>16 DEF Final
  <2>2. chain[i].confs > d
    BY <1>2, <1>3, <1>4, <2>1
  <2>3. i \in 1..c
    BY <1>2, <1>7, <1>8, <2>2
  <2> QED BY <1>9, <2>1, <2>3 DEF Final
<1>17. PollerInv'
  <2> SUFFICES ASSUME NEW t \in Sends, NEW w \in Versions, poller'[t][w].at > 0
               PROVE  poller'[t][w].old /\ (poller'[t][w].at >= NumConfirmations => Final(t, w)')
    BY DEF PollerInv
  <2>1. /\ poller[t][w].at > 0 /\ poller'[t][w].old
        /\ poller'[t][w].at = IF poller[t][w].at < NumConfirmations
                              THEN poller[t][w].at + 0 ELSE poller[t][w].at
    BY <1>1, AgedFacts DEF IInv
  <2>2. poller[t][w].at \in Int
    BY DEF IInv, L1Typed, Pollers
  <2>3. poller'[t][w].at = poller[t][w].at
    BY <2>1, <2>2
  <2> QED BY <1>16, <2>1, <2>3 DEF IInv, PollerInv
<1>18. \A tx \in mempool' : Crafted(tx.send)
  BY <1>1, <1>13 DEF IInv, PhaseInv
<1>19. \A i \in 1..Len(chain') : Crafted(chain'[i].send)
  BY <1>9, <1>10 DEF IInv, PhaseInv
<1>20. ASSUME NEW n \in Nat, OnL1(n) PROVE OnL1(n)'
  <2>1. CASE n < c
    BY <1>9, <2>1 DEF OnL1
  <2>2. CASE ~(n < c) /\ n < Len(chain)
    <3>1. n + 1 \in 1..Len(chain) /\ n + 1 > c
      BY <1>2, <1>7, <2>2
    <3> DEFINE tx == [send |-> chain[n + 1].send, version |-> chain[n + 1].version]
    <3>2. tx \in mempool'
      BY <1>11, <3>1
    <3>3. nonceOf[chain[n + 1].send] = n + 1 - 1
      BY <3>1 DEF IInv, ChainInv
    <3>4. nonceOf'[tx.send] = n
      BY <1>1, <3>3
    <3> QED BY <3>2, <3>4 DEF OnL1, WithNonce
  <2>3. CASE WithNonce(n) # {}
    <3>1. PICK tx \in mempool : nonceOf[tx.send] = n
      BY <2>3 DEF WithNonce
    <3>2. tx \in mempool' /\ nonceOf'[tx.send] = n
      BY <1>1, <3>1
    <3> QED BY <3>2 DEF OnL1, WithNonce
  <2> QED BY <1>20, <2>1, <2>2, <2>3 DEF OnL1
<1> QED BY <1>1, <1>14, <1>15, <1>16, <1>17, <1>18, <1>19, <1>20, L1Step

-----------------------------------------------------------------------------
(* The results                                                             *)

LEMMA InitInv == Init => IInv
<1> SUFFICES ASSUME Init PROVE IInv
  OBVIOUS
<1>1. <<>> \in Seq(Mined) /\ Len(<<>>) = 0
  BY EmptySeq
<1>2. NoPoller \in Pollers /\ ~(NoPoller.at > 0)
  BY DEF NoPoller, Pollers
<1>3. SendsTyped
  <2>1. groupDone \in BOOLEAN
    BY Zenon DEF Init
  <2> QED BY <2>1 DEF Init, SendsTyped, Phases
<1>4. L1Typed /\ PollerInv
  BY <1>1, <1>2 DEF Init, L1Typed, PollerInv
<1>5. ChainInv
  BY <1>1 DEF Init, ChainInv
<1>6. PhaseInv
  BY <1>1 DEF Init, PhaseInv, Live
<1>7. ReceiptInv
  BY DEF Init, ReceiptInv
<1>8. NonceInv
  BY DEF Init, NonceInv
<1>9. GapInv
  BY DEF Init, GapInv
<1> QED BY <1>3, <1>4, <1>5, <1>6, <1>7, <1>8, <1>9 DEF IInv

LEMMA NextStep == IInv /\ [Next]_vars => IInv'
<1> SUFFICES ASSUME IInv, [Next]_vars PROVE IInv'
  OBVIOUS
<1>1. ASSUME NEW s \in Sends, QueueSend(s) PROVE IInv'
  BY <1>1, QueueSendStep
<1>2. ASSUME NEW s \in Sends, Step(s) PROVE IInv'
  <2>1. CASE Start(s) \/ CraftFails(s) \/ IncreaseGasPrice(s) \/ CheckWaiting(s) \/ Tick(s)
    BY <2>1, QuietSteps
  <2>2. CASE Craft(s)
    BY <2>2, CraftStep
  <2>3. CASE ResetNonce(s)
    BY <2>3, ResetStep
  <2>4. CASE Deliver(s)
    BY <2>4, DeliverStep
  <2>5. CASE SendAccepted(s) \/ SendRefused(s)
    BY <2>5, PublishSteps
  <2>6. CASE Abort(s) \/ Cancelled(s) \/ Confirmed(s)
    BY <2>6, EndSteps
  <2>7. CASE \E v \in Versions : QueryReceipt(s, v) \/ CheckConfirmations(s, v)
    BY <2>7, QueryStep, CheckStep
  <2> QED BY <1>2, <2>1, <2>2, <2>3, <2>4, <2>5, <2>6, <2>7 DEF Step
<1>3. CASE QueueWait
  BY <1>3, QueueWaitStep
<1>4. CASE Mine
  BY <1>4, MineStep
<1>5. ASSUME NEW d \in 1..ReorgDepth, Reorg(d) PROVE IInv'
  BY <1>5, ReorgStep
<1>6. CASE UNCHANGED vars
  <2>1. UNCHANGED <<nonce, pc, nonceOf, version, receiptChan, result, group, groupDone, chain,
                    mempool, poller>>
    BY <1>6 DEF vars, queue, l1
  <2>2. receiptChan' \in [Sends -> Nat] /\ L1Typed' /\ PollerInv' /\ ReceiptInv'
    BY <2>1 DEF IInv, SendsTyped, L1Typed, PollerInv, ReceiptInv, Final
  <2> QED BY <2>1, <2>2, SendsAlone
<1> QED BY <1>1, <1>2, <1>3, <1>4, <1>5, <1>6 DEF Next

LEMMA Invariance == Spec => []IInv
<1>1. Init => IInv
  BY InitInv
<1>2. IInv /\ [Next]_vars => IInv'
  BY NextStep
<1> QED BY <1>1, <1>2, PTL DEF Spec

(* What Send returns as confirmed is on L1 with NumConfirmations           *)
(* confirmations and stays there, although queryReceipt reads the receipt  *)
(* and the height at different times, for any reorganisations shallower    *)
(* than that.                                                              *)
THEOREM ReceiptsConfirmed == Spec => []ReceiptConfirmed
<1>1. IInv => ReceiptConfirmed
  <2> SUFFICES ASSUME IInv, NEW s \in Sends, result[s] # 0
               PROVE  \E i \in MinedAt(s, result[s]) : chain[i].confs >= NumConfirmations
    BY DEF ReceiptConfirmed
  <2>1. Final(s, result[s])
    BY DEF IInv, ReceiptInv
  <2>2. DOMAIN chain = 1..Len(chain)
    BY ChainFacts DEF IInv
  <2> QED BY <2>1, <2>2 DEF Final, MinedAt
<1> QED BY <1>1, Invariance, PTL

(* resetNonce and the cancelled group of the queue keep the nonces whole:  *)
(* no live send has a nonce above one that L1 does not know and that no    *)
(* send of its group has, for any number of sends at once, failures of     *)
(* signing and publishing, and an overflow of the nonce.                   *)
THEOREM NoncesWithoutGap == Spec => []NoNonceGap
<1>1. IInv => NoNonceGap
  <2> SUFFICES ASSUME IInv, ~groupDone, NEW s \in group, Live(s),
                      NEW n \in Len(chain)..(nonceOf[s] - 1)
               PROVE  \/ WithNonce(n) # {}
                      \/ \E t \in group : nonceOf[t] = n /\ pc[t] # "done"
    BY DEF NoNonceGap
  <2>1. Len(chain) \in Nat /\ nonceOf[s] \in Nat
    BY ChainFacts DEF IInv, SendsTyped, PhaseInv
  <2>2. n \in 0..(nonceOf[s] - 1) /\ ~(n < Len(chain))
    BY <2>1
  <2>3. \/ OnL1(n) \/ \E t \in group : Holds(t, n)
        \/ \E t \in group : nonceOf[t] = n /\ pc[t] = "deliver" /\ result[t] = 0
    BY <2>2 DEF IInv, GapInv
  <2>4. \A t \in group : Holds(t, n) => nonceOf[t] = n /\ pc[t] # "done"
    BY DEF Holds, Live
  <2> QED BY <2>2, <2>3, <2>4 DEF OnL1
<1> QED BY <1>1, Invariance, PTL
=============================================================================
