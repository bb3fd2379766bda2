-------------------------- MODULE BatchQueueProofs --------------------------
(***************************************************************************)
(* Proofs about BatchQueue, for any L1 timestamps, any batches in any      *)
(* channels, any sequencing window and drift, and resets at any moment.    *)
(***************************************************************************)
EXTENDS BatchQueue, FiniteSetTheorems, SequenceTheorems, WellFoundedInduction, TLAPS

(* The L2 epoch of block n of the chain, genesis included. *)
EpochAt(n) == IF n = 0 THEN 0 ELSE chain[n].epoch

Items == [batch : Batches, incl : Nat]

(* Nobody can know the hash of an L1 block before it exists. *)
Causal(b, n) == b.originOk => EndEpoch(b) < n

(* ch may have become ready at L1 block n. *)
ChannelAt(ch, n) ==
    \/ ch = Garbage
    \/ /\ ch \in Seq(Batches \cup {Garbage})
       /\ \A i \in DOMAIN ch : ch[i] # Garbage => Causal(ch[i], n)

ChannelsAt(cs, n) == cs \in Seq(Channels) /\ \A i \in DOMAIN cs : ChannelAt(cs[i], n)

(* bs are batches that were read from L1 blocks up to o. *)
Included(bs, o) ==
    /\ bs \in Seq(Items)
    /\ \A i \in DOMAIN bs : bs[i].incl <= o /\ Causal(bs[i].batch, bs[i].incl)

(* ls are consecutive L1 blocks up to o. *)
Consecutive(ls, o) == ls \in Seq(Nat) /\ \A i \in DOMAIN ls : ls[i] = o - Len(ls) + i

(* Block n, on a parent with epoch prev, keeps the rules on the drift. *)
InTime(prev, blk, n) ==
    LET late == Time(n) > L1Time[blk.epoch] + MaxSequencerDrift
    IN  /\ blk.txs # "forbidden"
        /\ late => blk.txs = "none"
        /\ late /\ blk.epoch = prev => /\ blk.epoch + 1 \in 0..MaxL1
                                       /\ Time(n) < L1Time[blk.epoch + 1]

(* span continues a chain of n blocks, of which the last has epoch prev. *)
SpanAfter(span, prev, n) ==
    \A k \in DOMAIN span :
        /\ span[k].time = Time(n + k)
        /\ InTime(IF k = 1 THEN prev ELSE span[k - 1].block.epoch, span[k].block, n + k)

-----------------------------------------------------------------------------
(* The inductive invariant                                                 *)

L1Inv ==
    /\ L1Head \in 0..MaxL1 /\ DOMAIN l1 = 0..L1Head
    /\ \A n \in DOMAIN l1 : ChannelsAt(l1[n], n)

ReadInv ==
    /\ l1Origin \in 0..L1Head /\ bqOrigin \in Nat /\ l1Origin \in {bqOrigin, bqOrigin + 1}
    /\ ChannelsAt(unread, l1Origin)
    /\ reader = None \/ ChannelAt(reader, l1Origin)

(* The buffered L1 blocks and batches.  Without L1 blocks the queue has    *)
(* not caught up with the safe head yet.                                   *)
BufferInv ==
    /\ Consecutive(l1Blocks, bqOrigin)
    /\ l1Blocks = <<>> => bqOrigin < Epoch(chain) /\ attributes = None /\ nextSpan = <<>>
    /\ Included(batches, l1Origin)

(* The chain keeps the protocol's rules, up to the pending safe head. *)
ChainInv ==
    /\ chain \in Seq(Blocks) /\ safe \in 0..Len(chain)
    /\ \A n \in 1..Len(chain) :
          /\ chain[n].epoch \in {EpochAt(n - 1), EpochAt(n - 1) + 1}
          /\ chain[n].epoch <= L1Head
          /\ Time(n) >= L1Time[chain[n].epoch]
          /\ chain[n].txs # "bad"
          /\ InTime(EpochAt(n - 1), chain[n], n)

(* A block to build is for an epoch that is buffered, and so are those of  *)
(* the span that is being applied, which follow one another.  When none is *)
(* left the pending safe head is the safe head.                            *)
SpanInv ==
    /\ nextSpan \in Seq([time : Nat, block : Blocks])
    /\ \A k \in DOMAIN nextSpan : nextSpan[k].block.epoch \in Range(l1Blocks)
    /\ attributes # None =>
          /\ attributes \in [block : Blocks, last : BOOLEAN]
          /\ attributes.block.epoch \in Range(l1Blocks)
          /\ InTime(Epoch(chain), attributes.block, Len(chain) + 1)
          /\ attributes.last <=> nextSpan = <<>>
          /\ SpanAfter(nextSpan, attributes.block.epoch, Len(chain) + 1)
    /\ attributes = None =>
          \/ nextSpan # <<>> /\ SpanAfter(nextSpan, Epoch(chain), Len(chain))
          \/ /\ safe = Len(chain)
             /\ nextSpan # <<>> => nextSpan[1].time > Time(Len(chain) + 1)

(* When the epoch of the safe head was given up, every batch that may be   *)
(* for it has been read, and those that remain are for later blocks.       *)
WindowInv ==
    l1Blocks # <<>> /\ l1Blocks[1] = EpochAt(safe) + 1 =>
        LET last == EpochAt(safe) + SeqWindowSize
        IN  /\ l1Origin > last \/ (l1Origin = last /\ AtEnd)
            /\ \A i \in DOMAIN batches :
                  batches[i].incl <= last => batches[i].batch.time > Time(safe + 1)

IInv == L1Inv /\ ReadInv /\ BufferInv /\ ChainInv /\ SpanInv /\ WindowInv /\ NoCriticalError

-----------------------------------------------------------------------------
(* Numbers                                                                 *)

LEMMA NatLess == \A x, y \in Nat : y < x => <<y, x>> \in OpToRel(<, Nat)
  BY DEF OpToRel

LEMMA NatMinimal ==
    ASSUME NEW R, IsWellFoundedOn(R, Nat), \A x, y \in Nat : y < x => <<y, x>> \in R,
           NEW S \in SUBSET Nat, S # {}
    PROVE  \E x \in S : \A y \in S : x <= y
<1>1. PICK x \in S : \A y \in S : ~(<<y, x>> \in R)
  BY WFMin
<1>2. \A y \in S : ~(y < x)
  BY <1>1
<1>3. \A y \in S : x <= y
  BY <1>2
<1> QED BY <1>3

LEMMA Smallest ==
    ASSUME NEW S \in SUBSET Nat, S # {}
    PROVE  \E x \in S : \A y \in S : x <= y
  BY NatLess, NatLessThanWellFounded, NatMinimal, Zenon

LEMMA MinOf ==
    ASSUME NEW S \in SUBSET Nat, S # {}
    PROVE  Min(S) \in S /\ \A y \in S : Min(S) <= y
  BY Smallest DEF Min

LEMMA MaxOf ==
    ASSUME NEW n \in Nat, NEW S \in SUBSET (0..n), S # {}
    PROVE  Max(S) \in S /\ \A y \in S : y <= Max(S)
<1> DEFINE U == {n - x : x \in S}
<1>1. U \in SUBSET Nat /\ U # {}
  OBVIOUS
<1>2. PICK u \in U : \A y \in U : u <= y
  BY <1>1, Smallest
<1>3. PICK x \in S : u = n - x
  BY <1>2
<1>4. \A y \in S : n - y \in U
  OBVIOUS
<1> HIDE DEF U
<1>5. \A y \in S : x >= y
  BY <1>2, <1>3, <1>4
<1> QED BY <1>5 DEF Max

LEMMA Parameters ==
    /\ BlockTime \in Nat \ {0} /\ SeqWindowSize \in Nat \ {0} /\ ChannelTimeout \in Nat \ {0}
    /\ MaxL1 \in Nat /\ MaxSequencerDrift \in Nat /\ L1Time \in [0..MaxL1 -> Nat]
  BY ParameterAssumption

LEMMA TimeNat ==
    ASSUME NEW n \in Nat
    PROVE  Time(n) \in Nat
  BY Parameters DEF Time

LEMMA TimeGrows ==
    ASSUME NEW m \in Int, NEW n \in Int, m < n
    PROVE  Time(m) < Time(n)
<1>1. BlockTime \in Nat \ {0}
  BY Parameters
<1>2. m * BlockTime < n * BlockTime
  BY <1>1
<1> QED BY <1>2 DEF Time

LEMMA TimeInt ==
    ASSUME NEW n \in Int
    PROVE  Time(n) \in Int
  BY Parameters DEF Time

LEMMA TimeOrder ==
    ASSUME NEW m \in Int, NEW n \in Int
    PROVE  (Time(m) < Time(n) <=> m < n) /\ (Time(m) = Time(n) <=> m = n)
<1>1. Time(m) \in Int /\ Time(n) \in Int
  BY TimeInt
<1>2. (m < n => Time(m) < Time(n)) /\ (n < m => Time(n) < Time(m))
  BY TimeGrows
<1> QED BY <1>1, <1>2

LEMMA TimeSum ==
    ASSUME NEW m \in Int, NEW n \in Int
    PROVE  Time(m) + n * BlockTime = Time(m + n) /\ Time(m) - n * BlockTime = Time(m - n)
<1>1. BlockTime \in Int
  BY Parameters
<1>2. /\ m * BlockTime + n * BlockTime = (m + n) * BlockTime
      /\ m * BlockTime - n * BlockTime = (m - n) * BlockTime
  BY <1>1
<1> QED BY <1>2 DEF Time

LEMMA L1TimeNat ==
    ASSUME NEW e \in 0..MaxL1
    PROVE  L1Time[e] \in Nat /\ L1Time[e] + MaxSequencerDrift \in Nat
  BY Parameters

LEMMA Divided ==
    ASSUME NEW t \in Nat, t % BlockTime = 0
    PROVE  t \div BlockTime \in Nat /\ t = (t \div BlockTime) * BlockTime
<1>1. t = (t \div BlockTime) * BlockTime + (t % BlockTime) /\ t \div BlockTime \in Nat
  BY Parameters
<1>2. (t \div BlockTime) * BlockTime \in Int
  BY <1>1, Parameters
<1> QED BY <1>1, <1>2

-----------------------------------------------------------------------------
(* Batches                                                                 *)

LEMMA BatchFacts ==
    ASSUME NEW b \in Batches
    PROVE  /\ b.time \in Nat /\ b.time >= BlockTime
           /\ b.blocks \in Seq(Blocks) /\ Len(b.blocks) \in Nat \ {0}
           /\ \A i \in 1..Len(b.blocks) : /\ b.blocks[i] \in Blocks
                                          /\ b.blocks[i].epoch \in 0..MaxL1
                                          /\ b.blocks[i].txs \in Txs
           /\ b.type = "singular" => Len(b.blocks) = 1
           /\ b.parent \in Seq(Blocks) /\ EndEpoch(b) = b.blocks[Len(b.blocks)].epoch
<1>1. /\ b.time \in Nat /\ b.time >= BlockTime /\ b.blocks \in Seq(Blocks) /\ b.blocks # <<>>
      /\ b.parent \in Seq(Blocks) /\ (b.type = "singular" => Len(b.blocks) = 1)
  BY BatchAssumption
<1>2. \A i \in 1..Len(b.blocks) : b.blocks[i] \in Blocks
  BY <1>1
<1>3. \A x \in Blocks : x.epoch \in 0..MaxL1 /\ x.txs \in Txs
  BY DEF Blocks
<1>4. Len(b.blocks) \in Nat \ {0}
  BY <1>1
<1>5. EndEpoch(b) = b.blocks[Len(b.blocks)].epoch
  BY DEF EndEpoch, Last
<1> QED BY <1>1, <1>2, <1>3, <1>4, <1>5

(* The epochs of a batch never go back. *)
LEMMA EpochsGrow ==
    ASSUME NEW b \in Batches, NEW i \in 1..Len(b.blocks), NEW j \in 1..Len(b.blocks), i <= j
    PROVE  b.blocks[i].epoch <= b.blocks[j].epoch
<1> DEFINE e(k) == b.blocks[k].epoch
           S == {k \in i..Len(b.blocks) : e(k) < e(i)}
<1>1. Len(b.blocks) \in Nat /\ \A k \in 1..Len(b.blocks) : e(k) \in Nat
  BY BatchFacts, Parameters
<1>2. \A k \in 2..Len(b.blocks) : e(k) \in {e(k - 1), e(k - 1) + 1}
  BY BatchAssumption
<1>3. SUFFICES ASSUME S # {} PROVE FALSE
  <2>1. j \notin S
    BY <1>3
  <2> QED BY <1>1, <2>1
<1>4. PICK k \in S : \A y \in S : k <= y
  <2>1. S \in SUBSET Nat
    OBVIOUS
  <2> QED BY <1>3, <2>1, Smallest
<1>5. k \in i..Len(b.blocks) /\ e(k) < e(i) /\ k # i
  BY <1>1, <1>4
<1>6. k - 1 \in i..Len(b.blocks) /\ k \in 2..Len(b.blocks) /\ k - 1 \notin S
  BY <1>1, <1>4, <1>5
<1>7. ~(e(k - 1) < e(i)) /\ e(k) \in {e(k - 1), e(k - 1) + 1}
  BY <1>2, <1>6
<1>8. e(k - 1) \in Nat /\ e(k) \in Nat /\ e(i) \in Nat
  BY <1>1, <1>5, <1>6
<1> HIDE DEF e, S
<1> QED BY <1>5, <1>7, <1>8

LEMMA DriftAccepts ==
    ASSUME NEW ls, NEW k, NEW originTime, NEW time, NEW txs, NEW advanced,
           DriftVerdict(ls, k, originTime, time, txs, advanced) = "accept"
    PROVE  \/ time <= originTime + MaxSequencerDrift
           \/ /\ txs = "none"
              /\ advanced \/ (~(k + 1 > Len(ls)) /\ ~(time >= L1Time[ls[k + 1]]))
  BY DEF DriftVerdict

(* What it takes for a block to be in time, in terms of the verdict. *)
LEMMA InTimeIf ==
    ASSUME NEW ls, NEW o \in 0..MaxL1, Consecutive(ls, o),
           NEW k \in DOMAIN ls, NEW blk \in Blocks, blk.epoch = ls[k], blk.txs # "forbidden",
           NEW n \in Nat, NEW advanced, NEW prev, advanced => blk.epoch # prev,
           DriftVerdict(ls, k, L1Time[blk.epoch], Time(n), blk.txs, advanced) = "accept"
    PROVE  InTime(prev, blk, n)
<1>0. blk.epoch \in 0..MaxL1 /\ MaxL1 \in Nat
  BY Parameters DEF Blocks
<1>1. /\ Time(n) \in Nat /\ L1Time[blk.epoch] + MaxSequencerDrift \in Nat
      /\ blk.epoch \in 0..MaxL1 /\ MaxL1 \in Nat
  BY <1>0, TimeNat, L1TimeNat
<1>2. SUFFICES ASSUME Time(n) > L1Time[blk.epoch] + MaxSequencerDrift
               PROVE  /\ blk.txs = "none"
                      /\ blk.epoch = prev => /\ blk.epoch + 1 \in 0..MaxL1
                                             /\ Time(n) < L1Time[blk.epoch + 1]
  BY DEF InTime
<1>3. blk.txs = "none" /\ (advanced \/ (~(k + 1 > Len(ls)) /\ ~(Time(n) >= L1Time[ls[k + 1]])))
  BY <1>1, <1>2, DriftAccepts
<1>4. ASSUME blk.epoch = prev
      PROVE  blk.epoch + 1 \in 0..MaxL1 /\ Time(n) < L1Time[blk.epoch + 1]
  <2>1. ~(k + 1 > Len(ls)) /\ ~(Time(n) >= L1Time[ls[k + 1]])
    BY <1>3, <1>4
  <2>2. PICK N \in Nat : N = Len(ls) /\ DOMAIN ls = 1..N
    BY DEF Consecutive
  <2>3. k \in 1..N /\ k + 1 \in 1..N
    BY <2>1, <2>2
  <2>4. ls[k + 1] = blk.epoch + 1 /\ blk.epoch + 1 \in 0..MaxL1
    <3>1. \A j \in 1..N : ls[j] = o - N + j
      BY <2>2 DEF Consecutive
    <3>2. blk.epoch = o - N + k /\ ls[k + 1] = o - N + (k + 1)
      BY <2>3, <3>1
    <3>3. PICK m \in Nat : m = k
      BY <2>3
    <3>4. o - N + (m + 1) = (o - N + m) + 1 /\ o - N + (m + 1) <= o /\ o \in Nat /\ o <= MaxL1
      BY <1>0, <2>3, <3>3
    <3>5. ls[k + 1] = blk.epoch + 1 /\ ls[k + 1] <= MaxL1
      <4>1. blk.epoch = o - N + m /\ ls[k + 1] = o - N + (m + 1)
        BY <3>2, <3>3
      <4> QED BY <1>0, <3>4, <4>1
    <3> QED BY <1>0, <3>5
  <2>5. L1Time[blk.epoch + 1] \in Nat
    BY <2>4, Parameters
  <2> QED BY <1>1, <2>1, <2>4, <2>5
<1> QED BY <1>3, <1>4

LEMMA EpochOf ==
    ASSUME NEW c \in Seq(Blocks)
    PROVE  Epoch(c) \in 0..MaxL1 /\ Epoch(c) = IF Len(c) = 0 THEN 0 ELSE c[Len(c)].epoch
<1>1. CASE c = <<>>
  BY <1>1, Parameters DEF Epoch
<1>2. CASE c # <<>>
  <2>1. Len(c) \in 1..Len(c) /\ Len(c) # 0 /\ c[Len(c)] \in Blocks
    BY <1>2
  <2> QED BY <1>2, <2>1 DEF Epoch, Last, Blocks
<1> QED BY <1>1, <1>2

(* The first block after the chain c, with the L1 blocks ls.               *)
Matching(ls, c) == ls # <<>> /\ (Epoch(c) = ls[1] \/ Epoch(c) + 1 = ls[1])

LEMMA SingularAccepted ==
    ASSUME NEW c \in Seq(Blocks), NEW b \in Batches, b.type = "singular", NEW incl,
           NEW ls, NEW o \in 0..MaxL1, Consecutive(ls, o), Matching(ls, c),
           CheckSingularBatch(ls, c, b, incl) = "accept"
    PROVE  /\ b.time = Time(Len(c) + 1)
           /\ \E k \in DOMAIN ls : ls[k] = b.blocks[1].epoch
           /\ InTime(Epoch(c), b.blocks[1], Len(c) + 1)
<1> DEFINE blk == b.blocks[1]
<1>1. /\ b.time \in Nat /\ blk \in Blocks /\ blk.epoch \in 0..MaxL1 /\ Epoch(c) \in 0..MaxL1
      /\ Len(c) + 1 \in Nat /\ Time(Len(c) + 1) \in Nat /\ MaxL1 \in Nat
  <2>1. b.time \in Nat /\ blk \in Blocks /\ blk.epoch \in 0..MaxL1
    BY BatchFacts
  <2>2. Len(c) + 1 \in Nat
    OBVIOUS
  <2> QED BY <2>1, <2>2, EpochOf, TimeNat, Parameters
<1>2. /\ ls # <<>> /\ ~(b.time > Time(Len(c) + 1)) /\ ~(b.time < Time(Len(c) + 1))
      /\ ~(blk.epoch < ls[1]) /\ ~(blk.epoch = ls[1] + 1 /\ Len(ls) < 2)
      /\ ~(blk.epoch > ls[1] + 1)
      /\ DriftVerdict(ls, 1, L1Time[blk.epoch], b.time, blk.txs, blk.epoch # ls[1]) = "accept"
      /\ blk.txs # "forbidden"
  BY DEF CheckSingularBatch
<1>3. Len(ls) \in Nat \ {0} /\ ls[1] \in Nat
  BY <1>2 DEF Consecutive
<1>4. b.time = Time(Len(c) + 1)
  BY <1>1, <1>2
<1>5. CASE blk.epoch = ls[1]
  <2>1. 1 \in DOMAIN ls
    BY <1>3 DEF Consecutive
  <2> QED BY <1>1, <1>2, <1>4, <1>5, <2>1, InTimeIf
<1>6. CASE blk.epoch # ls[1]
  <2>1. blk.epoch = ls[1] + 1 /\ Len(ls) >= 2
    BY <1>1, <1>2, <1>3, <1>6
  <2>2. 2 \in DOMAIN ls /\ 1 \in DOMAIN ls
    BY <1>3, <2>1 DEF Consecutive
  <2>3. ls[2] = o - Len(ls) + 2 /\ ls[1] = o - Len(ls) + 1
    BY <2>2 DEF Consecutive
  <2>4. ls[2] = blk.epoch
    BY <1>3, <2>1, <2>3
  <2>5. blk.epoch # Epoch(c)
    BY <1>1, <1>3, <2>1 DEF Matching
  <2>6. InTime(Epoch(c), blk, Len(c) + 1)
    <3>1. Time(Len(c) + 1) > L1Time[blk.epoch] + MaxSequencerDrift => blk.txs = "none"
      <4>1. L1Time[blk.epoch] + MaxSequencerDrift \in Nat
        BY <1>1, L1TimeNat
      <4> QED BY <1>1, <1>2, <1>4, <4>1, DriftAccepts
    <3> QED BY <1>2, <2>5, <3>1 DEF InTime
  <2> QED BY <1>4, <2>2, <2>4, <2>6
<1> QED BY <1>5, <1>6

LEMMA CardOfRange ==
    ASSUME NEW n \in Nat
    PROVE  Cardinality(1..n) = n
<1>1. Cardinality(1..n) = IF 1 > n THEN 0 ELSE n - 1 + 1
  BY FS_Interval
<1> QED BY <1>1

(* The parent of a span batch that is accepted. *)
LEMMA SpanParent ==
    ASSUME NEW c \in Seq(Blocks), NEW b \in Batches, NEW incl, NEW ls,
           CheckSpanBatch(ls, c, b, incl) = "accept"
    PROVE  \E p \in 0..Len(c) :
              /\ b.time = Time(p + 1)
              /\ ~(BlockTimestamp(b, Len(b.blocks)) < Time(Len(c) + 1))
              /\ StartEpoch(b) \in {Epoch(SubSeq(c, 1, p)), Epoch(SubSeq(c, 1, p)) + 1}
              /\ ~(StartEpoch(b) + SeqWindowSize < incl)
              /\ NewBlocksVerdict(ls, c, b, StartEpoch(b) = Epoch(SubSeq(c, 1, p)) + 1) = "accept"
              /\ p < Len(c) => OverlapMatches(c, b, p)
              /\ EndEpoch(b) \in Range(ls)
<1> DEFINE next == Time(Len(c) + 1)
           overlap == b.time < next
           p == IF overlap THEN Len(c) - ((Time(Len(c)) - b.time) \div BlockTime) - 1 ELSE Len(c)
           e == Epoch(SubSeq(c, 1, p))
<1>1. /\ ~(b.time > next) /\ ~(BlockTimestamp(b, Len(b.blocks)) < next)
      /\ ~(overlap /\ b.time > Time(Len(c)))
      /\ ~(overlap /\ (Time(Len(c)) - b.time) % BlockTime # 0)
      /\ ~(StartEpoch(b) > e + 1) /\ ~(StartEpoch(b) < e) /\ EndEpoch(b) \in Range(ls)
      /\ ~(StartEpoch(b) + SeqWindowSize < incl)
      /\ NewBlocksVerdict(ls, c, b, StartEpoch(b) = e + 1) = "accept"
      /\ ~(overlap /\ ~OverlapMatches(c, b, p))
  BY DEF CheckSpanBatch
<1>2. b.time \in Nat /\ b.time >= BlockTime /\ StartEpoch(b) \in Nat
  <2>1. b.time \in Nat /\ b.time >= BlockTime /\ 1 \in 1..Len(b.blocks)
    BY BatchFacts
  <2> QED BY <2>1, BatchFacts, Parameters DEF StartEpoch
<1>3. Len(c) \in Nat /\ Time(Len(c)) \in Nat /\ next \in Nat /\ Time(1) = BlockTime
  BY TimeNat, Parameters DEF Time
<1>4. p \in 0..Len(c) /\ b.time = Time(p + 1) /\ (p < Len(c) => overlap)
  <2>1. CASE ~overlap
    BY <1>1, <1>2, <1>3, <2>1
  <2>2. CASE overlap
    <3>1. PICK d \in Nat : d = Time(Len(c)) - b.time /\ d % BlockTime = 0
      BY <1>1, <1>2, <1>3, <2>2
    <3>2. PICK q \in Nat : q = d \div BlockTime /\ d = q * BlockTime
      BY <3>1, Divided
    <3>4. Time(Len(c)) - q * BlockTime = Time(Len(c) - q)
      BY <1>3, <3>2, TimeSum
    <3>5. b.time = Time(Len(c) - q)
      <4>1. b.time = Time(Len(c)) - d
        BY <1>2, <1>3, <3>1
      <4> QED BY <3>2, <3>4, <4>1
    <3>6. Len(c) - q \in Int /\ ~(Time(Len(c) - q) < Time(1))
      <4>1. Len(c) - q \in Int /\ BlockTime \in Nat
        BY <1>3, Parameters
      <4> QED BY <1>2, <1>3, <3>5, <4>1
    <3>7. ~(Len(c) - q < 1)
      BY <3>6, TimeOrder
    <3>8. p = Len(c) - q - 1
      BY <2>2, <3>1, <3>2
    <3> HIDE DEF p, overlap
    <3>9. p \in 0..Len(c) /\ p + 1 = Len(c) - q
      BY <1>3, <3>7, <3>8
    <3> QED BY <2>2, <3>5, <3>9
  <2> QED BY <2>1, <2>2
<1>5. e \in Nat
  <2>1. SubSeq(c, 1, p) \in Seq(Blocks)
    BY <1>4
  <2> QED BY <2>1, EpochOf, Parameters
<1> HIDE DEF p, overlap, e
<1>6. StartEpoch(b) \in {e, e + 1}
  BY <1>1, <1>2, <1>5
<1> QED BY <1>1, <1>4, <1>6 DEF e

(* Every block that is not old is accepted. *)
LEMMA NewBlocksAccepted ==
    ASSUME NEW ls, NEW c, NEW b \in Batches, NEW advanced,
           NewBlocksVerdict(ls, c, b, advanced) = "accept",
           NEW i \in 1..Len(b.blocks), BlockTimestamp(b, i) > Time(Len(c))
    PROVE  CheckSpanBlock(ls, b, i, advanced) = "accept"
<1> DEFINE new == {k \in DOMAIN b.blocks : BlockTimestamp(b, k) > Time(Len(c))}
           refused == {k \in new : CheckSpanBlock(ls, b, k, advanced) # "accept"}
<1>1. DOMAIN b.blocks = 1..Len(b.blocks) /\ Len(b.blocks) \in Nat
  BY BatchFacts
<1>2. SUFFICES ASSUME refused # {} PROVE FALSE
  BY <1>1
<1>3. refused \in SUBSET Nat
  BY <1>1
<1>4. Min(refused) \in refused
  BY <1>2, <1>3, MinOf
<1>5. CheckSpanBlock(ls, b, Min(refused), advanced) # "accept"
  BY <1>4
<1> QED BY <1>2, <1>5 DEF NewBlocksVerdict

LEMMA SpanBlockAccepted ==
    ASSUME NEW ls, NEW o \in 0..MaxL1, Consecutive(ls, o), NEW b \in Batches,
           NEW i \in 1..Len(b.blocks), NEW j \in DOMAIN ls, ls[j] = b.blocks[i].epoch,
           NEW n \in Nat, BlockTimestamp(b, i) = Time(n), NEW advanced, NEW prev,
           IF i > 1 THEN prev = b.blocks[i - 1].epoch ELSE advanced => b.blocks[1].epoch # prev,
           CheckSpanBlock(ls, b, i, advanced) = "accept"
    PROVE  InTime(prev, b.blocks[i], n)
<1> DEFINE blk == b.blocks[i]
           k == CHOOSE m \in DOMAIN ls : ls[m] = blk.epoch
           adv == IF i > 1 THEN blk.epoch > b.blocks[i - 1].epoch ELSE advanced
<1>1. k \in DOMAIN ls /\ ls[k] = blk.epoch /\ blk.epoch \in Range(ls)
  BY DEF Range
<1>2. blk \in Blocks /\ blk.epoch \in Nat /\ (i > 1 => b.blocks[i - 1].epoch \in Nat)
  <2>1. \A m \in 1..Len(b.blocks) : b.blocks[m] \in Blocks /\ b.blocks[m].epoch \in Nat
    BY BatchFacts, Parameters
  <2>2. i > 1 => i - 1 \in 1..Len(b.blocks)
    BY BatchFacts
  <2> QED BY <2>1, <2>2
<1>3. /\ DriftVerdict(ls, k, L1Time[blk.epoch], Time(n), blk.txs, adv) = "accept"
      /\ blk.txs # "forbidden"
  BY <1>1 DEF CheckSpanBlock
<1>4. adv => blk.epoch # prev
  BY <1>2
<1> HIDE DEF k, adv, blk
<1>5. InTime(prev, blk, n)
  BY <1>1, <1>2, <1>3, <1>4, InTimeIf
<1> QED BY <1>5 DEF blk

(* The L1 blocks between two buffered ones are buffered. *)
LEMMA Between ==
    ASSUME NEW ls, NEW o \in Int, Consecutive(ls, o), NEW m \in DOMAIN ls,
           NEW e \in Nat, ls[1] <= e, e <= ls[m]
    PROVE  \E j \in DOMAIN ls : ls[j] = e
<1>1. PICK N \in Nat : N = Len(ls)
  BY DEF Consecutive
<1>2. DOMAIN ls = 1..N
  BY <1>1 DEF Consecutive
<1>3. \A i \in 1..N : ls[i] = o - N + i
  BY <1>1, <1>2 DEF Consecutive
<1>4. m \in 1..N /\ 1 \in 1..N
  BY <1>2
<1>5. ls[1] = o - N + 1 /\ ls[m] = o - N + m
  BY <1>3, <1>4
<1>6. PICK j \in 1..N : j = e - (o - N)
  BY <1>4, <1>5
<1>7. ls[j] = e
  BY <1>3, <1>6
<1> QED BY <1>2, <1>7

(* b brings blocks that continue the chain c after its first old ones.     *)
Continues(b, old, c, ls) ==
    \A k \in 1..(Len(b.blocks) - old) :
       /\ BlockTimestamp(b, old + k) = Time(Len(c) + k)
       /\ \E j \in DOMAIN ls : ls[j] = b.blocks[old + k].epoch
       /\ InTime(IF k = 1 THEN Epoch(c) ELSE b.blocks[old + k - 1].epoch,
                 b.blocks[old + k], Len(c) + k)

LEMMA SpanAccepted ==
    ASSUME NEW c \in Seq(Blocks), NEW b \in Batches, NEW incl,
           NEW ls, NEW o \in 0..MaxL1, Consecutive(ls, o), Matching(ls, c),
           CheckSpanBatch(ls, c, b, incl) = "accept",
           ls[1] = Epoch(c) + 1 => StartEpoch(b) > Epoch(c)
    PROVE  \E old \in Nat : /\ old = OldBlocks(c, b) /\ old < Len(b.blocks)
                            /\ Continues(b, old, c, ls)
<1>0. PICK L \in Nat \ {0} : L = Len(b.blocks)
  BY BatchFacts
<1>1. PICK p \in 0..Len(c) :
         /\ b.time = Time(p + 1)
         /\ ~(BlockTimestamp(b, L) < Time(Len(c) + 1))
         /\ StartEpoch(b) \in {Epoch(SubSeq(c, 1, p)), Epoch(SubSeq(c, 1, p)) + 1}
         /\ NewBlocksVerdict(ls, c, b, StartEpoch(b) = Epoch(SubSeq(c, 1, p)) + 1) = "accept"
         /\ p < Len(c) => OverlapMatches(c, b, p)
         /\ EndEpoch(b) \in Range(ls)
  BY <1>0, SpanParent
<1>2. Len(c) \in Nat /\ L \in Nat \ {0} /\ Epoch(c) \in Nat /\ p \in Nat
  BY <1>0, EpochOf, Parameters
<1>3. \A i \in 1..L : BlockTimestamp(b, i) = Time(p + i)
  <2> SUFFICES ASSUME NEW i \in 1..L PROVE BlockTimestamp(b, i) = Time(p + i)
    OBVIOUS
  <2>1. p + 1 \in Int /\ i - 1 \in Int /\ (p + 1) + (i - 1) = p + i
    BY <1>2
  <2>2. Time(p + 1) + (i - 1) * BlockTime = Time((p + 1) + (i - 1))
    BY <2>1, TimeSum
  <2> QED BY <1>1, <2>1, <2>2 DEF BlockTimestamp
<1>4. PICK old \in 0..L : old = Len(c) - p /\ old < L
  <2>1. ~(Time(p + L) < Time(Len(c) + 1)) /\ p + L \in Int /\ Len(c) + 1 \in Int
    BY <1>1, <1>2, <1>3
  <2>2. ~(p + L < Len(c) + 1)
    BY <2>1, TimeOrder
  <2> QED BY <1>2, <2>2
<1>5. old = OldBlocks(c, b)
  <2>1. \A i \in 1..L : BlockTimestamp(b, i) <= Time(Len(c)) <=> i \in 1..old
    <3> SUFFICES ASSUME NEW i \in 1..L
                 PROVE  Time(p + i) <= Time(Len(c)) <=> i \in 1..old
      BY <1>3
    <3>1. PICK m \in Int : m = p + i
      BY <1>2
    <3>2. /\ Time(m) \in Int /\ Time(Len(c)) \in Int
          /\ Time(Len(c)) < Time(m) <=> Len(c) < m
      <4>1. Len(c) \in Int
        BY <1>2
      <4> QED BY <4>1, TimeOrder, TimeInt
    <3>3. Time(m) <= Time(Len(c)) <=> ~(Len(c) < m)
      BY <3>2
    <3>4. ~(Len(c) < m) <=> i \in 1..old
      BY <1>2, <1>4, <3>1
    <3> QED BY <3>1, <3>3, <3>4
  <2>2. {i \in DOMAIN b.blocks : BlockTimestamp(b, i) <= Time(Len(c))} = 1..old
    <3>1. DOMAIN b.blocks = 1..L
      BY <1>0, BatchFacts
    <3>2. \A i \in 1..old : i \in 1..L
      BY <1>2, <1>4
    <3> QED BY <2>1, <3>1, <3>2
  <2>3. old \in Nat
    BY <1>4
  <2> QED BY <2>2, <2>3, CardOfRange DEF OldBlocks
<1>6. old > 0 => b.blocks[old].epoch = Epoch(c)
  <2> SUFFICES ASSUME old > 0 PROVE b.blocks[old].epoch = Epoch(c)
    OBVIOUS
  <2>1. p < Len(c) /\ old \in 1..(Len(c) - p) /\ p + old = Len(c)
    BY <1>2, <1>4
  <2>2. c[Len(c)] = b.blocks[old]
    BY <1>1, <2>1 DEF OverlapMatches
  <2> QED BY <1>2, <2>1, <2>2, EpochOf
<1>7. old = 0 => SubSeq(c, 1, p) = c
  BY <1>2, <1>4
<1>8. b.blocks[old + 1].epoch \in {Epoch(c), Epoch(c) + 1}
  <2>1. CASE old = 0
    <3>1. old + 1 = 1
      BY <2>1
    <3> QED BY <1>1, <1>7, <2>1, <3>1 DEF StartEpoch
  <2>2. CASE old > 0
    <3>1. old + 1 \in 2..L /\ (old + 1) - 1 = old
      BY <1>2, <1>4, <2>2
    <3>2. b.blocks[old + 1].epoch \in {b.blocks[old].epoch, b.blocks[old].epoch + 1}
      BY <1>0, <3>1, BatchAssumption
    <3> QED BY <1>6, <2>2, <3>2
  <2> QED BY <1>4, <2>1, <2>2
<1>9. \A i \in 1..L : b.blocks[i].epoch \in Nat
  BY <1>0, BatchFacts, Parameters
<1>10. ls[1] <= b.blocks[old + 1].epoch /\ 1 \in DOMAIN ls /\ ls[1] \in Nat
  <2>1. 1 \in DOMAIN ls /\ ls[1] \in Nat
    BY DEF Matching, Consecutive
  <2>2. CASE ls[1] = Epoch(c) + 1
    <3>1. 1 \in 1..L /\ old + 1 \in 1..L /\ 1 <= old + 1
      BY <1>2, <1>4
    <3>2. b.blocks[1].epoch <= b.blocks[old + 1].epoch
      BY <1>0, <3>1, EpochsGrow
    <3> QED BY <1>2, <1>9, <2>1, <2>2, <3>1, <3>2 DEF StartEpoch
  <2>3. CASE ls[1] = Epoch(c)
    BY <1>2, <1>8, <2>1, <2>3
  <2> QED BY <2>1, <2>2, <2>3 DEF Matching
<1>11. \A i \in (old + 1)..L : \E j \in DOMAIN ls : ls[j] = b.blocks[i].epoch
  <2> SUFFICES ASSUME NEW i \in (old + 1)..L
               PROVE  \E j \in DOMAIN ls : ls[j] = b.blocks[i].epoch
    OBVIOUS
  <2>1. i \in 1..L /\ old + 1 \in 1..L /\ L \in 1..L /\ old + 1 <= i /\ i <= L
    BY <1>2, <1>4
  <2>2. b.blocks[old + 1].epoch <= b.blocks[i].epoch /\ b.blocks[i].epoch <= b.blocks[L].epoch
    BY <1>0, <2>1, EpochsGrow
  <2>3. PICK m \in DOMAIN ls : ls[m] = b.blocks[L].epoch
    <3>1. EndEpoch(b) = b.blocks[L].epoch
      BY <1>0, BatchFacts
    <3> QED BY <1>1, <3>1 DEF Range
  <2>4. b.blocks[i].epoch \in Nat /\ ls[1] <= b.blocks[i].epoch /\ b.blocks[i].epoch <= ls[m]
    <3>1. /\ b.blocks[i].epoch \in Nat /\ b.blocks[old + 1].epoch \in Nat /\ ls[1] \in Nat
          /\ ls[1] <= b.blocks[old + 1].epoch
      BY <1>9, <1>10, <2>1
    <3> QED BY <2>2, <2>3, <3>1
  <2>5. o \in Int
    OBVIOUS
  <2> QED BY <2>4, <2>5, Between
<1>12. ASSUME NEW k \in 1..(L - old)
       PROVE  /\ BlockTimestamp(b, old + k) = Time(Len(c) + k)
              /\ \E j \in DOMAIN ls : ls[j] = b.blocks[old + k].epoch
              /\ InTime(IF k = 1 THEN Epoch(c) ELSE b.blocks[old + k - 1].epoch,
                        b.blocks[old + k], Len(c) + k)
  <2> DEFINE i == old + k
             prev == IF k = 1 THEN Epoch(c) ELSE b.blocks[old + k - 1].epoch
             advanced == StartEpoch(b) = Epoch(SubSeq(c, 1, p)) + 1
  <2>1. /\ i \in 1..L /\ i \in (old + 1)..L /\ p + i = Len(c) + k /\ Len(c) + k \in Nat
        /\ Len(c) < Len(c) + k
    BY <1>2, <1>4
  <2>2. BlockTimestamp(b, i) = Time(Len(c) + k)
    BY <1>3, <2>1
  <2>3. PICK j \in DOMAIN ls : ls[j] = b.blocks[i].epoch
    BY <1>11, <2>1
  <2>4. BlockTimestamp(b, i) > Time(Len(c))
    <3>1. Time(Len(c)) < Time(Len(c) + k) /\ Time(Len(c)) \in Int /\ Time(Len(c) + k) \in Int
      BY <1>2, <2>1, TimeOrder, TimeInt
    <3> QED BY <2>2, <3>1
  <2>5. CheckSpanBlock(ls, b, i, advanced) = "accept"
    BY <1>0, <1>1, <2>1, <2>4, NewBlocksAccepted
  <2>6. IF i > 1 THEN prev = b.blocks[i - 1].epoch ELSE advanced => b.blocks[1].epoch # prev
    <3>1. CASE k # 1
      <4>1. i > 1
        BY <1>4, <3>1
      <4> QED BY <3>1, <4>1
    <3>2. CASE k = 1 /\ old > 0
      <4>1. i > 1 /\ i - 1 = old
        BY <1>4, <3>2
      <4> QED BY <1>6, <3>2, <4>1
    <3>3. CASE k = 1 /\ old = 0
      <4>1. ~(i > 1) /\ prev = Epoch(c)
        BY <3>3
      <4>2. advanced => b.blocks[1].epoch = Epoch(c) + 1
        BY <1>7, <3>3 DEF StartEpoch
      <4> QED BY <1>2, <4>1, <4>2
    <3> QED BY <1>4, <3>1, <3>2, <3>3
  <2> HIDE DEF advanced, prev, i
  <2>7. InTime(prev, b.blocks[i], Len(c) + k)
    BY <1>0, <2>1, <2>2, <2>3, <2>5, <2>6, SpanBlockAccepted
  <2> QED BY <2>2, <2>3, <2>7 DEF i, prev
<1>13. old \in Nat
  BY <1>4
<1>14. Continues(b, old, c, ls)
  BY <1>0, <1>12 DEF Continues
<1> QED BY <1>0, <1>4, <1>5, <1>13, <1>14

-----------------------------------------------------------------------------
(* What the queue prepares before it reads                                 *)

LEMMA EpochAtLast ==
    ASSUME ChainInv
    PROVE  /\ Epoch(chain) = EpochAt(Len(chain)) /\ Epoch(chain) \in 0..MaxL1
           /\ Len(chain) \in Nat /\ MaxL1 \in Nat /\ Epoch(chain) \in Nat
<1>1. chain \in Seq(Blocks)
  BY DEF ChainInv
<1> QED BY <1>1, EpochOf, Parameters DEF EpochAt

LEMMA AtSafeHead ==
    ASSUME SpanInv, ChainInv, attributes = None, ~SpanContinues
    PROVE  safe = Len(chain)
<1>1. CASE nextSpan # <<>> /\ SpanAfter(nextSpan, Epoch(chain), Len(chain))
  <2>1. 1 \in DOMAIN nextSpan /\ Head(nextSpan) = nextSpan[1]
    BY <1>1 DEF SpanInv
  <2>2. nextSpan[1].time = Time(Len(chain) + 1)
    BY <1>1, <2>1 DEF SpanAfter
  <2> QED BY <1>1, <2>1, <2>2 DEF SpanContinues
<1> QED BY <1>1 DEF SpanInv

LEMMA SuffixConsecutive ==
    ASSUME NEW ls, NEW o \in Nat, Consecutive(ls, o), NEW i \in DOMAIN ls
    PROVE  /\ Consecutive(SubSeq(ls, i, Len(ls)), o)
           /\ SubSeq(ls, i, Len(ls)) # <<>> /\ SubSeq(ls, i, Len(ls))[1] = ls[i]
<1> DEFINE t == SubSeq(ls, i, Len(ls))
<1>1. PICK N \in Nat : N = Len(ls) /\ DOMAIN ls = 1..N
  BY DEF Consecutive
<1>2. i \in 1..N /\ ls \in Seq(Nat) /\ \A k \in 1..N : ls[k] = o - N + k
  BY <1>1 DEF Consecutive
<1>3. t \in Seq(Nat) /\ Len(t) = N - i + 1 /\ DOMAIN t = 1..(N - i + 1)
  BY <1>1, <1>2
<1>4. \A k \in 1..(N - i + 1) : i + k - 1 \in 1..N
  <2>1. i \in 1..N
    BY <1>2
  <2> QED BY <2>1
<1>5. \A k \in 1..(N - i + 1) : t[k] = ls[i + k - 1]
  <2>1. i \in Int /\ N \in Int
    BY <1>2
  <2>2. \A j \in i..N : ls[j] \in Nat
    BY <1>1, <1>2
  <2>3. \A k \in 1..(N - i + 1) : SubSeq(ls, i, N)[k] = ls[i + k - 1]
    BY <2>1, <2>2, SubSeqProperties
  <2> QED BY <1>1, <2>3
<1> HIDE DEF t
<1>6. \A k \in 1..(N - i + 1) : t[k] = o - N + (i + k - 1)
  BY <1>2, <1>4, <1>5
<1>7. \A k \in DOMAIN t : t[k] = o - Len(t) + k
  <2> SUFFICES ASSUME NEW k \in 1..(N - i + 1) PROVE t[k] = o - (N - i + 1) + k
    BY <1>3
  <2>1. PICK m \in Nat : m = i
    BY <1>2
  <2>2. o - N + (m + k - 1) = o - (N - m + 1) + k
    BY <2>1
  <2> QED BY <1>6, <2>1, <2>2
<1>8. 1 \in 1..(N - i + 1) /\ i + 1 - 1 = i
  BY <1>2
<1>9. Consecutive(t, o)
  BY <1>3, <1>7 DEF Consecutive
<1>10. t # <<>> /\ t[1] = ls[i]
  BY <1>2, <1>3, <1>5, <1>8
<1> QED BY <1>9, <1>10 DEF t

LEMMA AppendConsecutive ==
    ASSUME NEW ls, NEW o \in Nat, Consecutive(ls, o)
    PROVE  /\ Consecutive(Append(ls, o + 1), o + 1)
           /\ Append(ls, o + 1) # <<>>
           /\ Append(ls, o + 1)[1] = IF ls = <<>> THEN o + 1 ELSE ls[1]
<1>1. PICK N \in Nat : N = Len(ls) /\ DOMAIN ls = 1..N
  BY DEF Consecutive
<1>2. ls \in Seq(Nat) /\ \A k \in 1..N : ls[k] = o - N + k
  BY <1>1 DEF Consecutive
<1>3. PICK t : t = Append(ls, o + 1)
  OBVIOUS
<1>4. /\ t \in Seq(Nat) /\ Len(t) = N + 1 /\ DOMAIN t = 1..(N + 1)
      /\ t[N + 1] = o + 1 /\ \A k \in 1..N : t[k] = ls[k]
  BY <1>1, <1>2, <1>3
<1>5. \A k \in 1..(N + 1) : k \in 1..N \/ k = N + 1
  OBVIOUS
<1>6. \A k \in 1..(N + 1) : t[k] = (o + 1) - (N + 1) + k
  <2> TAKE k \in 1..(N + 1)
  <2>1. CASE k \in 1..N
    <3>1. t[k] = o - N + k
      BY <1>2, <1>4, <2>1
    <3> QED BY <3>1
  <2>2. CASE k = N + 1
    <3>1. t[k] = o + 1
      BY <1>4, <2>2
    <3> QED BY <2>2, <3>1
  <2> QED BY <1>5, <2>1, <2>2
<1>7. Consecutive(t, o + 1) /\ t # <<>>
  BY <1>4, <1>6 DEF Consecutive
<1>8. t[1] = IF ls = <<>> THEN o + 1 ELSE ls[1]
  <2>1. CASE ls = <<>>
    BY <1>1, <1>4, <2>1
  <2>2. CASE ls # <<>>
    <3>1. 1 \in 1..N
      BY <1>1, <1>2, <2>2
    <3> QED BY <1>4, <2>2, <3>1
  <2> QED BY <2>1, <2>2
<1> QED BY <1>3, <1>7, <1>8

LEMMA TrimmedFacts ==
    ASSUME ReadInv, BufferInv, ChainInv
    PROVE  /\ Consecutive(Trimmed, bqOrigin)
           /\ Trimmed = <<>> <=> l1Blocks = <<>>
           /\ l1Blocks # <<>> => Trimmed[1] = l1Blocks[1] \/ Trimmed[1] = Epoch(chain)
<1>1. Consecutive(l1Blocks, bqOrigin) /\ bqOrigin \in Nat
  BY DEF BufferInv, ReadInv
<1>2. CASE l1Blocks # <<>> /\ Epoch(chain) > Head(l1Blocks) /\ Epoch(chain) \in Range(l1Blocks)
  <2>1. PICK i \in DOMAIN l1Blocks :
           l1Blocks[i] = Epoch(chain) /\ Trimmed = SubSeq(l1Blocks, i, Len(l1Blocks))
    BY <1>2 DEF Trimmed, Range
  <2> QED BY <1>1, <1>2, <2>1, SuffixConsecutive
<1>3. CASE Trimmed = l1Blocks
  BY <1>1, <1>3
<1> QED BY <1>2, <1>3 DEF Trimmed

(* The L1 blocks that batches are compared with: consecutive up to the     *)
(* origin; none only if the queue is behind; they start with the epoch     *)
(* after that of the chain only if they already did.                       *)
LEMMA OriginsFacts ==
    ASSUME ReadInv, BufferInv, ChainInv
    PROVE  /\ Consecutive(Origins, l1Origin)
           /\ Origins = <<>> => OriginBehind
           /\ Origins # <<>> /\ Origins[1] = Epoch(chain) + 1 =>
                 l1Blocks # <<>> /\ l1Blocks[1] = Epoch(chain) + 1
<1>1. /\ Consecutive(Trimmed, bqOrigin)
      /\ Trimmed = <<>> <=> l1Blocks = <<>>
      /\ l1Blocks # <<>> => Trimmed[1] = l1Blocks[1] \/ Trimmed[1] = Epoch(chain)
  BY TrimmedFacts
<1>2. /\ bqOrigin \in Nat /\ l1Origin \in {bqOrigin, bqOrigin + 1} /\ Epoch(chain) \in Nat
      /\ l1Blocks = <<>> => bqOrigin < Epoch(chain)
  BY EpochAtLast DEF ReadInv, BufferInv
<1>3. CASE bqOrigin = l1Origin
  <2>1. Origins = Trimmed
    BY <1>3 DEF Origins
  <2> QED BY <1>1, <1>2, <1>3, <2>1 DEF OriginBehind
<1>4. CASE bqOrigin # l1Origin /\ OriginBehind
  <2>1. Origins = <<>>
    BY <1>4 DEF Origins
  <2> QED BY <1>4, <2>1 DEF Consecutive
<1>5. CASE bqOrigin # l1Origin /\ ~OriginBehind
  <2>1. Origins = Append(Trimmed, bqOrigin + 1) /\ l1Origin = bqOrigin + 1
    BY <1>2, <1>5 DEF Origins
  <2>2. /\ Consecutive(Origins, l1Origin) /\ Origins # <<>>
        /\ Origins[1] = IF Trimmed = <<>> THEN bqOrigin + 1 ELSE Trimmed[1]
    BY <1>1, <1>2, <2>1, AppendConsecutive
  <2>3. CASE Trimmed = <<>>
    BY <1>1, <1>2, <2>2, <2>3
  <2>4. CASE Trimmed # <<>>
    BY <1>1, <1>2, <2>2, <2>4
  <2> QED BY <2>3, <2>4
<1> QED BY <1>3, <1>4, <1>5

-----------------------------------------------------------------------------
(* Reading and buffering                                                   *)

LEMMA ChannelKept ==
    ASSUME ReadInv, ~AtEnd
    PROVE  ChannelAt(Channel, l1Origin)
<1>1. CASE reader # None
  BY <1>1 DEF ReadInv, Channel
<1>2. CASE reader = None
  <2>1. unread # <<>> /\ unread \in Seq(Channels) /\ \A i \in DOMAIN unread : ChannelAt(unread[i], l1Origin)
    BY <1>2 DEF ReadInv, AtEnd, ChannelsAt
  <2>2. 1 \in DOMAIN unread /\ Head(unread) = unread[1]
    BY <2>1
  <2> QED BY <1>2, <2>1, <2>2 DEF Channel
<1> QED BY <1>1, <1>2

LEMMA TailAt ==
    ASSUME NEW ch, NEW n, ch # <<>>, ch # Garbage, ChannelAt(ch, n)
    PROVE  /\ ChannelAt(Tail(ch), n)
           /\ Head(ch) \in Batches \cup {Garbage}
           /\ Head(ch) # Garbage => Causal(Head(ch), n)
<1>1. ch \in Seq(Batches \cup {Garbage}) /\ \A i \in DOMAIN ch : ch[i] # Garbage => Causal(ch[i], n)
  BY DEF ChannelAt
<1>2. 1 \in DOMAIN ch /\ Head(ch) = ch[1] /\ Head(ch) \in Batches \cup {Garbage}
  BY <1>1
<1>3. Tail(ch) \in Seq(Batches \cup {Garbage})
  BY <1>1
<1>4. \A i \in DOMAIN Tail(ch) : i + 1 \in DOMAIN ch /\ Tail(ch)[i] = ch[i + 1]
  BY <1>1
<1>5. \A i \in DOMAIN Tail(ch) : Tail(ch)[i] # Garbage => Causal(Tail(ch)[i], n)
  BY <1>1, <1>4
<1> QED BY <1>1, <1>2, <1>3, <1>5 DEF ChannelAt

LEMMA ReadFacts ==
    ASSUME ReadInv
    PROVE  /\ AtEnd \/ ReadBatch = NoBatch \/ (ReadBatch \in Batches /\ Causal(ReadBatch, l1Origin))
           /\ ChannelsAt(UnreadAfter, l1Origin)
           /\ ReaderAfter = None \/ ChannelAt(ReaderAfter, l1Origin)
           /\ AtEnd => ReaderAfter = None /\ UnreadAfter = <<>>
<1>1. ChannelsAt(UnreadAfter, l1Origin)
  <2>1. unread \in Seq(Channels) /\ \A i \in DOMAIN unread : ChannelAt(unread[i], l1Origin)
    BY DEF ReadInv, ChannelsAt
  <2>2. CASE unread # <<>>
    <3>1. Tail(unread) \in Seq(Channels)
      BY <2>1, <2>2
    <3>2. \A i \in DOMAIN Tail(unread) : i + 1 \in DOMAIN unread /\ Tail(unread)[i] = unread[i + 1]
      BY <2>1, <2>2
    <3> QED BY <2>1, <3>1, <3>2 DEF ChannelsAt, UnreadAfter
  <2> QED BY <2>1, <2>2 DEF ChannelsAt, UnreadAfter
<1>2. AtEnd => ReaderAfter = None /\ UnreadAfter = <<>>
  BY DEF AtEnd, ReaderAfter, UnreadAfter
<1>3. ASSUME ~AtEnd, Channel # Garbage, Channel # <<>>
      PROVE  /\ ChannelAt(Tail(Channel), l1Origin) /\ Head(Channel) \in Batches \cup {Garbage}
             /\ Head(Channel) # Garbage => Causal(Head(Channel), l1Origin)
  BY <1>3, ChannelKept, TailAt
<1>4. ReaderAfter = None \/ ChannelAt(ReaderAfter, l1Origin)
  BY <1>3 DEF ReaderAfter
<1>5. AtEnd \/ ReadBatch = NoBatch \/ (ReadBatch \in Batches /\ Causal(ReadBatch, l1Origin))
  BY <1>3 DEF ReadBatch, NoBatch
<1> QED BY <1>1, <1>2, <1>4, <1>5

(* The reader after a step of the batch queue. *)
LEMMA ReadStep ==
    ASSUME L1Inv, ReadInv, Prepare, UNCHANGED l1,
           NotEnoughData \/ (unread' = UnreadAfter /\ UNCHANGED l1Origin)
    PROVE  /\ ReadInv' /\ l1Origin' \in Nat /\ l1Origin \in Nat
           /\ l1Origin' = l1Origin + 1 \/ (l1Origin' = l1Origin /\ (AtEnd => AtEnd'))
<1>1. /\ ChannelsAt(UnreadAfter, l1Origin)
      /\ ReaderAfter = None \/ ChannelAt(ReaderAfter, l1Origin)
      /\ AtEnd => ReaderAfter = None /\ UnreadAfter = <<>>
  BY ReadFacts
<1>2. /\ bqOrigin' = l1Origin /\ reader' = ReaderAfter /\ L1Head' = L1Head /\ l1' = l1
      /\ l1Origin \in 0..L1Head /\ L1Head \in Nat /\ DOMAIN l1 = 0..L1Head
      /\ \A n \in DOMAIN l1 : ChannelsAt(l1[n], n)
  BY DEF Prepare, ReadInv, L1Inv, L1Head
<1>3. CASE AtEnd /\ l1Origin < L1Head /\ l1Origin' = l1Origin + 1 /\ unread' = l1[l1Origin + 1]
  <2>1. l1Origin + 1 \in 0..L1Head /\ l1Origin \in Nat /\ l1Origin + 1 \in Nat
    BY <1>2, <1>3
  <2>2. ChannelsAt(unread', l1Origin')
    BY <1>2, <1>3, <2>1
  <2> QED BY <1>1, <1>2, <1>3, <2>1, <2>2 DEF ReadInv
<1>4. CASE unread' = UnreadAfter /\ l1Origin' = l1Origin
  <2>1. AtEnd => AtEnd'
    BY <1>1, <1>2, <1>4 DEF AtEnd
  <2> QED BY <1>1, <1>2, <1>4, <2>1 DEF ReadInv
<1>5. CASE AtEnd /\ unread' = unread /\ l1Origin' = l1Origin
  <2>1. UnreadAfter = unread
    BY <1>5 DEF UnreadAfter, AtEnd
  <2> QED BY <1>4, <1>5, <2>1
<1> QED BY <1>3, <1>4, <1>5 DEF NotEnoughData, AdvanceL1

LEMMA BufferedFacts ==
    ASSUME ReadInv, BufferInv, ReadBatch # NoBatch
    PROVE  /\ Included(Buffered, l1Origin)
           /\ \A i \in DOMAIN Buffered :
                 \/ i \in DOMAIN batches /\ Buffered[i] = batches[i]
                 \/ Buffered[i].incl = l1Origin /\ ~AtEnd
<1>1. batches \in Seq(Items) /\ Included(batches, l1Origin)
  BY DEF BufferInv, Included
<1>2. CASE Buffered = batches
  BY <1>1, <1>2
<1>3. CASE Buffered # batches
  <2> DEFINE item == [batch |-> ReadBatch, incl |-> l1Origin]
  <2>1. Buffered = Append(batches, item) /\ ~AtEnd
    BY <1>3 DEF Buffered
  <2>2. ReadBatch \in Batches /\ Causal(ReadBatch, l1Origin) /\ l1Origin \in Nat
    BY <2>1, ReadFacts DEF ReadInv
  <2>3. item \in Items /\ item.incl = l1Origin /\ item.batch = ReadBatch
    BY <2>2 DEF Items
  <2> HIDE DEF item
  <2>4. /\ Buffered \in Seq(Items)
        /\ \A i \in DOMAIN Buffered : \/ i \in DOMAIN batches /\ Buffered[i] = batches[i]
                                      \/ Buffered[i] = item
    BY <1>1, <2>1, <2>3
  <2>5. \A i \in DOMAIN batches : batches[i].incl <= l1Origin /\ Causal(batches[i].batch, batches[i].incl)
    BY <1>1 DEF Included
  <2>6. \A i \in DOMAIN Buffered : Buffered[i].incl <= l1Origin /\ Causal(Buffered[i].batch, Buffered[i].incl)
    BY <2>2, <2>3, <2>4, <2>5
  <2> QED BY <2>1, <2>3, <2>4, <2>6 DEF Included
<1> QED BY <1>2, <1>3

(* Where deriveNextBatch stops. *)
LEMMA StopFacts ==
    ASSUME Buffered \in Seq(Items)
    PROVE  /\ Stop \in 1..(Len(Buffered) + 1)
           /\ Decisive # {} => Stop \in DOMAIN Buffered /\ Verdict(Stop) \in {"accept", "undecided"}
           /\ Future \in SUBSET DOMAIN Buffered
           /\ Cardinality(Future) \in Nat
<1>1. Len(Buffered) \in Nat /\ DOMAIN Buffered = 1..Len(Buffered)
  OBVIOUS
<1>3. ASSUME Decisive # {}
      PROVE  Stop \in DOMAIN Buffered /\ Verdict(Stop) \in {"accept", "undecided"}
  <2>1. Decisive \in SUBSET Nat
    BY <1>1 DEF Decisive
  <2>2. Stop \in Decisive
    BY <1>3, <2>1, MinOf DEF Stop
  <2> QED BY <1>1, <2>2 DEF Decisive
<1>4. Stop \in 1..(Len(Buffered) + 1)
  <2>2. CASE Decisive # {}
    BY <1>1, <1>3, <2>2
  <2>1. CASE Decisive = {}
    BY <1>1, <2>1 DEF Stop
  <2> QED BY <2>1, <2>2
<1>5. Future \in SUBSET (1..Len(Buffered))
  BY <1>1, <1>4 DEF Future
<1>6. Cardinality(Future) \in Nat
  <2>1. IsFiniteSet(1..Len(Buffered))
    BY <1>1, FS_Interval
  <2> QED BY <1>5, <2>1, FS_Subset, FS_CardinalityType
<1> QED BY <1>1, <1>3, <1>4, <1>5, <1>6

LEMMA Concatenated ==
    ASSUME NEW S, NEW f \in Seq(S), NEW r \in Seq(S), NEW t, t = f \o r
    PROVE  /\ t \in Seq(S)
           /\ \A i \in DOMAIN t : \/ i \in DOMAIN f /\ t[i] = f[i]
                                 \/ \E k \in DOMAIN r : t[i] = r[k]
<1>1. PICK m \in Nat : m = Len(f) /\ DOMAIN f = 1..m
  OBVIOUS
<1>2. PICK n \in Nat : n = Len(r) /\ DOMAIN r = 1..n
  OBVIOUS
<1>3. f \o r \in Seq(S) /\ DOMAIN (f \o r) = 1..(m + n)
  BY <1>1, <1>2
<1>4. \A i \in 1..(m + n) : (f \o r)[i] = IF i <= m THEN f[i] ELSE r[i - m]
  BY <1>1, <1>2
<1>5. \A i \in 1..(m + n) : IF i <= m THEN i \in 1..m ELSE i - m \in 1..n
  OBVIOUS
<1> QED BY <1>1, <1>2, <1>3, <1>4, <1>5

(* The batches that remain are among the buffered ones, those before the   *)
(* rest are future ones.                                                   *)
LEMMA RemainingFacts ==
    ASSUME NEW m \in Nat \ {0}, Buffered \in Seq(Items),
           Remaining(SubSeq(Buffered, m, Len(Buffered))) \/ Remaining(<<>>)
    PROVE  /\ batches' \in Seq(Items)
           /\ \A i \in DOMAIN batches' : \E j \in DOMAIN Buffered : batches'[i] = Buffered[j]
           /\ Remaining(<<>>) => \A i \in DOMAIN batches' : \E j \in Future : batches'[i] = Buffered[j]
<1>1. PICK rest \in {SubSeq(Buffered, m, Len(Buffered)), <<>>} :
         Remaining(rest) /\ (Remaining(<<>>) => rest = <<>>)
  OBVIOUS
<1>2. rest \in Seq(Items) /\ \A i \in DOMAIN rest : \E j \in DOMAIN Buffered : rest[i] = Buffered[j]
  <2>1. CASE rest = <<>>
    BY <2>1
  <2>2. CASE rest = SubSeq(Buffered, m, Len(Buffered))
    <3>1. PICK N \in Nat : N = Len(Buffered) /\ DOMAIN Buffered = 1..N
      OBVIOUS
    <3>2. rest \in Seq(Items)
      BY <2>2, <3>1
    <3>3. DOMAIN rest = 1..(N - m + 1) /\ \A i \in 1..(N - m + 1) : rest[i] = Buffered[m + i - 1]
      BY <2>2, <3>1
    <3>4. \A i \in 1..(N - m + 1) : m + i - 1 \in 1..N
      OBVIOUS
    <3> QED BY <3>1, <3>2, <3>3, <3>4
  <2> QED BY <1>1, <2>1, <2>2
<1>3. PICK at \in [1..Cardinality(Future) -> Future] :
         batches' = [k \in DOMAIN at |-> Buffered[at[k]]] \o rest
  BY <1>1 DEF Remaining
<1>4. PICK f : f = [k \in DOMAIN at |-> Buffered[at[k]]]
  OBVIOUS
<1>5. Future \in SUBSET DOMAIN Buffered /\ Cardinality(Future) \in Nat
  BY StopFacts
<1>6. f \in Seq(Items) /\ \A i \in DOMAIN f : \E j \in Future : f[i] = Buffered[j]
  <2>1. DOMAIN at = 1..Cardinality(Future) /\ \A k \in DOMAIN at : at[k] \in Future
    OBVIOUS
  <2>2. \A k \in DOMAIN at : Buffered[at[k]] \in Items
    BY <1>5, <2>1
  <2>3. DOMAIN f = DOMAIN at /\ \A k \in DOMAIN at : f[k] = Buffered[at[k]]
    BY <1>4
  <2>4. f \in [1..Cardinality(Future) -> Items]
    BY <1>4, <2>1, <2>2
  <2>5. f \in Seq(Items)
    BY <1>5, <2>4
  <2> QED BY <2>1, <2>3, <2>5
<1>7. /\ batches' \in Seq(Items)
      /\ \A i \in DOMAIN batches' : \/ i \in DOMAIN f /\ batches'[i] = f[i]
                                    \/ \E k \in DOMAIN rest : batches'[i] = rest[k]
  <2>1. batches' = f \o rest
    BY <1>3, <1>4
  <2>2. f \in Seq(Items) /\ rest \in Seq(Items)
    BY <1>2, <1>6
  <2> QED BY <2>1, <2>2, Concatenated
<1>8. \A i \in DOMAIN batches' : \E j \in DOMAIN Buffered : batches'[i] = Buffered[j]
  <2> TAKE i \in DOMAIN batches'
  <2>1. CASE i \in DOMAIN f /\ batches'[i] = f[i]
    BY <1>5, <1>6, <2>1
  <2>2. CASE \E k \in DOMAIN rest : batches'[i] = rest[k]
    BY <1>2, <2>2
  <2> QED BY <1>7, <2>1, <2>2
<1>9. rest = <<>> => \A i \in DOMAIN batches' : \E j \in Future : batches'[i] = Buffered[j]
  BY <1>6, <1>7
<1> QED BY <1>1, <1>7, <1>8, <1>9

LEMMA RemainingIncluded ==
    ASSUME NEW o, Included(Buffered, o), batches' \in Seq(Items),
           \A i \in DOMAIN batches' : \E j \in DOMAIN Buffered : batches'[i] = Buffered[j]
    PROVE  Included(batches', o)
  BY DEF Included

(* A batch that is too early is said to be for later. *)
LEMMA FutureFacts ==
    ASSUME NEW ls, NEW c, NEW item \in Items, CheckBatch(ls, c, item) = "future"
    PROVE  item.batch.time > Time(Len(c) + 1)
<1>1. \A k, ot, time, txs, adv : DriftVerdict(ls, k, ot, time, txs, adv) # "future"
  BY DEF DriftVerdict
<1>2. \A i, adv : CheckSpanBlock(ls, item.batch, i, adv) # "future"
  BY <1>1 DEF CheckSpanBlock
<1>3. \A adv : NewBlocksVerdict(ls, c, item.batch, adv) # "future"
  BY <1>2 DEF NewBlocksVerdict
<1>4. CASE item.batch.type = "singular"
  BY <1>1, <1>4 DEF CheckBatch, CheckSingularBatch
<1>5. CASE item.batch.type # "singular"
  BY <1>3, <1>5 DEF CheckBatch, CheckSpanBatch
<1> QED BY <1>4, <1>5

(* When the epoch of the chain was given up, no buffered batch is for it.  *)
LEMMA WindowKept ==
    ASSUME IInv, attributes = None, ~SpanContinues, ReadBatch # NoBatch,
           Origins # <<>>, Origins[1] = Epoch(chain) + 1
    PROVE  /\ \/ l1Origin > Epoch(chain) + SeqWindowSize
              \/ l1Origin = Epoch(chain) + SeqWindowSize /\ AtEnd
           /\ \A i \in DOMAIN Buffered : Buffered[i].incl <= Epoch(chain) + SeqWindowSize =>
                 Buffered[i].batch.time > Time(safe + 1)
<1>1. safe = Len(chain) /\ Epoch(chain) = EpochAt(safe)
  BY AtSafeHead, EpochAtLast DEF IInv
<1>2. l1Blocks # <<>> /\ l1Blocks[1] = Epoch(chain) + 1
  BY OriginsFacts DEF IInv
<1>3. /\ \/ l1Origin > Epoch(chain) + SeqWindowSize
         \/ l1Origin = Epoch(chain) + SeqWindowSize /\ AtEnd
      /\ \A i \in DOMAIN batches : batches[i].incl <= Epoch(chain) + SeqWindowSize =>
            batches[i].batch.time > Time(safe + 1)
  BY <1>1, <1>2 DEF IInv, WindowInv
<1>4. \A i \in DOMAIN Buffered : \/ i \in DOMAIN batches /\ Buffered[i] = batches[i]
                                 \/ Buffered[i].incl = l1Origin /\ ~AtEnd
  BY BufferedFacts DEF IInv
<1>5. l1Origin \in Int /\ Epoch(chain) + SeqWindowSize \in Int
  BY EpochAtLast, Parameters DEF IInv, ReadInv
<1> QED BY <1>3, <1>4, <1>5

-----------------------------------------------------------------------------
(* An accepted batch                                                       *)

LEMMA BatchAccepted ==
    ASSUME NEW c \in Seq(Blocks), NEW item \in Items,
           NEW ls, NEW o \in 0..MaxL1, Consecutive(ls, o), Matching(ls, c),
           CheckBatch(ls, c, item) = "accept",
           ls[1] = Epoch(c) + 1 /\ item.incl <= Epoch(c) + SeqWindowSize =>
              item.batch.time > Time(Len(c) + 1)
    PROVE  \E old \in Nat : /\ old = OldBlocks(c, item.batch) /\ old < Len(item.batch.blocks)
                            /\ Continues(item.batch, old, c, ls)
<1>1. PICK b \in Batches : b = item.batch
  BY DEF Items
<1>2. PICK incl \in Nat : incl = item.incl
  BY DEF Items
<1>3. Len(c) \in Nat /\ Len(c) \in Int /\ Len(c) + 1 \in Int /\ Len(c) < Len(c) + 1
  OBVIOUS
<1>4. CASE b.type = "singular"
  <2>1. /\ b.time = Time(Len(c) + 1)
        /\ \E k \in DOMAIN ls : ls[k] = b.blocks[1].epoch
        /\ InTime(Epoch(c), b.blocks[1], Len(c) + 1)
    BY <1>1, <1>2, <1>4, SingularAccepted DEF CheckBatch
  <2>2. Len(b.blocks) = 1 /\ DOMAIN b.blocks = {1}
    BY <1>4, BatchFacts
  <2>3. BlockTimestamp(b, 1) = Time(Len(c) + 1)
    <3>1. (1 - 1) * BlockTime = 0 /\ b.time \in Nat
      BY BatchFacts, Parameters
    <3> QED BY <2>1, <3>1 DEF BlockTimestamp
  <2>4. ~(Time(Len(c) + 1) <= Time(Len(c)))
    <3>1. Time(Len(c)) < Time(Len(c) + 1) /\ Time(Len(c)) \in Int /\ Time(Len(c) + 1) \in Int
      BY <1>3, TimeOrder, TimeInt
    <3> QED BY <3>1
  <2>5. {i \in DOMAIN b.blocks : BlockTimestamp(b, i) <= Time(Len(c))} = {}
    BY <2>2, <2>3, <2>4
  <2>6. OldBlocks(c, b) = 0
    BY <2>5, FS_EmptySet DEF OldBlocks
  <2>7. \A k \in 1..(Len(b.blocks) - 0) : k = 1 /\ 0 + k = 1
    BY <2>2
  <2>8. Continues(b, 0, c, ls)
    BY <2>1, <2>3, <2>7 DEF Continues
  <2> QED BY <1>1, <2>2, <2>6, <2>8
<1>5. CASE b.type # "singular"
  <2>1. CheckSpanBatch(ls, c, b, incl) = "accept"
    BY <1>1, <1>2, <1>5 DEF CheckBatch
  <2>2. PICK p \in 0..Len(c) : b.time = Time(p + 1) /\ ~(StartEpoch(b) + SeqWindowSize < incl)
    BY <2>1, SpanParent
  <2>3. ~(b.time > Time(Len(c) + 1))
    <3>1. PICK q \in Int : q = p + 1 /\ ~(Len(c) + 1 < q)
      BY <1>3
    <3>2. ~(Time(Len(c) + 1) < Time(q)) /\ Time(Len(c) + 1) \in Int /\ Time(q) \in Int
      BY <1>3, <3>1, TimeOrder, TimeInt
    <3> QED BY <2>2, <3>1, <3>2
  <2>4. ASSUME ls[1] = Epoch(c) + 1
        PROVE  StartEpoch(b) > Epoch(c)
    <3>1. ~(incl <= Epoch(c) + SeqWindowSize)
      BY <1>1, <1>2, <2>3, <2>4
    <3>2. Epoch(c) \in Nat /\ SeqWindowSize \in Nat
      BY EpochOf, Parameters
    <3>3. StartEpoch(b) \in Nat
      <4>1. 1 \in 1..Len(b.blocks)
        BY BatchFacts
      <4> QED BY <4>1, BatchFacts, Parameters DEF StartEpoch
    <3> QED BY <2>2, <3>1, <3>2, <3>3
  <2>5. PICK old \in Nat :
           old = OldBlocks(c, b) /\ old < Len(b.blocks) /\ Continues(b, old, c, ls)
    BY <2>1, <2>4, SpanAccepted
  <2> QED BY <1>1, <2>5
<1> QED BY <1>4, <1>5

-----------------------------------------------------------------------------
(* The steps of the batch queue                                            *)

(* Once the window of the chain's epoch is over, it stays over.            *)
WindowPassed == \/ l1Origin > Epoch(chain) + SeqWindowSize
                \/ l1Origin = Epoch(chain) + SeqWindowSize /\ AtEnd

NoneForWindow(bs) ==
    \A i \in DOMAIN bs :
        bs[i].incl <= Epoch(chain) + SeqWindowSize => bs[i].batch.time > Time(safe + 1)

Advances == NotEnoughData \/ (unread' = UnreadAfter /\ UNCHANGED l1Origin)

LEMMA QueueStep ==
    ASSUME IInv, Prepare, UNCHANGED <<l1, chain, safe>>, Advances,
           Consecutive(l1Blocks', l1Origin), l1Blocks' = <<>> => OriginBehind,
           Included(batches', l1Origin),
           l1Blocks' # <<>> /\ l1Blocks'[1] = Epoch(chain) + 1 =>
              WindowPassed /\ NoneForWindow(batches')
    PROVE  /\ L1Inv' /\ ReadInv' /\ ChainInv' /\ WindowInv'
           /\ Consecutive(l1Blocks', bqOrigin')
           /\ l1Blocks' = <<>> => bqOrigin' < Epoch(chain')
           /\ Included(batches', l1Origin')
<1>1. /\ bqOrigin' = l1Origin /\ l1' = l1 /\ chain' = chain /\ safe' = safe
      /\ attributes = None /\ ~SpanContinues
  BY DEF Prepare
<1>2. L1Inv' /\ ChainInv'
  BY <1>1 DEF IInv, L1Inv, L1Head, ChainInv, EpochAt, L1Head, InTime
<1>3. /\ ReadInv' /\ l1Origin' \in Nat /\ l1Origin \in Nat
      /\ l1Origin' = l1Origin + 1 \/ (l1Origin' = l1Origin /\ (AtEnd => AtEnd'))
  BY ReadStep DEF IInv, Advances
<1>4. safe = Len(chain) /\ Epoch(chain) = EpochAt(safe) /\ EpochAt(safe)' = EpochAt(safe)
  <2>1. EpochAt(safe)' = EpochAt(safe)
    BY <1>1 DEF EpochAt
  <2> QED BY <1>1, <2>1, AtSafeHead, EpochAtLast DEF IInv
<1>5. Epoch(chain) + SeqWindowSize \in Int
  BY EpochAtLast, Parameters DEF IInv
<1>6. WindowInv'
  <2> SUFFICES ASSUME l1Blocks' # <<>>, l1Blocks'[1] = Epoch(chain) + 1
               PROVE  /\ \/ l1Origin' > Epoch(chain) + SeqWindowSize
                         \/ l1Origin' = Epoch(chain) + SeqWindowSize /\ AtEnd'
                      /\ \A i \in DOMAIN batches' :
                            batches'[i].incl <= Epoch(chain) + SeqWindowSize =>
                               batches'[i].batch.time > Time(safe + 1)
    BY <1>1, <1>4 DEF WindowInv
  <2>1. WindowPassed /\ NoneForWindow(batches')
    OBVIOUS
  <2>2. \/ l1Origin' > Epoch(chain) + SeqWindowSize
        \/ l1Origin' = Epoch(chain) + SeqWindowSize /\ AtEnd'
    BY <1>3, <1>5, <2>1 DEF WindowPassed
  <2> QED BY <2>1, <2>2 DEF NoneForWindow
<1>7. Included(batches', l1Origin')
  <2>1. \A i \in DOMAIN batches' : batches'[i].incl \in Nat
    <3>1. batches' \in Seq(Items)
      BY DEF Included
    <3>2. \A x \in Items : x.incl \in Nat
      BY DEF Items
    <3> QED BY <3>1, <3>2
  <2>2. \A n \in Nat : n <= l1Origin => n <= l1Origin'
    BY <1>3
  <2> QED BY <2>1, <2>2 DEF Included
<1> QED BY <1>1, <1>2, <1>3, <1>6, <1>7 DEF OriginBehind

(* A step that keeps the L1 blocks and some of the batches. *)
LEMMA PlainStep ==
    ASSUME IInv, Prepare, UNCHANGED <<l1, chain, safe>>, Advances, ReadBatch # NoBatch,
           l1Blocks' = Origins, batches' \in Seq(Items),
           \A i \in DOMAIN batches' : \E j \in DOMAIN Buffered : batches'[i] = Buffered[j]
    PROVE  /\ L1Inv' /\ ReadInv' /\ ChainInv' /\ WindowInv'
           /\ Consecutive(l1Blocks', bqOrigin')
           /\ l1Blocks' = <<>> => bqOrigin' < Epoch(chain')
           /\ Included(batches', l1Origin')
<1>1. attributes = None /\ ~SpanContinues
  BY DEF Prepare
<1>2. Consecutive(Origins, l1Origin) /\ (Origins = <<>> => OriginBehind)
  BY OriginsFacts DEF IInv
<1>3. Included(batches', l1Origin)
  BY BufferedFacts, RemainingIncluded DEF IInv
<1>4. ASSUME Origins # <<>>, Origins[1] = Epoch(chain) + 1
      PROVE  WindowPassed /\ NoneForWindow(batches')
  <2>1. WindowPassed /\ NoneForWindow(Buffered)
    BY <1>1, <1>4, WindowKept DEF WindowPassed, NoneForWindow
  <2> QED BY <2>1 DEF NoneForWindow
<1> QED BY <1>2, <1>3, <1>4, QueueStep

LEMMA Waiting ==
    ASSUME IInv, Prepare, nextSpan' = <<>>, UNCHANGED <<attributes, chain, safe>>
    PROVE  SpanInv' /\ attributes' = None
<1>1. attributes' = None /\ nextSpan' = <<>> /\ chain' = chain /\ safe' = safe /\ safe = Len(chain)
  BY AtSafeHead DEF Prepare, IInv
<1> QED BY <1>1 DEF SpanInv

LEMMA ReadFailsKeeps == ASSUME IInv, ReadFails PROVE IInv'
<1>1. /\ Prepare /\ unread' = UnreadAfter /\ l1Blocks' = Origins /\ nextSpan' = <<>>
      /\ l1' = l1 /\ l1Origin' = l1Origin /\ batches' = batches /\ attributes' = attributes
      /\ chain' = chain /\ safe' = safe /\ critical' = critical /\ attributes = None /\ ~SpanContinues
  BY DEF ReadFails, Prepare
<1>2. SpanInv' /\ attributes' = None
  BY <1>1, Waiting
<1>3. Consecutive(Origins, l1Origin) /\ (Origins = <<>> => OriginBehind)
  BY OriginsFacts DEF IInv
<1>4. Included(batches', l1Origin)
  BY <1>1 DEF IInv, BufferInv
<1>5. ASSUME Origins # <<>>, Origins[1] = Epoch(chain) + 1
      PROVE  WindowPassed /\ NoneForWindow(batches')
  <2>1. l1Blocks # <<>> /\ l1Blocks[1] = Epoch(chain) + 1
    BY <1>5, OriginsFacts DEF IInv
  <2>2. Epoch(chain) = EpochAt(safe)
    BY <1>1, AtSafeHead, EpochAtLast DEF IInv
  <2> QED BY <1>1, <2>1, <2>2 DEF IInv, WindowInv, WindowPassed, NoneForWindow
<1>6. /\ L1Inv' /\ ReadInv' /\ ChainInv' /\ WindowInv'
      /\ Consecutive(l1Blocks', bqOrigin')
      /\ l1Blocks' = <<>> => bqOrigin' < Epoch(chain')
      /\ Included(batches', l1Origin')
  BY <1>1, <1>3, <1>4, <1>5, QueueStep DEF Advances
<1>7. NoCriticalError'
  BY <1>1 DEF IInv, NoCriticalError
<1> QED BY <1>1, <1>2, <1>6, <1>7 DEF IInv, BufferInv

LEMMA SkipBehindKeeps == ASSUME IInv, SkipBehind PROVE IInv'
<1>1. /\ Prepare /\ ReadBatch # NoBatch /\ NotEnoughData /\ l1Blocks' = Origins /\ nextSpan' = <<>>
      /\ l1' = l1 /\ batches' = batches /\ attributes' = attributes
      /\ chain' = chain /\ safe' = safe /\ critical' = critical
  BY DEF SkipBehind
<1>2. SpanInv' /\ attributes' = None
  BY <1>1, Waiting
<1>3. batches' \in Seq(Items) /\ \A i \in DOMAIN batches' : \E j \in DOMAIN Buffered : batches'[i] = Buffered[j]
  <2>1. batches \in Seq(Items)
    BY DEF IInv, BufferInv, Included
  <2>2. Buffered = batches \/ \E item : Buffered = Append(batches, item)
    BY DEF Buffered
  <2>3. \A item : \A i \in DOMAIN batches : i \in DOMAIN Append(batches, item) /\ Append(batches, item)[i] = batches[i]
    BY <2>1
  <2> QED BY <1>1, <2>1, <2>2, <2>3
<1>4. /\ L1Inv' /\ ReadInv' /\ ChainInv' /\ WindowInv'
      /\ Consecutive(l1Blocks', bqOrigin')
      /\ l1Blocks' = <<>> => bqOrigin' < Epoch(chain')
      /\ Included(batches', l1Origin')
  BY <1>1, <1>3, PlainStep DEF Advances
<1>5. NoCriticalError'
  BY <1>1 DEF IInv, NoCriticalError
<1> QED BY <1>1, <1>2, <1>4, <1>5 DEF IInv, BufferInv

LEMMA EpochMismatchKeeps == ASSUME IInv, EpochMismatch PROVE IInv'
<1>1. /\ Prepare /\ ReadBatch # NoBatch /\ unread' = UnreadAfter /\ l1Blocks' = Origins
      /\ nextSpan' = <<>> /\ l1' = l1 /\ l1Origin' = l1Origin /\ batches' = Buffered
      /\ attributes' = attributes /\ chain' = chain /\ safe' = safe /\ critical' = critical
  BY DEF EpochMismatch, Derive
<1>2. SpanInv' /\ attributes' = None
  BY <1>1, Waiting
<1>3. batches' \in Seq(Items) /\ \A i \in DOMAIN batches' : \E j \in DOMAIN Buffered : batches'[i] = Buffered[j]
  BY <1>1, BufferedFacts DEF IInv, Included
<1>4. /\ L1Inv' /\ ReadInv' /\ ChainInv' /\ WindowInv'
      /\ Consecutive(l1Blocks', bqOrigin')
      /\ l1Blocks' = <<>> => bqOrigin' < Epoch(chain')
      /\ Included(batches', l1Origin')
  BY <1>1, <1>3, PlainStep DEF Advances
<1>5. NoCriticalError'
  BY <1>1 DEF IInv, NoCriticalError
<1> QED BY <1>1, <1>2, <1>4, <1>5 DEF IInv, BufferInv

LEMMA FunctionIsSequence ==
    ASSUME NEW S, NEW n \in Nat, NEW f \in [1..n -> S]
    PROVE  f \in Seq(S) /\ Len(f) = n /\ DOMAIN f = 1..n
  OBVIOUS

LEMMA Element ==
    ASSUME NEW S, NEW s \in Seq(S), NEW i \in DOMAIN s
    PROVE  s[i] \in S
  OBVIOUS

LEMMA InRange ==
    ASSUME NEW f, NEW x, \E j \in DOMAIN f : f[j] = x
    PROVE  x \in Range(f)
  BY DEF Range

(* The singular batches of an accepted batch continue the chain. *)
LEMMA NewBatches ==
    ASSUME ChainInv, NEW b \in Batches, NEW old \in Nat, old = OldBlocks(chain, b),
           old < Len(b.blocks), Continues(b, old, chain, Origins),
           NEW new, new = SingularBatches(b)
    PROVE  /\ new \in Seq([time : Nat, block : Blocks]) /\ Len(new) \in Nat \ {0}
           /\ \A k \in DOMAIN new : new[k].block.epoch \in Range(Origins)
           /\ SpanAfter(new, Epoch(chain), Len(chain))
<1>1. PICK L \in Nat : L = Len(b.blocks) /\ b.blocks \in Seq(Blocks)
  BY BatchFacts
<1>2. PICK N \in Nat \ {0} : N = L - old
  BY <1>1
<1>3. new = [k \in 1..N |-> [time |-> BlockTimestamp(b, old + k), block |-> b.blocks[old + k]]]
  BY <1>1, <1>2 DEF SingularBatches
<1>4. \A k \in 1..N : old + k \in 1..L
  BY <1>2
<1>5. \A k \in 1..N : b.blocks[old + k] \in Blocks
  BY <1>1, <1>4
<1>6. \A k \in 1..N :
         /\ BlockTimestamp(b, old + k) = Time(Len(chain) + k)
         /\ \E j \in DOMAIN Origins : Origins[j] = b.blocks[old + k].epoch
         /\ InTime(IF k = 1 THEN Epoch(chain) ELSE b.blocks[old + k - 1].epoch,
                   b.blocks[old + k], Len(chain) + k)
  BY <1>1, <1>2 DEF Continues
<1>7. \A k \in 1..N : Time(Len(chain) + k) \in Nat
  <2> TAKE k \in 1..N
  <2>1. Len(chain) + k \in Nat
    BY EpochAtLast
  <2> QED BY <2>1, TimeNat
<1>8. /\ DOMAIN new = 1..N
      /\ \A k \in 1..N : new[k].time = Time(Len(chain) + k) /\ new[k].block = b.blocks[old + k]
  BY <1>3, <1>6
<1>9. new \in [1..N -> [time : Nat, block : Blocks]]
  <2>1. \A k \in 1..N : [time |-> BlockTimestamp(b, old + k), block |-> b.blocks[old + k]]
                           \in [time : Nat, block : Blocks]
    BY <1>5, <1>6, <1>7
  <2> QED BY <1>3, <2>1
<1>10. new \in Seq([time : Nat, block : Blocks]) /\ Len(new) = N
  BY <1>9, FunctionIsSequence
<1>11. \A k \in 1..N : new[k].block.epoch \in Range(Origins)
  <2> TAKE k \in 1..N
  <2>1. PICK j \in DOMAIN Origins : Origins[j] = b.blocks[old + k].epoch
    BY <1>6
  <2>2. new[k].block = b.blocks[old + k]
    BY <1>8
  <2> QED BY <2>1, <2>2, InRange
<1>12. \A k \in 1..N : k # 1 => k - 1 \in 1..N /\ old + (k - 1) = old + k - 1
  OBVIOUS
<1>13. \A k \in 1..N : k # 1 => new[k - 1].block = b.blocks[old + k - 1]
  BY <1>8, <1>12
<1>14. SpanAfter(new, Epoch(chain), Len(chain))
  BY <1>6, <1>8, <1>13 DEF SpanAfter
<1> QED BY <1>8, <1>10, <1>11, <1>14

(* The first of consecutive singular batches becomes the attributes. *)
LEMMA SpanTail ==
    ASSUME NEW span \in Seq([time : Nat, block : Blocks]), span # <<>>,
           NEW prev, NEW n \in Nat, SpanAfter(span, prev, n)
    PROVE  /\ Tail(span) \in Seq([time : Nat, block : Blocks])
           /\ InTime(prev, span[1].block, n + 1) /\ span[1].block \in Blocks
           /\ Len(span) = 1 <=> Tail(span) = <<>>
           /\ SpanAfter(Tail(span), span[1].block.epoch, n + 1)
           /\ \A k \in DOMAIN Tail(span) : k + 1 \in DOMAIN span /\ Tail(span)[k] = span[k + 1]
<1>1. PICK N \in Nat \ {0} : N = Len(span) /\ DOMAIN span = 1..N
  OBVIOUS
<1>2. PICK t : t = Tail(span)
  OBVIOUS
<1>3. /\ t \in Seq([time : Nat, block : Blocks]) /\ Len(t) = N - 1 /\ DOMAIN t = 1..(N - 1)
      /\ \A k \in 1..(N - 1) : t[k] = span[k + 1]
  BY <1>1, <1>2
<1>4. 1 \in DOMAIN span /\ span[1].block \in Blocks
  <2>1. 1 \in DOMAIN span
    BY <1>1
  <2>2. span[1] \in [time : Nat, block : Blocks]
    BY <2>1, Element
  <2> QED BY <2>1, <2>2
<1>5. InTime(prev, span[1].block, n + 1)
  BY <1>4 DEF SpanAfter
<1>6. \A k \in 1..(N - 1) : k + 1 \in DOMAIN span /\ k + 1 # 1 /\ (k + 1) - 1 = k
  BY <1>1
<1>7. \A k \in 1..(N - 1) : /\ span[k + 1].time = Time(n + (k + 1))
                            /\ InTime(span[k].block.epoch, span[k + 1].block, n + (k + 1))
  <2> TAKE k \in 1..(N - 1)
  <2>1. PICK m \in DOMAIN span : m = k + 1 /\ m # 1 /\ m - 1 = k
    BY <1>6
  <2>2. span[m].time = Time(n + m) /\ InTime(span[m - 1].block.epoch, span[m].block, n + m)
    BY <2>1 DEF SpanAfter
  <2> QED BY <2>1, <2>2
<1>8. \A k \in 1..(N - 1) : n + (k + 1) = (n + 1) + k
  OBVIOUS
<1>9. \A k \in 1..(N - 1) : k # 1 => k - 1 \in 1..(N - 1) /\ (k - 1) + 1 = k
  OBVIOUS
<1>10. \A k \in 1..(N - 1) :
          span[k].block.epoch = IF k = 1 THEN span[1].block.epoch ELSE t[k - 1].block.epoch
  BY <1>3, <1>9
<1>11. SpanAfter(t, span[1].block.epoch, n + 1)
  <2>1. ASSUME NEW k \in 1..(N - 1)
        PROVE  /\ t[k].time = Time((n + 1) + k)
               /\ InTime(IF k = 1 THEN span[1].block.epoch ELSE t[k - 1].block.epoch,
                         t[k].block, (n + 1) + k)
    <3>1. t[k] = span[k + 1] /\ n + (k + 1) = (n + 1) + k
      BY <1>3, <1>8
    <3>2. span[k + 1].time = Time(n + (k + 1)) /\ InTime(span[k].block.epoch, span[k + 1].block, n + (k + 1))
      BY <1>7
    <3>3. span[k].block.epoch = IF k = 1 THEN span[1].block.epoch ELSE t[k - 1].block.epoch
      BY <1>10
    <3> QED BY <3>1, <3>2, <3>3, Zenon
  <2> QED BY <1>3, <2>1 DEF SpanAfter
<1>12. Len(span) = 1 <=> t = <<>>
  <2>1. t = <<>> <=> Len(t) = 0
    BY <1>3, EmptySeq
  <2> QED BY <1>1, <1>3, <2>1
<1> QED BY <1>2, <1>3, <1>4, <1>5, <1>6, <1>11, <1>12

LEMMA DeriveFacts ==
    ASSUME IInv, Derive, EpochMatches
    PROVE  /\ Consecutive(Origins, l1Origin) /\ Origins # <<>> /\ Head(Origins) = Origins[1]
           /\ Matching(Origins, chain) /\ l1Origin \in 0..MaxL1 /\ MaxL1 \in Nat
           /\ safe = Len(chain) /\ attributes = None /\ ~SpanContinues
<1>1. Consecutive(Origins, l1Origin) /\ Origins # <<>>
  BY OriginsFacts DEF IInv, Derive
<1>2. Head(Origins) = Origins[1]
  BY <1>1 DEF Consecutive
<1>3. l1Origin \in 0..MaxL1 /\ MaxL1 \in Nat
  BY Parameters DEF IInv, ReadInv, L1Inv
<1>4. attributes = None /\ ~SpanContinues
  BY DEF Derive, Prepare
<1>5. safe = Len(chain)
  BY <1>4, AtSafeHead DEF IInv
<1> QED BY <1>1, <1>2, <1>3, <1>4, <1>5 DEF Matching, EpochMatches

LEMMA AcceptBatchKeeps == ASSUME IInv, AcceptBatch PROVE IInv'
<1>1. PICK item : item = Buffered[Stop]
  OBVIOUS
<1>2. PICK new : new = SingularBatches(item.batch)
  OBVIOUS
<1>3. /\ Derive /\ EpochMatches /\ Decisive # {} /\ Verdict(Stop) = "accept"
      /\ Remaining(SubSeq(Buffered, Stop + 1, Len(Buffered)))
      /\ l1Blocks' = Origins /\ unread' = UnreadAfter
      /\ l1' = l1 /\ l1Origin' = l1Origin /\ chain' = chain /\ safe' = safe
      /\ IF \A k \in DOMAIN new : new[k].block.epoch \in Range(Origins)
         THEN /\ attributes' = Attributes(new[1].block, Len(new) = 1)
              /\ nextSpan' = Tail(new) /\ critical' = critical
         ELSE critical' = TRUE /\ nextSpan' = <<>> /\ attributes' = attributes
  BY <1>1, <1>2 DEF AcceptBatch, Accepted
<1>4. /\ Consecutive(Origins, l1Origin) /\ Origins # <<>> /\ Matching(Origins, chain)
      /\ l1Origin \in 0..MaxL1 /\ safe = Len(chain) /\ attributes = None /\ ~SpanContinues
  BY <1>3, DeriveFacts
<1>5. Prepare /\ ReadBatch # NoBatch
  BY <1>3 DEF Derive
<1>6. Buffered \in Seq(Items)
  BY <1>5, BufferedFacts DEF IInv, Included
<1>7. Stop \in DOMAIN Buffered /\ item \in Items /\ Stop + 1 \in Nat \ {0}
  <2>1. Stop \in DOMAIN Buffered
    BY <1>3, <1>6, StopFacts
  <2> QED BY <1>1, <1>6, <2>1
<1>8. /\ batches' \in Seq(Items)
      /\ \A i \in DOMAIN batches' : \E j \in DOMAIN Buffered : batches'[i] = Buffered[j]
  BY <1>3, <1>6, <1>7, RemainingFacts
<1>9. /\ L1Inv' /\ ReadInv' /\ ChainInv' /\ WindowInv'
      /\ Consecutive(l1Blocks', bqOrigin')
      /\ Included(batches', l1Origin')
  BY <1>3, <1>5, <1>8, PlainStep DEF Advances
<1>10. chain \in Seq(Blocks) /\ ChainInv
  BY DEF IInv, ChainInv
<1>11. Origins[1] = Epoch(chain) + 1 /\ item.incl <= Epoch(chain) + SeqWindowSize =>
          item.batch.time > Time(Len(chain) + 1)
  BY <1>1, <1>4, <1>5, <1>7, WindowKept
<1>12. CheckBatch(Origins, chain, item) = "accept"
  BY <1>1, <1>3 DEF Verdict
<1>13. PICK old \in Nat : /\ old = OldBlocks(chain, item.batch) /\ old < Len(item.batch.blocks)
                          /\ Continues(item.batch, old, chain, Origins)
  BY <1>4, <1>7, <1>10, <1>11, <1>12, BatchAccepted
<1>14. item.batch \in Batches
  BY <1>7 DEF Items
<1>15. /\ new \in Seq([time : Nat, block : Blocks]) /\ Len(new) \in Nat \ {0}
       /\ \A k \in DOMAIN new : new[k].block.epoch \in Range(Origins)
       /\ SpanAfter(new, Epoch(chain), Len(chain))
  BY <1>2, <1>10, <1>13, <1>14, NewBatches
<1>16. /\ attributes' = [block |-> new[1].block, last |-> Len(new) = 1]
       /\ nextSpan' = Tail(new) /\ critical' = critical
  BY <1>3, <1>15 DEF Attributes
<1>17. new # <<>> /\ 1 \in DOMAIN new
  BY <1>15
<1>18. /\ Tail(new) \in Seq([time : Nat, block : Blocks])
       /\ InTime(Epoch(chain), new[1].block, Len(chain) + 1) /\ new[1].block \in Blocks
       /\ Len(new) = 1 <=> Tail(new) = <<>>
       /\ SpanAfter(Tail(new), new[1].block.epoch, Len(chain) + 1)
       /\ \A k \in DOMAIN Tail(new) : k + 1 \in DOMAIN new /\ Tail(new)[k] = new[k + 1]
  <2>1. Len(chain) \in Nat
    BY <1>10
  <2> QED BY <1>15, <1>17, <2>1, SpanTail
<1>19. /\ attributes' \in [block : Blocks, last : BOOLEAN] /\ attributes'.block = new[1].block
       /\ attributes'.last <=> nextSpan' = <<>>
  BY <1>16, <1>18
<1>20. \A k \in DOMAIN Tail(new) : Tail(new)[k].block.epoch \in Range(Origins)
  BY <1>15, <1>18
<1>21. new[1].block.epoch \in Range(Origins)
  BY <1>15, <1>17
<1>22. SpanInv'
  <2>1. nextSpan' \in Seq([time : Nat, block : Blocks])
    BY <1>16, <1>18
  <2>2. \A k \in DOMAIN nextSpan' : nextSpan'[k].block.epoch \in Range(l1Blocks')
    BY <1>3, <1>16, <1>20
  <2>3. attributes'.block.epoch \in Range(l1Blocks')
    BY <1>3, <1>19, <1>21
  <2>4. InTime(Epoch(chain'), attributes'.block, Len(chain') + 1)
    BY <1>3, <1>18, <1>19
  <2>5. SpanAfter(nextSpan', attributes'.block.epoch, Len(chain') + 1)
    BY <1>3, <1>16, <1>18, <1>19
  <2>6. attributes' # None
    BY <1>19, NoneAssumption
  <2> QED BY <1>19, <2>1, <2>2, <2>3, <2>4, <2>5, <2>6 DEF SpanInv
<1>23. NoCriticalError'
  BY <1>16 DEF IInv, NoCriticalError
<1> QED BY <1>3, <1>4, <1>9, <1>22, <1>23 DEF IInv, BufferInv

LEMMA UndecidedKeeps == ASSUME IInv, Undecided PROVE IInv'
<1>1. /\ Derive /\ EpochMatches /\ Decisive # {} /\ NotEnoughData
      /\ Remaining(SubSeq(Buffered, Stop, Len(Buffered)))
      /\ l1Blocks' = Origins /\ nextSpan' = <<>> /\ l1' = l1 /\ attributes' = attributes
      /\ chain' = chain /\ safe' = safe /\ critical' = critical
  BY DEF Undecided
<1>2. Prepare /\ ReadBatch # NoBatch
  BY <1>1 DEF Derive
<1>3. SpanInv' /\ attributes' = None
  BY <1>1, <1>2, Waiting
<1>4. Buffered \in Seq(Items)
  BY <1>2, BufferedFacts DEF IInv, Included
<1>5. Stop \in Nat \ {0}
  BY <1>4, StopFacts
<1>6. /\ batches' \in Seq(Items)
      /\ \A i \in DOMAIN batches' : \E j \in DOMAIN Buffered : batches'[i] = Buffered[j]
  BY <1>1, <1>4, <1>5, RemainingFacts
<1>7. /\ L1Inv' /\ ReadInv' /\ ChainInv' /\ WindowInv'
      /\ Consecutive(l1Blocks', bqOrigin')
      /\ l1Blocks' = <<>> => bqOrigin' < Epoch(chain')
      /\ Included(batches', l1Origin')
  BY <1>1, <1>2, <1>6, PlainStep DEF Advances
<1>8. NoCriticalError'
  BY <1>1 DEF IInv, NoCriticalError
<1> QED BY <1>1, <1>3, <1>7, <1>8 DEF IInv, BufferInv

LEMMA ForceEmptyKeeps == ASSUME IInv, ForceEmpty PROVE IInv'
<1> DEFINE blk == [epoch |-> Head(Origins), txs |-> "none"]
<1>1. /\ Derive /\ EpochMatches /\ Len(Origins) >= 2 /\ EmptyDue /\ Remaining(<<>>)
      /\ l1Blocks' = Origins /\ nextSpan' = <<>> /\ unread' = UnreadAfter
      /\ attributes' = Attributes(blk, TRUE)
      /\ l1' = l1 /\ l1Origin' = l1Origin /\ chain' = chain /\ safe' = safe /\ critical' = critical
  BY DEF ForceEmpty
<1>2. /\ Consecutive(Origins, l1Origin) /\ Origins # <<>> /\ Head(Origins) = Origins[1]
      /\ l1Origin \in 0..MaxL1 /\ MaxL1 \in Nat
  BY <1>1, DeriveFacts
<1>3. Prepare /\ ReadBatch # NoBatch
  BY <1>1 DEF Derive
<1>4. Buffered \in Seq(Items)
  BY <1>3, BufferedFacts DEF IInv, Included
<1>5. /\ batches' \in Seq(Items)
      /\ \A i \in DOMAIN batches' : \E j \in DOMAIN Buffered : batches'[i] = Buffered[j]
  <2>1. 1 \in Nat \ {0}
    OBVIOUS
  <2> QED BY <1>1, <1>4, <2>1, RemainingFacts
<1>6. /\ L1Inv' /\ ReadInv' /\ ChainInv' /\ WindowInv'
      /\ Consecutive(l1Blocks', bqOrigin')
      /\ Included(batches', l1Origin')
  BY <1>1, <1>3, <1>5, PlainStep DEF Advances
<1>7. PICK N \in Nat : N = Len(Origins) /\ N >= 2 /\ DOMAIN Origins = 1..N
  BY <1>1, <1>2 DEF Consecutive
<1>8. 1 \in DOMAIN Origins /\ 2 \in DOMAIN Origins
  BY <1>7
<1>9. Origins[1] = l1Origin - N + 1 /\ Origins[2] = l1Origin - N + 2 /\ Origins[1] \in Nat
  BY <1>2, <1>7, <1>8 DEF Consecutive
<1>10. Origins[1] \in 0..MaxL1 /\ Origins[1] + 1 \in 0..MaxL1 /\ Origins[2] = Origins[1] + 1
  BY <1>2, <1>7, <1>9
<1>11. blk \in Blocks /\ blk.epoch = Origins[1] /\ blk.txs = "none" /\ blk.epoch \in Range(Origins)
  BY <1>2, <1>8, <1>10 DEF Blocks, Txs, Range
<1> HIDE DEF blk
<1>12. InTime(Epoch(chain), blk, Len(chain) + 1)
  <2> SUFFICES ASSUME blk.epoch = Epoch(chain)
               PROVE  blk.epoch + 1 \in 0..MaxL1 /\ Time(Len(chain) + 1) < L1Time[blk.epoch + 1]
    BY <1>11 DEF InTime
  <2>1. Origins[1] # Epoch(chain) + 1
    BY <1>9, <1>11
  <2> QED BY <1>1, <1>2, <1>10, <1>11, <2>1 DEF EmptyDue, FirstOfEpoch
<1>13. attributes' \in [block : Blocks, last : BOOLEAN] /\ attributes'.block = blk /\ attributes'.last = TRUE
  BY <1>1, <1>11 DEF Attributes
<1>14. SpanInv'
  <2>1. InTime(Epoch(chain'), attributes'.block, Len(chain') + 1)
    BY <1>1, <1>12, <1>13
  <2>2. nextSpan' = <<>> /\ attributes'.block.epoch \in Range(l1Blocks')
    BY <1>1, <1>11, <1>13
  <2>3. SpanAfter(nextSpan', attributes'.block.epoch, Len(chain') + 1)
    BY <2>2 DEF SpanAfter
  <2>4. attributes' # None
    BY <1>13, NoneAssumption
  <2> QED BY <1>13, <2>1, <2>2, <2>3, <2>4 DEF SpanInv
<1>15. NoCriticalError'
  BY <1>1 DEF IInv, NoCriticalError
<1> QED BY <1>1, <1>2, <1>6, <1>14, <1>15 DEF IInv, BufferInv

LEMMA NoBatchFitsKeeps == ASSUME IInv, NoBatchFits PROVE IInv'
<1>1. /\ Derive /\ EpochMatches /\ Remaining(<<>>) /\ NotEnoughData
      /\ l1Blocks' = IF WindowOver /\ Len(Origins) >= 2 THEN Tail(Origins) ELSE Origins
      /\ nextSpan' = <<>> /\ l1' = l1 /\ attributes' = attributes
      /\ chain' = chain /\ safe' = safe /\ critical' = critical
  BY DEF NoBatchFits
<1>2. /\ Consecutive(Origins, l1Origin) /\ Origins # <<>> /\ Head(Origins) = Origins[1]
      /\ l1Origin \in 0..MaxL1 /\ MaxL1 \in Nat /\ safe = Len(chain) /\ Matching(Origins, chain)
  BY <1>1, DeriveFacts
<1>3. Prepare /\ ReadBatch # NoBatch
  BY <1>1 DEF Derive
<1>4. Buffered \in Seq(Items) /\ Included(Buffered, l1Origin)
  BY <1>3, BufferedFacts DEF IInv, Included
<1>5. /\ batches' \in Seq(Items)
      /\ \A i \in DOMAIN batches' : \E j \in DOMAIN Buffered : batches'[i] = Buffered[j]
      /\ \A i \in DOMAIN batches' : \E j \in Future : batches'[i] = Buffered[j]
  <2>1. 1 \in Nat \ {0}
    OBVIOUS
  <2> QED BY <1>1, <1>4, <2>1, RemainingFacts
<1>6. SpanInv' /\ attributes' = None
  BY <1>1, <1>3, Waiting
<1>7. NoCriticalError'
  BY <1>1 DEF IInv, NoCriticalError
<1>8. CASE l1Blocks' = Origins
  <2>1. /\ L1Inv' /\ ReadInv' /\ ChainInv' /\ WindowInv'
        /\ Consecutive(l1Blocks', bqOrigin')
        /\ l1Blocks' = <<>> => bqOrigin' < Epoch(chain')
        /\ Included(batches', l1Origin')
    BY <1>1, <1>3, <1>5, <1>8, PlainStep DEF Advances
  <2> QED BY <1>1, <1>6, <1>7, <2>1 DEF IInv, BufferInv
<1>9. CASE WindowOver /\ Len(Origins) >= 2 /\ l1Blocks' = Tail(Origins)
  <2>1. PICK t : t = SubSeq(Origins, 2, Len(Origins))
    OBVIOUS
  <2>2. Origins \in Seq(Nat) /\ 2 \in DOMAIN Origins /\ 1 \in DOMAIN Origins /\ Len(Origins) \in Nat
    BY <1>2, <1>9 DEF Consecutive
  <2>3. l1Blocks' = t
    BY <1>9, <2>1, <2>2
  <2>4. Consecutive(t, l1Origin) /\ t # <<>> /\ t[1] = Origins[2]
    <3>1. l1Origin \in Nat
      BY <1>2
    <3> QED BY <1>2, <2>1, <2>2, <3>1, SuffixConsecutive
  <2>5. Origins[1] = l1Origin - Len(Origins) + 1 /\ Origins[2] = l1Origin - Len(Origins) + 2
    BY <1>2, <2>2 DEF Consecutive
  <2>6. ASSUME t[1] = Epoch(chain) + 1
        PROVE  WindowPassed /\ NoneForWindow(batches')
    <3>1. Epoch(chain) \in Nat
      BY EpochAtLast DEF IInv
    <3>2. Head(Origins) = Epoch(chain)
      BY <1>2, <2>2, <2>4, <2>5, <2>6, <3>1
    <3>3. WindowPassed
      <4>1. Epoch(chain) + SeqWindowSize \in Int /\ l1Origin \in Int
        BY <1>2, <3>1, Parameters
      <4> QED BY <1>9, <3>2, <4>1 DEF WindowOver, WindowPassed
    <3>4. \A j \in Future : Buffered[j].batch.time > Time(Len(chain) + 1)
      <4> TAKE j \in Future
      <4>1. CheckBatch(Origins, chain, Buffered[j]) = "future" /\ Buffered[j] \in Items
        <5>1. j \in DOMAIN Buffered
          BY <1>4, StopFacts
        <5> QED BY <1>4, <5>1, Element DEF Future, Verdict
      <4> QED BY <4>1, FutureFacts
    <3>5. NoneForWindow(batches')
      BY <1>2, <1>5, <3>4 DEF NoneForWindow
    <3> QED BY <3>3, <3>5
  <2>7. Included(batches', l1Origin)
    BY <1>4, <1>5, RemainingIncluded
  <2>8. /\ L1Inv' /\ ReadInv' /\ ChainInv' /\ WindowInv'
        /\ Consecutive(l1Blocks', bqOrigin')
        /\ Included(batches', l1Origin')
    BY <1>1, <1>3, <2>3, <2>4, <2>6, <2>7, QueueStep DEF Advances
  <2> QED BY <1>1, <1>6, <1>7, <2>3, <2>4, <2>8 DEF IInv, BufferInv
<1> QED BY <1>1, <1>8, <1>9

-----------------------------------------------------------------------------
(* The other steps                                                         *)

LEMMA NewL1BlockKeeps ==
    ASSUME IInv, NEW cs \in BoundedSeq(Channels, MaxChannels), NewL1Block(cs)
    PROVE  IInv'
<1>1. PICK n : n = L1Head + 1
  OBVIOUS
<1>2. /\ n <= MaxL1
      /\ \A b \in (UNION {Range(cs[i]) : i \in {j \in DOMAIN cs : cs[j] # Garbage}}) \ {Garbage} :
            b.originOk => EndEpoch(b) < n
      /\ l1' = [m \in 0..n |-> IF m = n THEN cs ELSE l1[m]]
      /\ UNCHANGED <<reading, queue, attributes, chain, safe, critical>>
  BY <1>1, Zenon DEF NewL1Block
<1>3. L1Head \in Nat /\ n \in Nat /\ n \in 0..MaxL1 /\ DOMAIN l1 = 0..L1Head
  BY <1>1, <1>2, Parameters DEF IInv, L1Inv
<1>4. cs \in Seq(Channels)
  <2>1. PICK m \in 0..MaxChannels : cs \in [1..m -> Channels]
    BY DEF BoundedSeq, SeqOf
  <2>2. m \in Nat
    BY ParameterAssumption
  <2> QED BY <2>1, <2>2, FunctionIsSequence
<1>5. \A i \in DOMAIN cs : ChannelAt(cs[i], n)
  <2> SUFFICES ASSUME NEW i \in DOMAIN cs, cs[i] # Garbage PROVE ChannelAt(cs[i], n)
    BY DEF ChannelAt
  <2>1. cs[i] \in Channels
    BY <1>4, Element
  <2>2. cs[i] \in Seq(Batches \cup {Garbage})
    BY <2>1, ChannelAssumption
  <2>3. \A k \in DOMAIN cs[i] : cs[i][k] # Garbage => Causal(cs[i][k], n)
    <3> SUFFICES ASSUME NEW k \in DOMAIN cs[i], cs[i][k] # Garbage PROVE Causal(cs[i][k], n)
      OBVIOUS
    <3>1. cs[i][k] \in Range(cs[i])
      BY InRange
    <3>2. Range(cs[i]) \in {Range(cs[h]) : h \in {j \in DOMAIN cs : cs[j] # Garbage}}
      OBVIOUS
    <3>3. cs[i][k] \in (UNION {Range(cs[h]) : h \in {j \in DOMAIN cs : cs[j] # Garbage}}) \ {Garbage}
      BY <3>1, <3>2
    <3> QED BY <1>2, <3>3 DEF Causal
  <2> QED BY <2>2, <2>3 DEF ChannelAt
<1>6. L1Head' = n
  <2>1. DOMAIN l1' = 0..n
    BY <1>2
  <2>2. Cardinality(0..n) = n + 1
    <3>1. 0 \in Int /\ n \in Int /\ ~(0 > n)
      BY <1>3
    <3>2. Cardinality(0..n) = IF 0 > n THEN 0 ELSE n - 0 + 1
      BY <3>1, FS_Interval
    <3> QED BY <1>3, <3>2
  <2> QED BY <1>3, <2>1, <2>2 DEF L1Head
<1>7. L1Inv'
  <2>1. DOMAIN l1' = 0..n /\ \A m \in 0..n : l1'[m] = IF m = n THEN cs ELSE l1[m]
    BY <1>2
  <2>2. \A m \in 0..n : m # n => m \in DOMAIN l1
    BY <1>1, <1>3
  <2>3. \A m \in DOMAIN l1 : ChannelsAt(l1[m], m)
    BY DEF IInv, L1Inv
  <2>4. ChannelsAt(cs, n)
    BY <1>4, <1>5 DEF ChannelsAt
  <2>5. \A m \in 0..n : ChannelsAt(l1'[m], m)
    BY <2>1, <2>2, <2>3, <2>4
  <2> QED BY <1>3, <1>6, <2>1, <2>5 DEF L1Inv
<1>8. /\ l1Origin' = l1Origin /\ unread' = unread /\ reader' = reader /\ bqOrigin' = bqOrigin
      /\ l1Blocks' = l1Blocks /\ batches' = batches /\ nextSpan' = nextSpan
      /\ attributes' = attributes /\ chain' = chain /\ safe' = safe /\ critical' = critical
  BY <1>2 DEF reading, queue
<1>9. ReadInv'
  <2>1. l1Origin \in 0..n
    BY <1>1, <1>3 DEF IInv, ReadInv
  <2> QED BY <1>6, <1>8, <2>1 DEF IInv, ReadInv
<1>10. ChainInv'
  <2>1. \A m \in 1..Len(chain) : chain[m].epoch <= n
    <3> TAKE m \in 1..Len(chain)
    <3>1. chain[m].epoch \in 0..MaxL1 /\ chain[m].epoch <= L1Head
      <4>1. chain \in Seq(Blocks) /\ chain[m].epoch <= L1Head
        BY DEF IInv, ChainInv
      <4>2. chain[m] \in Blocks
        BY <4>1
      <4> QED BY <4>1, <4>2 DEF Blocks
    <3> QED BY <1>1, <1>3, <3>1
  <2>2. \A m \in 1..Len(chain) : EpochAt(m - 1)' = EpochAt(m - 1)
    BY <1>8 DEF EpochAt
  <2>3. ChainInv /\ chain' = chain /\ safe' = safe /\ L1Head' = n
    BY <1>6, <1>8 DEF IInv
  <2> QED BY <2>1, <2>2, <2>3 DEF ChainInv
<1>11. BufferInv' /\ SpanInv' /\ NoCriticalError'
  BY <1>8 DEF IInv, BufferInv, SpanInv, NoCriticalError
<1>12. WindowInv'
  <2>1. EpochAt(safe)' = EpochAt(safe) /\ AtEnd' = AtEnd
    BY <1>8 DEF EpochAt, AtEnd
  <2> QED BY <1>8, <2>1 DEF IInv, WindowInv
<1> QED BY <1>7, <1>9, <1>10, <1>11, <1>12 DEF IInv

LEMMA PopNextBatchKeeps == ASSUME IInv, PopNextBatch PROVE IInv'
<1>1. /\ attributes = None /\ nextSpan # <<>> /\ Head(nextSpan).time = Time(Len(chain) + 1)
      /\ attributes' = Attributes(Head(nextSpan).block, Len(nextSpan) = 1)
      /\ nextSpan' = Tail(nextSpan)
      /\ l1' = l1 /\ l1Origin' = l1Origin /\ unread' = unread /\ reader' = reader
      /\ bqOrigin' = bqOrigin /\ l1Blocks' = l1Blocks /\ batches' = batches
      /\ chain' = chain /\ safe' = safe /\ critical' = critical
  BY DEF PopNextBatch, SpanContinues, reading
<1>2. /\ nextSpan \in Seq([time : Nat, block : Blocks])
      /\ \A k \in DOMAIN nextSpan : nextSpan[k].block.epoch \in Range(l1Blocks)
  BY DEF IInv, SpanInv
<1>3. Head(nextSpan) = nextSpan[1] /\ 1 \in DOMAIN nextSpan
  BY <1>1, <1>2
<1>4. Len(chain) \in Nat
  BY EpochAtLast DEF IInv
<1>5. SpanAfter(nextSpan, Epoch(chain), Len(chain))
  <2>1. ~(nextSpan[1].time > Time(Len(chain) + 1))
    <3>1. Len(chain) + 1 \in Nat
      BY <1>4
    <3>2. Time(Len(chain) + 1) \in Nat
      BY <3>1, TimeNat
    <3> QED BY <1>1, <1>3, <3>2
  <2> QED BY <1>1, <2>1 DEF IInv, SpanInv
<1>6. /\ Tail(nextSpan) \in Seq([time : Nat, block : Blocks])
      /\ InTime(Epoch(chain), nextSpan[1].block, Len(chain) + 1) /\ nextSpan[1].block \in Blocks
      /\ Len(nextSpan) = 1 <=> Tail(nextSpan) = <<>>
      /\ SpanAfter(Tail(nextSpan), nextSpan[1].block.epoch, Len(chain) + 1)
      /\ \A k \in DOMAIN Tail(nextSpan) : k + 1 \in DOMAIN nextSpan /\ Tail(nextSpan)[k] = nextSpan[k + 1]
  BY <1>1, <1>2, <1>4, <1>5, SpanTail
<1>7. /\ attributes' \in [block : Blocks, last : BOOLEAN] /\ attributes'.block = nextSpan[1].block
      /\ attributes'.last <=> nextSpan' = <<>>
  BY <1>1, <1>3, <1>6 DEF Attributes
<1>8. SpanInv'
  <2>1. nextSpan' \in Seq([time : Nat, block : Blocks])
    BY <1>1, <1>6
  <2>2. \A k \in DOMAIN nextSpan' : nextSpan'[k].block.epoch \in Range(l1Blocks')
    BY <1>1, <1>2, <1>6
  <2>3. attributes'.block.epoch \in Range(l1Blocks')
    BY <1>1, <1>2, <1>3, <1>7
  <2>4. InTime(Epoch(chain'), attributes'.block, Len(chain') + 1)
    BY <1>1, <1>6, <1>7
  <2>5. SpanAfter(nextSpan', attributes'.block.epoch, Len(chain') + 1)
    BY <1>1, <1>6, <1>7
  <2>6. attributes' # None
    BY <1>7, NoneAssumption
  <2> QED BY <1>7, <2>1, <2>2, <2>3, <2>4, <2>5, <2>6 DEF SpanInv
<1>9. L1Inv' /\ ReadInv'
  BY <1>1 DEF IInv, L1Inv, ReadInv, L1Head
<1>10. ChainInv'
  BY <1>1 DEF IInv, ChainInv, EpochAt, L1Head
<1>11. BufferInv' /\ NoCriticalError'
  BY <1>1 DEF IInv, BufferInv, NoCriticalError
<1>12. WindowInv'
  <2>1. EpochAt(safe)' = EpochAt(safe) /\ AtEnd' = AtEnd
    BY <1>1 DEF EpochAt, AtEnd
  <2> QED BY <1>1, <2>1 DEF IInv, WindowInv
<1> QED BY <1>8, <1>9, <1>10, <1>11, <1>12 DEF IInv

(* A step that only asks for a reset. *)
LEMMA ResettingKeeps ==
    ASSUME IInv, UNCHANGED <<l1, reading, queue, attributes, chain, safe, critical>>
    PROVE  IInv'
<1>1. /\ l1' = l1 /\ l1Origin' = l1Origin /\ unread' = unread /\ reader' = reader
      /\ bqOrigin' = bqOrigin /\ l1Blocks' = l1Blocks /\ batches' = batches /\ nextSpan' = nextSpan
      /\ attributes' = attributes /\ chain' = chain /\ safe' = safe /\ critical' = critical
  BY DEF reading, queue
<1>2. L1Inv' /\ ReadInv'
  BY <1>1 DEF IInv, L1Inv, ReadInv, L1Head
<1>3. ChainInv'
  BY <1>1 DEF IInv, ChainInv, EpochAt, L1Head
<1>4. BufferInv' /\ SpanInv' /\ NoCriticalError'
  BY <1>1 DEF IInv, BufferInv, SpanInv, NoCriticalError
<1>5. WindowInv'
  <2>1. EpochAt(safe)' = EpochAt(safe) /\ AtEnd' = AtEnd
    BY <1>1 DEF EpochAt, AtEnd
  <2> QED BY <1>1, <2>1 DEF IInv, WindowInv
<1> QED BY <1>2, <1>3, <1>4, <1>5 DEF IInv

(* What a block of the chain keeps does not depend on the blocks after it. *)
BlockKept(c, n, head) ==
    LET prev == IF n = 1 THEN 0 ELSE c[n - 1].epoch
    IN  /\ c[n].epoch \in {prev, prev + 1}
        /\ c[n].epoch <= head
        /\ Time(n) >= L1Time[c[n].epoch]
        /\ c[n].txs # "bad"
        /\ InTime(prev, c[n], n)

LEMMA ChainBlocks ==
    ChainInv <=> /\ chain \in Seq(Blocks) /\ safe \in 0..Len(chain)
                 /\ \A n \in 1..Len(chain) : BlockKept(chain, n, L1Head)
<1>1. ASSUME NEW n \in 1..Len(chain), chain \in Seq(Blocks)
      PROVE  EpochAt(n - 1) = IF n = 1 THEN 0 ELSE chain[n - 1].epoch
  <2>1. n - 1 = 0 <=> n = 1
    BY <1>1
  <2> QED BY <2>1 DEF EpochAt
<1> QED BY <1>1 DEF ChainInv, BlockKept

LEMMA ChainBlocksNext ==
    ASSUME chain' \in Seq(Blocks), safe' \in 0..Len(chain'), NEW head, head = L1Head',
           \A n \in 1..Len(chain') : BlockKept(chain', n, head)
    PROVE  ChainInv'
<1>1. (/\ chain \in Seq(Blocks) /\ safe \in 0..Len(chain)
       /\ \A n \in 1..Len(chain) : BlockKept(chain, n, L1Head))' => ChainInv'
  BY ChainBlocks, PTL
<1> QED BY <1>1

(* A prefix of the chain. *)
LEMMA PrefixKeeps ==
    ASSUME ChainInv, NEW m \in 0..Len(chain), chain' = SubSeq(chain, 1, m), safe' \in 0..m, l1' = l1
    PROVE  /\ ChainInv' /\ Len(chain') = m /\ \A n \in 1..m : chain'[n] = chain[n]
           /\ EpochAt(m)' = EpochAt(m)
<1>1. /\ chain \in Seq(Blocks) /\ Len(chain) \in Nat
      /\ \A n \in 1..Len(chain) : BlockKept(chain, n, L1Head)
  BY ChainBlocks
<1>2. /\ chain' \in Seq(Blocks) /\ Len(chain') = m /\ \A n \in 1..m : chain'[n] = chain[n]
  BY <1>1
<1>3. L1Head' = L1Head
  BY DEF L1Head
<1>4. \A n \in 1..m : BlockKept(chain', n, L1Head)
  <2> TAKE n \in 1..m
  <2>1. n \in 1..Len(chain) /\ (n # 1 => n - 1 \in 1..m)
    BY <1>1
  <2>2. chain'[n] = chain[n] /\ (n # 1 => chain'[n - 1] = chain[n - 1])
    BY <1>2, <2>1
  <2> QED BY <1>1, <2>1, <2>2 DEF BlockKept
<1>5. ChainInv'
  BY <1>2, <1>3, <1>4, ChainBlocksNext
<1>6. EpochAt(m)' = EpochAt(m)
  <2>1. m = 0 \/ m \in 1..m
    BY <1>1
  <2> QED BY <1>2, <2>1 DEF EpochAt
<1> QED BY <1>2, <1>5, <1>6

LEMMA RejectBlockKeeps == ASSUME IInv, RejectBlock PROVE IInv'
<1>1. /\ attributes # None /\ attributes' = None /\ chain' = SubSeq(chain, 1, safe) /\ safe' = safe
      /\ l1' = l1 /\ l1Origin' = l1Origin /\ unread' = unread /\ reader' = reader
      /\ bqOrigin' = bqOrigin /\ l1Blocks' = l1Blocks /\ batches' = batches /\ nextSpan' = nextSpan
      /\ critical' = critical
  BY DEF RejectBlock, reading, queue
<1>2. safe \in 0..Len(chain) /\ safe' \in 0..safe /\ safe \in Nat /\ Len(chain) \in Nat
  BY <1>1 DEF IInv, ChainInv
<1>3. ChainInv' /\ Len(chain') = safe /\ EpochAt(safe)' = EpochAt(safe)
  <2>1. /\ ChainInv' /\ Len(chain') = safe
        /\ \A m \in {safe} : (IF m = 0 THEN 0 ELSE chain'[m].epoch) = EpochAt(safe)
    BY <1>1, <1>2, PrefixKeeps DEF IInv, EpochAt
  <2> QED BY <1>1, <2>1 DEF EpochAt
<1>4. L1Inv' /\ ReadInv' /\ NoCriticalError'
  BY <1>1 DEF IInv, L1Inv, ReadInv, L1Head, NoCriticalError
<1>5. BufferInv'
  BY <1>1 DEF IInv, BufferInv
<1>6. WindowInv'
  <2>1. AtEnd' = AtEnd
    BY <1>1 DEF AtEnd
  <2> QED BY <1>1, <1>3, <2>1 DEF IInv, WindowInv
<1>7. SpanInv'
  <2>1. ASSUME nextSpan # <<>>
        PROVE  nextSpan[1].time > Time(safe + 1)
    <3>1. 1 \in DOMAIN nextSpan
      BY <2>1 DEF IInv, SpanInv
    <3>2. nextSpan[1].time = Time((Len(chain) + 1) + 1)
      BY <1>1, <3>1 DEF IInv, SpanInv, SpanAfter
    <3>3. PICK m \in Int : m = (Len(chain) + 1) + 1 /\ safe + 1 < m /\ safe + 1 \in Int
      BY <1>2
    <3>4. Time(safe + 1) < Time(m) /\ Time(safe + 1) \in Int /\ Time(m) \in Int
      BY <3>3, TimeOrder, TimeInt
    <3> QED BY <3>2, <3>3, <3>4
  <2>2. /\ nextSpan' \in Seq([time : Nat, block : Blocks])
        /\ \A k \in DOMAIN nextSpan' : nextSpan'[k].block.epoch \in Range(l1Blocks')
    BY <1>1 DEF IInv, SpanInv
  <2>3. safe' = Len(chain') /\ (nextSpan' # <<>> => nextSpan'[1].time > Time(Len(chain') + 1))
    BY <1>1, <1>3, <2>1
  <2> QED BY <1>1, <2>2, <2>3 DEF SpanInv
<1> QED BY <1>3, <1>4, <1>5, <1>6, <1>7 DEF IInv

LEMMA InsertBlockKeeps == ASSUME IInv, InsertBlock PROVE IInv'
<1> DEFINE blk == attributes.block
           n == Len(chain) + 1
<1>1. /\ attributes # None /\ attributes' = None /\ Buildable /\ blk.txs # "bad"
      /\ chain' = Append(chain, blk) /\ safe' = IF attributes.last THEN Len(chain') ELSE safe
      /\ l1' = l1 /\ l1Origin' = l1Origin /\ unread' = unread /\ reader' = reader
      /\ bqOrigin' = bqOrigin /\ l1Blocks' = l1Blocks /\ batches' = batches /\ nextSpan' = nextSpan
      /\ critical' = critical
  BY DEF InsertBlock, reading, queue
<1>2. /\ attributes \in [block : Blocks, last : BOOLEAN] /\ blk.epoch \in Range(l1Blocks)
      /\ InTime(Epoch(chain), blk, n) /\ (attributes.last <=> nextSpan = <<>>)
      /\ SpanAfter(nextSpan, blk.epoch, n)
  BY <1>1 DEF IInv, SpanInv
<1>3. /\ chain \in Seq(Blocks) /\ safe \in 0..Len(chain) /\ Len(chain) \in Nat
      /\ \A m \in 1..Len(chain) : BlockKept(chain, m, L1Head)
  BY ChainBlocks DEF IInv
<1>4. blk \in Blocks /\ blk.epoch \in 0..MaxL1 /\ MaxL1 \in Nat
  BY <1>2, Parameters DEF Blocks
<1>5. PICK j \in DOMAIN l1Blocks : l1Blocks[j] = blk.epoch
  BY <1>2 DEF Range
<1>6. l1Blocks[1] <= blk.epoch /\ blk.epoch <= bqOrigin /\ bqOrigin <= L1Head /\ L1Head \in Nat
      /\ bqOrigin \in Nat /\ l1Blocks[1] \in Int
  <2>1. PICK N \in Nat : N = Len(l1Blocks) /\ DOMAIN l1Blocks = 1..N
    BY DEF IInv, BufferInv, Consecutive
  <2>2. bqOrigin \in Nat /\ L1Head \in Nat /\ bqOrigin <= L1Head
    BY DEF IInv, ReadInv, L1Inv
  <2>3. j \in 1..N /\ 1 \in 1..N
    BY <2>1
  <2>4. l1Blocks[1] = bqOrigin - N + 1 /\ l1Blocks[j] = bqOrigin - N + j
    BY <2>1, <2>3 DEF IInv, BufferInv, Consecutive
  <2> QED BY <1>5, <2>2, <2>3, <2>4
<1>7. /\ chain' \in Seq(Blocks) /\ Len(chain') = n /\ chain'[n] = blk
      /\ \A m \in 1..Len(chain) : chain'[m] = chain[m]
  BY <1>1, <1>3, <1>4
<1> HIDE DEF blk
<1>8. BlockKept(chain', n, L1Head)
  <2>1. n - 1 = Len(chain) /\ (n = 1 <=> Len(chain) = 0)
    BY <1>3
  <2>2. Epoch(chain) = IF n = 1 THEN 0 ELSE chain'[n - 1].epoch
    <3>1. CASE Len(chain) = 0
      BY <1>3, <2>1, <3>1, EpochOf
    <3>2. CASE Len(chain) # 0
      <4>1. Len(chain) \in 1..Len(chain)
        BY <1>3, <3>2
      <4> QED BY <1>3, <1>7, <2>1, <3>2, <4>1, EpochOf
    <3> QED BY <3>1, <3>2
  <2>3. /\ blk.epoch \in {Epoch(chain), Epoch(chain) + 1} /\ Time(n) >= L1Time[blk.epoch]
    BY <1>1 DEF Buildable, blk
  <2>4. blk.epoch <= L1Head
    BY <1>4, <1>6
  <2> HIDE DEF n
  <2> QED BY <1>1, <1>2, <1>7, <2>2, <2>3, <2>4 DEF BlockKept
<1>9. L1Head' = L1Head
  BY <1>1 DEF L1Head
<1>10. \A m \in 1..n : BlockKept(chain', m, L1Head)
  <2> TAKE m \in 1..n
  <2>1. CASE m = n
    BY <1>8, <2>1
  <2>2. CASE m # n
    <3>1. m \in 1..Len(chain) /\ (m # 1 => m - 1 \in 1..Len(chain))
      BY <1>3, <2>2
    <3>2. chain'[m] = chain[m] /\ (m # 1 => chain'[m - 1] = chain[m - 1])
      BY <1>7, <3>1
    <3> QED BY <1>3, <3>1, <3>2 DEF BlockKept
  <2> QED BY <2>1, <2>2
<1>11. safe' \in 0..Len(chain')
  BY <1>1, <1>3, <1>7
<1>12. ChainInv'
  BY <1>7, <1>9, <1>10, <1>11, ChainBlocksNext
<1>13. Epoch(chain') = blk.epoch
  <2>1. Len(chain') # 0
    BY <1>3, <1>7
  <2> QED BY <1>7, <2>1, EpochOf
<1>14. L1Inv' /\ ReadInv' /\ NoCriticalError'
  BY <1>1 DEF IInv, L1Inv, ReadInv, L1Head, NoCriticalError
<1>15. BufferInv'
  <2>1. l1Blocks # <<>>
    BY <1>1 DEF IInv, BufferInv
  <2> QED BY <1>1, <2>1 DEF IInv, BufferInv
<1>16. WindowInv'
  <2>1. AtEnd' = AtEnd
    BY <1>1 DEF AtEnd
  <2>2. CASE attributes.last
    <3>1. safe' = n /\ n # 0
      BY <1>1, <1>3, <1>7, <2>2
    <3>2. EpochAt(safe)' = blk.epoch
      BY <1>7, <3>1 DEF EpochAt
    <3>3. l1Blocks'[1] # blk.epoch + 1
      BY <1>1, <1>4, <1>6
    <3> QED BY <3>2, <3>3 DEF WindowInv
  <2>3. CASE ~attributes.last
    <3>1. safe' = safe /\ EpochAt(safe)' = EpochAt(safe)
      <4>1. safe' = safe
        BY <1>1, <2>3
      <4>2. safe # 0 => chain'[safe] = chain[safe]
        BY <1>3, <1>7
      <4> QED BY <4>1, <4>2 DEF EpochAt
    <3> QED BY <1>1, <2>1, <3>1 DEF IInv, WindowInv
  <2> QED BY <2>2, <2>3
<1>17. SpanInv'
  <2>1. /\ nextSpan' \in Seq([time : Nat, block : Blocks])
        /\ \A k \in DOMAIN nextSpan' : nextSpan'[k].block.epoch \in Range(l1Blocks')
    BY <1>1 DEF IInv, SpanInv
  <2>2. SpanAfter(nextSpan', Epoch(chain'), Len(chain'))
    BY <1>1, <1>2, <1>7, <1>13
  <2>3. nextSpan' = <<>> => safe' = Len(chain')
    BY <1>1, <1>2
  <2> QED BY <1>1, <2>1, <2>2, <2>3 DEF SpanInv
<1> QED BY <1>12, <1>14, <1>15, <1>16, <1>17 DEF IInv

(* The L1 origin after a reset is not after the epoch of the new safe head. *)
LEMMA ResetOriginFacts ==
    ASSUME ChainInv, L1Inv, NEW n \in 0..Len(chain)
    PROVE  ResetOrigin(n) \in 0..L1Head /\ ResetOrigin(n) <= EpochAt(n) /\ EpochAt(n) \in Nat
<1> DEFINE back == {chain[k].epoch : k \in {j \in 1..n : chain[j].epoch + ChannelTimeout <= chain[n].epoch}}
<1>1. L1Head \in Nat /\ ChannelTimeout \in Nat /\ MaxL1 \in Nat /\ n \in Nat
  BY Parameters DEF L1Inv
<1>2. \A k \in 1..n : chain[k].epoch \in Nat /\ chain[k].epoch <= L1Head
  <2> TAKE k \in 1..n
  <2>1. chain \in Seq(Blocks) /\ k \in 1..Len(chain)
    BY <1>1 DEF ChainInv
  <2>2. chain[k] \in Blocks
    BY <2>1
  <2> QED BY <1>1, <2>1, <2>2 DEF ChainInv, Blocks
<1>3. {0} \cup back \in SUBSET (0..L1Head) /\ {0} \cup back # {}
  BY <1>1, <1>2
<1>4. Max({0} \cup back) \in {0} \cup back
  BY <1>1, <1>3, MaxOf
<1>5. ResetOrigin(n) = Max({0} \cup back)
  BY DEF ResetOrigin
<1>6. EpochAt(n) \in Nat /\ (n # 0 => EpochAt(n) = chain[n].epoch /\ n \in 1..n)
  BY <1>1, <1>2 DEF EpochAt
<1>7. \A x \in back : x <= EpochAt(n)
  <2> SUFFICES ASSUME NEW k \in 1..n, chain[k].epoch + ChannelTimeout <= chain[n].epoch
               PROVE  chain[k].epoch <= EpochAt(n)
    OBVIOUS
  <2>1. n # 0 /\ chain[n].epoch \in Nat /\ chain[k].epoch \in Nat
    BY <1>1, <1>2, <1>6
  <2> QED BY <1>1, <1>6, <2>1
<1> HIDE DEF back
<1> QED BY <1>1, <1>3, <1>4, <1>5, <1>6, <1>7

LEMMA ResetKeeps == ASSUME IInv, NEW n \in 0..safe, Reset(n) PROVE IInv'
<1>1. PICK r : r = ResetOrigin(n)
  OBVIOUS
<1>2. /\ safe' = n /\ chain' = SubSeq(chain, 1, n) /\ attributes' = None /\ l1Origin' = r
      /\ unread' = l1[r] /\ reader' = None /\ bqOrigin' = r /\ l1Blocks' = <<r>>
      /\ batches' = <<>> /\ nextSpan' = <<>> /\ l1' = l1 /\ critical' = critical
  BY <1>1 DEF Reset
<1>3. safe \in 0..Len(chain) /\ Len(chain) \in Nat /\ n \in 0..Len(chain) /\ n \in 0..n
  BY DEF IInv, ChainInv
<1>4. r \in 0..L1Head /\ r <= EpochAt(n) /\ EpochAt(n) \in Nat /\ r \in Nat
  <2>1. r \in 0..L1Head /\ r <= EpochAt(n) /\ EpochAt(n) \in Nat
    BY <1>1, <1>3, ResetOriginFacts DEF IInv
  <2> QED BY <2>1
<1>5. /\ ChainInv' /\ Len(chain') = n /\ EpochAt(n)' = EpochAt(n)
  BY <1>2, <1>3, PrefixKeeps DEF IInv
<1>6. L1Inv' /\ L1Head' = L1Head
  BY <1>2 DEF IInv, L1Inv, L1Head
<1>7. ReadInv'
  <2>1. ChannelsAt(l1[r], r)
    BY <1>4 DEF IInv, L1Inv
  <2> QED BY <1>2, <1>4, <1>6, <2>1 DEF ReadInv
<1>8. BufferInv'
  <2>1. Consecutive(<<r>>, r)
    BY <1>4 DEF Consecutive
  <2>2. Included(<<>>, r)
    BY DEF Included
  <2> QED BY <1>2, <2>1, <2>2 DEF BufferInv
<1>9. SpanInv'
  BY <1>2, <1>5 DEF SpanInv
<1>10. WindowInv'
  <2>1. EpochAt(safe)' = EpochAt(n)
    BY <1>2, <1>5 DEF EpochAt
  <2>2. l1Blocks'[1] # EpochAt(n) + 1
    BY <1>2, <1>4
  <2> QED BY <2>1, <2>2 DEF WindowInv
<1>11. NoCriticalError'
  BY <1>2 DEF IInv, NoCriticalError
<1> QED BY <1>5, <1>6, <1>7, <1>8, <1>9, <1>10, <1>11 DEF IInv

-----------------------------------------------------------------------------
(* The theorems                                                            *)

LEMMA InitEstablishes == ASSUME Init PROVE IInv
<1>1. /\ l1 = [n \in {0} |-> <<>>] /\ l1Origin = 0 /\ unread = <<>> /\ reader = None
      /\ bqOrigin = 0 /\ l1Blocks = <<0>> /\ batches = <<>> /\ nextSpan = <<>>
      /\ attributes = None /\ chain = <<>> /\ safe = 0 /\ critical = FALSE
  BY DEF Init
<1>2. L1Head = 0 /\ DOMAIN l1 = 0..0 /\ \A n \in DOMAIN l1 : l1[n] = <<>>
  <2>1. Cardinality({0}) = 1
    BY FS_Singleton
  <2> QED BY <1>1, <2>1 DEF L1Head
<1>3. L1Inv
  BY <1>2, Parameters DEF L1Inv, ChannelsAt
<1>4. ReadInv
  BY <1>1, <1>2 DEF ReadInv, ChannelsAt
<1>5. ChainInv
  BY <1>1 DEF ChainInv
<1>6. BufferInv
  BY <1>1 DEF BufferInv, Consecutive, Included
<1>7. SpanInv /\ NoCriticalError
  BY <1>1 DEF SpanInv, NoCriticalError
<1>8. WindowInv
  BY <1>1 DEF WindowInv, EpochAt
<1> QED BY <1>3, <1>4, <1>5, <1>6, <1>7, <1>8 DEF IInv

LEMMA StepKeeps == ASSUME IInv, [Next]_vars PROVE IInv'
<1>1. CASE \E cs \in BoundedSeq(Channels, MaxChannels) : NewL1Block(cs)
  BY <1>1, NewL1BlockKeeps
<1>2. CASE ReadFails
  BY <1>2, ReadFailsKeeps
<1>3. CASE SkipBehind
  BY <1>3, SkipBehindKeeps
<1>4. CASE EpochMismatch
  BY <1>4, EpochMismatchKeeps
<1>5. CASE AcceptBatch
  BY <1>5, AcceptBatchKeeps
<1>6. CASE Undecided
  BY <1>6, UndecidedKeeps
<1>7. CASE ForceEmpty
  BY <1>7, ForceEmptyKeeps
<1>8. CASE NoBatchFits
  BY <1>8, NoBatchFitsKeeps
<1>9. CASE PopNextBatch
  BY <1>9, PopNextBatchKeeps
<1>10. CASE BuildFails
  BY <1>10, ResettingKeeps DEF BuildFails
<1>11. CASE InsertBlock
  BY <1>11, InsertBlockKeeps
<1>12. CASE RejectBlock
  BY <1>12, RejectBlockKeeps
<1>13. CASE AskReset
  BY <1>13, ResettingKeeps DEF AskReset
<1>14. CASE \E n \in 0..safe : Reset(n)
  BY <1>14, ResetKeeps
<1>15. CASE UNCHANGED vars
  BY <1>15, ResettingKeeps DEF vars
<1> QED
  BY <1>1, <1>2, <1>3, <1>4, <1>5, <1>6, <1>7, <1>8, <1>9, <1>10, <1>11, <1>12, <1>13, <1>14, <1>15
  DEF Next, Step

LEMMA Inductive == Spec => []IInv
  BY InitEstablishes, StepKeeps, PTL DEF Spec

(* In every execution the safe chain skips no epoch, is not ahead of L1,   *)
(* stays within the drift and adopts a new origin when it must (the checks *)
(* of batches.go, the empty blocks of deriveNextBatch and the attributes   *)
(* builder together).                                                      *)
THEOREM SafeChainKeepsRules == Spec => []SafeChainWellFormed
<1>1. ASSUME IInv PROVE SafeChainWellFormed
  <2> SUFFICES ASSUME NEW n \in 1..safe
               PROVE  LET blk == chain[n]
                          prev == IF n = 1 THEN 0 ELSE chain[n - 1].epoch
                          late == Time(n) > L1Time[blk.epoch] + MaxSequencerDrift
                      IN  /\ blk.epoch \in {prev, prev + 1}
                          /\ Time(n) >= L1Time[blk.epoch]
                          /\ blk.txs \in {"none", "ok"}
                          /\ late => blk.txs = "none"
                          /\ late /\ blk.epoch = prev => Time(n) < L1Time[blk.epoch + 1]
    BY DEF SafeChainWellFormed
  <2>1. chain \in Seq(Blocks) /\ safe \in 0..Len(chain) /\ \A m \in 1..Len(chain) : BlockKept(chain, m, L1Head)
    BY <1>1, ChainBlocks DEF IInv
  <2>2. n \in 1..Len(chain)
    BY <2>1
  <2>3. chain[n].txs \in Txs
    <3>1. chain[n] \in Blocks
      BY <2>1, <2>2
    <3> QED BY <3>1 DEF Blocks
  <2>4. BlockKept(chain, n, L1Head)
    BY <2>1, <2>2
  <2> QED BY <2>3, <2>4 DEF BlockKept, InTime, Txs
<1> QED BY <1>1, Inductive, PTL

(* Splitting an accepted batch into singular batches never fails for want  *)
(* of an L1 origin: the critical error of BatchQueue.NextBatch cannot      *)
(* happen.                                                                 *)
THEOREM SpansCanBeSplit == Spec => []NoCriticalError
<1>1. IInv => NoCriticalError
  BY DEF IInv
<1> QED BY <1>1, Inductive, PTL

(* Why a batch is undecided, when the L1 blocks end with o.                *)
LEMMA UndecidedBatch ==
    ASSUME NEW ls, NEW o \in Nat, Consecutive(ls, o), ls # <<>>, NEW c,
           NEW item \in Items, CheckBatch(ls, c, item) = "undecided",
           item.incl <= o, Causal(item.batch, item.incl)
    PROVE  \/ Len(ls) < 2
           \/ EndEpoch(item.batch) < ls[1]
           \/ EndEpoch(item.batch) > o
<1>1. PICK b \in Batches : b = item.batch
  BY DEF Items
<1>2. PICK incl \in Nat : incl = item.incl
  BY DEF Items
<1>3. PICK N \in Nat : N = Len(ls) /\ DOMAIN ls = 1..N
  BY DEF Consecutive
<1>4. N # 0
  BY <1>3 DEF Consecutive
<1>5. \A k, ot, time, txs, adv :
         DriftVerdict(ls, k, ot, time, txs, adv) = "undecided" => k + 1 > Len(ls)
  BY DEF DriftVerdict
<1>6. SUFFICES ASSUME ~(N < 2) PROVE EndEpoch(b) < ls[1] \/ EndEpoch(b) > o
  BY <1>1, <1>3
<1>7. CASE b.type = "singular"
  <2>1. CheckSingularBatch(ls, c, b, incl) = "undecided"
    BY <1>1, <1>2, <1>7 DEF CheckBatch
  <2>2. Len(ls) < 2 \/ 1 + 1 > Len(ls)
    BY <1>5, <2>1 DEF CheckSingularBatch
  <2> QED BY <1>3, <1>6, <2>2
<1>8. CASE b.type # "singular"
  <2>1. CheckSpanBatch(ls, c, b, incl) = "undecided"
    BY <1>1, <1>2, <1>8 DEF CheckBatch
  <2>2. PICK advanced : \/ EndEpoch(b) \notin Range(ls)
                        \/ /\ EndEpoch(b) \in Range(ls) /\ b.originOk
                           /\ NewBlocksVerdict(ls, c, b, advanced) = "undecided"
    <3>1. ~(Len(ls) < 2)
      BY <1>3, <1>6
    <3> QED BY <2>1, <3>1 DEF CheckSpanBatch
  <2>3. EndEpoch(b) \in Nat /\ EndEpoch(b) = b.blocks[Len(b.blocks)].epoch
        /\ Len(b.blocks) \in Nat \ {0}
        /\ \A i \in 1..Len(b.blocks) : b.blocks[i].epoch \in Nat
    <3>1. Len(b.blocks) \in Nat \ {0} /\ EndEpoch(b) = b.blocks[Len(b.blocks)].epoch
          /\ \A i \in 1..Len(b.blocks) : b.blocks[i].epoch \in Nat
      BY BatchFacts, Parameters
    <3>2. Len(b.blocks) \in 1..Len(b.blocks)
      BY <3>1
    <3> QED BY <3>1, <3>2
  <2>4. CASE EndEpoch(b) \notin Range(ls)
    <3>1. 1 \in 1..N /\ N \in 1..N
      BY <1>4
    <3>2. ls[1] \in Nat /\ ls[N] = o
      <4>1. ls[N] = o - N + N /\ ls[1] \in Nat
        BY <1>3, <3>1 DEF Consecutive
      <4> QED BY <4>1
    <3>3. ~(ls[1] <= EndEpoch(b) /\ EndEpoch(b) <= ls[N])
      BY <1>3, <2>3, <2>4, <3>1, Between, InRange
    <3> QED BY <2>3, <3>2, <3>3
  <2>5. CASE EndEpoch(b) \in Range(ls) /\ b.originOk /\ NewBlocksVerdict(ls, c, b, advanced) = "undecided"
    <3>1. EndEpoch(b) < o
      <4>1. EndEpoch(b) < incl /\ incl <= o
        BY <1>1, <1>2, <2>5 DEF Causal
      <4> QED BY <2>3, <4>1
    <3> DEFINE new == {k \in DOMAIN b.blocks : BlockTimestamp(b, k) > Time(Len(c))}
               refused == {k \in new : CheckSpanBlock(ls, b, k, advanced) # "accept"}
    <3>2. refused # {} /\ CheckSpanBlock(ls, b, Min(refused), advanced) = "undecided"
      BY <2>5 DEF NewBlocksVerdict
    <3>3. DOMAIN b.blocks = 1..Len(b.blocks)
      BY BatchFacts
    <3>4. refused \in SUBSET Nat
      BY <2>3, <3>3
    <3>5. PICK i \in 1..Len(b.blocks) : CheckSpanBlock(ls, b, i, advanced) = "undecided"
      <4>1. Min(refused) \in refused
        BY <3>2, <3>4, MinOf
      <4>2. Min(refused) \in 1..Len(b.blocks)
        BY <3>3, <4>1
      <4> QED BY <3>2, <4>2
    <3> HIDE DEF new, refused
    <3>6. PICK k : /\ k + 1 > Len(ls)
                   /\ \/ k = 1
                      \/ k \in DOMAIN ls /\ ls[k] = b.blocks[i].epoch
      <4> DEFINE blk == b.blocks[i]
                 found == blk.epoch \in Range(ls)
                 k == IF found THEN CHOOSE j \in DOMAIN ls : ls[j] = blk.epoch ELSE 1
      <4>1. k + 1 > Len(ls)
        BY <1>5, <3>5 DEF CheckSpanBlock
      <4>2. k = 1 \/ (k \in DOMAIN ls /\ ls[k] = blk.epoch)
        BY DEF Range
      <4> QED BY <4>1, <4>2
    <3>7. k # 1
      BY <1>3, <1>6, <3>6
    <3>8. k = N
      BY <1>3, <3>6, <3>7
    <3>9. b.blocks[i].epoch = o
      <4>1. ls[N] = o - N + N
        BY <1>3, <3>6, <3>7, <3>8 DEF Consecutive
      <4> QED BY <3>6, <3>7, <3>8, <4>1
    <3>10. b.blocks[i].epoch <= EndEpoch(b)
      <4>1. Len(b.blocks) \in 1..Len(b.blocks) /\ i <= Len(b.blocks)
        BY <2>3
      <4> QED BY <2>3, <4>1, EpochsGrow
    <3> QED BY <2>3, <3>1, <3>9, <3>10
  <2> QED BY <2>2, <2>4, <2>5
<1> QED BY <1>7, <1>8

(* The queue waits for L1 only while the safe head is within a sequencing  *)
(* window of it, or for the L1 origins of a span batch (the NotEnoughData  *)
(* and EOF results of deriveNextBatch).                                    *)
THEOREM WaitsWithinWindow == Spec => []IdleWithinWindow
<1>1. ASSUME IInv, Idle
      PROVE  \/ Epoch(chain) + SeqWindowSize + 1 >= L1Head
             \/ /\ Decisive # {}
                /\ \/ EndEpoch(Buffered[Stop].batch) < Head(Origins)
                   \/ EndEpoch(Buffered[Stop].batch) > L1Head
  <2>1. /\ AtEnd /\ l1Origin = L1Head /\ ~OriginBehind /\ EpochMatches /\ ~Accepted
        /\ Decisive = {} => ~WindowOver
    BY <1>1 DEF Idle
  <2>2. Consecutive(Origins, l1Origin) /\ Origins # <<>>
    BY <1>1, <2>1, OriginsFacts DEF IInv
  <2>3. /\ Head(Origins) = Origins[1] /\ Origins[1] \in Nat
        /\ Epoch(chain) \in Nat /\ SeqWindowSize \in Nat \ {0} /\ L1Head \in Nat
    BY <1>1, <2>2, EpochAtLast, Parameters DEF IInv, L1Inv, Consecutive
  <2>4. Origins[1] <= Epoch(chain) + 1
    BY <2>1, <2>3 DEF EpochMatches
  <2>5. CASE Decisive = {}
    <3>1. ~(Origins[1] + SeqWindowSize = L1Head) /\ ~(Origins[1] + SeqWindowSize < L1Head)
      BY <2>1, <2>3, <2>5 DEF WindowOver
    <3> QED BY <2>3, <2>4, <3>1
  <2>6. CASE Decisive # {}
    <3>1. Buffered = batches /\ Included(Buffered, l1Origin) /\ Buffered \in Seq(Items)
      BY <1>1, <2>1 DEF Buffered, IInv, BufferInv, Included
    <3>2. Stop \in DOMAIN Buffered /\ Verdict(Stop) = "undecided"
      BY <2>1, <2>6, <3>1, StopFacts DEF Accepted
    <3>3. PICK item \in Items : item = Buffered[Stop]
      BY <3>1, <3>2, Element
    <3>4. /\ CheckBatch(Origins, chain, item) = "undecided"
          /\ item.incl <= l1Origin /\ Causal(item.batch, item.incl) /\ l1Origin \in Nat
      BY <2>1, <2>3, <3>1, <3>2, <3>3 DEF Included, Verdict
    <3>5. \/ Len(Origins) < 2
          \/ EndEpoch(item.batch) < Origins[1]
          \/ EndEpoch(item.batch) > l1Origin
      BY <2>2, <3>4, UndecidedBatch
    <3>6. CASE Len(Origins) < 2
      <4>1. Len(Origins) = 1 /\ 1 \in DOMAIN Origins
        <5>1. Origins \in Seq(Nat) /\ Origins # <<>>
          BY <2>2 DEF Consecutive
        <5>2. Len(Origins) \in Nat /\ Len(Origins) # 0 /\ DOMAIN Origins = 1..Len(Origins)
          BY <5>1
        <5> QED BY <3>6, <5>2
      <4>2. Origins[1] = l1Origin - 1 + 1
        BY <2>2, <4>1 DEF Consecutive
      <4> QED BY <2>1, <2>3, <2>4, <4>2
    <3> QED BY <2>1, <2>3, <2>6, <3>3, <3>5, <3>6
  <2> QED BY <2>5, <2>6
<1>2. IInv => IdleWithinWindow
  BY <1>1 DEF IdleWithinWindow
<1> QED BY <1>2, Inductive, PTL

=============================================================================
