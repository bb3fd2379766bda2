--------------------------- MODULE SequencerProofs ---------------------------
(***************************************************************************)
(* Proofs about Sequencer, for any block time, drift, confirmation depth,  *)
(* lag, and any times of the L1 blocks on either fork.                     *)
(***************************************************************************)
EXTENDS Sequencer, SequenceTheorems, TLAPS

-----------------------------------------------------------------------------
(* The inductive invariant                                                 *)

Origins == [num : 0..MaxL1, fork : 0..1]

Blocks == [origin : Origins, empty : BOOLEAN, seen : 0..1]

Jobs == [onto : Seq(Blocks), origin : [num : (-1)..MaxL1, fork : 0..1], empty : BOOLEAN,
         seen : 0..1, safe : BOOLEAN]

TypeOK ==
    /\ now \in 0..MaxTime /\ l1Head \in 0..MaxL1 /\ l1Fork \in 0..1 /\ l1State \in Int
    /\ l2 \in Seq(Blocks) /\ safe \in 0..Len(l2) /\ building \in Jobs
    /\ nextAction \in Int /\ stopped \in BOOLEAN /\ ready \in BOOLEAN

(* The origin of the i-th block of the chain c, genesis being block 0. *)
OriginAt(c, i) == IF i = 0 THEN At(0, 0) ELSE c[i].origin

(* A block b of time t whose parent has the origin p is derivable, and its *)
(* origin is no higher than L1 at the height h.                            *)
Sound(p, b, t, h) ==
    /\ b.origin.num <= h
    /\ Follows(p, b.origin) /\ L1Time(b.origin) <= t
    /\ t > L1Time(b.origin) + MaxSequencerDrift =>
          b.empty /\ (b.origin = p => L1Time(At(p.num + 1, b.seen)) > t)

SoundChain(c, h) == \A i \in 1..Len(c) : Sound(OriginAt(c, i - 1), c[i], i * BlockTime, h)

ChainInv == SoundChain(l2, l1Head)

(* The block that sealing the job j makes. *)
BlockOf(j) == [origin |-> j.origin, empty |-> j.empty, seen |-> j.seen]

(* The sequencer's open job is on the head, whatever happened since it was *)
(* begun; it was begun when its parent's time had come.                    *)
JobInv ==
    Building /\ ~building.safe =>
        /\ building.onto = l2 /\ ~stopped /\ Time(l2) <= now
        /\ BlockOf(building) \in Blocks
        /\ Sound(Origin(l2), BlockOf(building), NextTime(l2), l1Head)

(* The timer runs only if the sequencer does, and does not fire for a new  *)
(* block before its parent's time.                                         *)
TimerInv ==
    /\ timer \in Int
    /\ timer # Never => ~stopped /\ (Building \/ Time(l2) <= timer)

Core == TypeOK /\ ChainInv /\ JobInv /\ NotAheadOfClock

IInv == Core /\ TimerInv

-----------------------------------------------------------------------------
(* Sequences and times                                                     *)

LEMMA Times ==
    /\ \A n \in Nat : n * BlockTime \in Nat /\ (n + 1) * BlockTime = n * BlockTime + BlockTime
    /\ \A m, n \in Nat : m <= n => m * BlockTime <= n * BlockTime
    /\ BlockTime \in Nat \ {0}
<1>1. BlockTime \in Nat \ {0}
  BY SequencerAssumption
<1>2. ASSUME NEW n \in Nat
      PROVE  n * BlockTime \in Nat /\ (n + 1) * BlockTime = n * BlockTime + BlockTime
  BY <1>1, SMT
<1>3. ASSUME NEW m \in Nat, NEW n \in Nat, m <= n PROVE m * BlockTime <= n * BlockTime
  BY <1>1, <1>3, SMT
<1> QED BY <1>1, <1>2, <1>3

LEMMA PrefixFacts ==
    ASSUME NEW S, NEW s \in Seq(S), NEW n \in 0..Len(s)
    PROVE  /\ SubSeq(s, 1, n) \in Seq(S)
           /\ Len(SubSeq(s, 1, n)) = n
           /\ \A i \in 1..n : SubSeq(s, 1, n)[i] = s[i]
<1>1. Len(s) \in Nat
  BY LenProperties
<1>2. \A i \in 1..n : s[i] \in S
  BY <1>1, ElementOfSeq
<1>3. /\ SubSeq(s, 1, n) \in Seq(S)
      /\ Len(SubSeq(s, 1, n)) = IF 1 <= n THEN n - 1 + 1 ELSE 0
      /\ \A i \in 1..(n - 1 + 1) : SubSeq(s, 1, n)[i] = s[1 + i - 1]
  BY <1>1, <1>2, SubSeqProperties
<1> QED BY <1>1, <1>3

LEMMA OriginOfPrefix ==
    ASSUME NEW c \in Seq(Blocks), NEW n \in 0..Len(c)
    PROVE  /\ Origin(SubSeq(c, 1, n)) = OriginAt(c, n)
           /\ Origin(c) = OriginAt(c, Len(c))
<1>1. Len(c) \in Nat
  BY LenProperties
<1>2. /\ SubSeq(c, 1, n) \in Seq(Blocks)
      /\ Len(SubSeq(c, 1, n)) = n
      /\ \A i \in 1..n : SubSeq(c, 1, n)[i] = c[i]
  BY PrefixFacts
<1>3. \A d \in Seq(Blocks) : d = <<>> <=> Len(d) = 0
  BY EmptySeq
<1>4. Origin(c) = OriginAt(c, Len(c))
  <2>1. CASE c = <<>>
    BY <1>3, <2>1 DEF Origin, OriginAt
  <2>2. CASE c # <<>>
    <3>1. Len(c) # 0
      BY <1>3, <2>2
    <3> QED BY <2>2, <3>1 DEF Origin, OriginAt, Last
  <2> QED BY <2>1, <2>2
<1>5. CASE n = 0
  BY <1>2, <1>3, <1>4, <1>5 DEF Origin, OriginAt
<1>6. CASE n # 0
  <2>1. n \in 1..n
    BY <1>1, <1>6
  <2> QED BY <1>2, <1>3, <1>4, <1>6, <2>1 DEF Origin, OriginAt, Last
<1> QED BY <1>4, <1>5, <1>6

(* What is known of the origin of a sound chain, genesis included. *)
LEMMA OriginFacts ==
    ASSUME NEW c \in Seq(Blocks), NEW h \in 0..MaxL1, SoundChain(c, h), NEW n \in 0..Len(c)
    PROVE  /\ OriginAt(c, n) \in Origins
           /\ OriginAt(c, n).num <= h
           /\ L1Time(OriginAt(c, n)) \in Nat /\ L1Time(OriginAt(c, n)) <= n * BlockTime
<1>1. Len(c) \in Nat /\ n \in Nat /\ MaxL1 \in Nat
  BY LenProperties, SequencerAssumption
<1>2. \A b \in Origins : L1Time(b) \in Nat
  BY SequencerAssumption DEF Origins, L1Time
<1>3. CASE n = 0
  <2>1. At(0, 0) = [num |-> 0, fork |-> 0]
    BY DEF At
  <2>2. At(0, 0) \in Origins /\ At(0, 0).num = 0
    BY <1>1, <2>1 DEF Origins
  <2>3. L1Time(At(0, 0)) = 0
    <3>1. L1Times[0][0] = 0
      BY SequencerAssumption
    <3> QED BY <2>1, <3>1 DEF L1Time
  <2>4. OriginAt(c, n) = At(0, 0) /\ n * BlockTime \in Nat
    BY <1>1, <1>3, Times DEF OriginAt
  <2> QED BY <1>1, <2>2, <2>3, <2>4
<1>4. CASE n # 0
  <2>1. n \in 1..Len(c)
    BY <1>1, <1>4
  <2>2. c[n] \in Blocks
    BY <2>1, ElementOfSeq
  <2>3. c[n].origin \in Origins
    BY <2>2 DEF Blocks
  <2>4. c[n].origin.num <= h /\ L1Time(c[n].origin) <= n * BlockTime
    BY <2>1 DEF SoundChain, Sound
  <2> QED BY <1>2, <1>4, <2>3, <2>4 DEF OriginAt
<1> QED BY <1>3, <1>4

LEMMA SoundPrefix ==
    ASSUME NEW c \in Seq(Blocks), NEW h, SoundChain(c, h), NEW n \in 0..Len(c)
    PROVE  SoundChain(SubSeq(c, 1, n), h)
<1>1. Len(c) \in Nat
  BY LenProperties
<1>2. /\ Len(SubSeq(c, 1, n)) = n
      /\ \A i \in 1..n : SubSeq(c, 1, n)[i] = c[i]
  BY PrefixFacts
<1>3. ASSUME NEW i \in 1..n
      PROVE  Sound(OriginAt(SubSeq(c, 1, n), i - 1), SubSeq(c, 1, n)[i], i * BlockTime, h)
  <2>1. i \in 1..Len(c)
    BY <1>1
  <2>2. OriginAt(SubSeq(c, 1, n), i - 1) = OriginAt(c, i - 1)
    <3>1. i - 1 = 0 \/ i - 1 \in 1..n
      BY <1>1
    <3> QED BY <1>2, <3>1 DEF OriginAt
  <2> QED BY <1>2, <2>1, <2>2 DEF SoundChain
<1> QED BY <1>2, <1>3 DEF SoundChain

LEMMA SoundAppend ==
    ASSUME NEW c \in Seq(Blocks), NEW h, SoundChain(c, h), NEW b \in Blocks,
           Sound(Origin(c), b, NextTime(c), h)
    PROVE  /\ Append(c, b) \in Seq(Blocks) /\ Len(Append(c, b)) = Len(c) + 1
           /\ SoundChain(Append(c, b), h)
<1> DEFINE d == Append(c, b)
<1>1. Len(c) \in Nat
  BY LenProperties
<1>2. /\ d \in Seq(Blocks) /\ Len(d) = Len(c) + 1
      /\ \A i \in 1..Len(c) : d[i] = c[i]
      /\ d[Len(c) + 1] = b
  BY <1>1, AppendProperties
<1>3. Origin(c) = OriginAt(c, Len(c))
  BY <1>1, OriginOfPrefix
<1>4. \A i \in 0..Len(c) : OriginAt(d, i) = OriginAt(c, i)
  BY <1>1, <1>2 DEF OriginAt
<1> HIDE DEF d
<1>5. ASSUME NEW i \in 1..(Len(c) + 1)
      PROVE  Sound(OriginAt(d, i - 1), d[i], i * BlockTime, h)
  <2>1. OriginAt(d, i - 1) = OriginAt(c, i - 1)
    BY <1>1, <1>4
  <2>2. CASE i <= Len(c)
    <3>1. i \in 1..Len(c)
      BY <1>1, <2>2
    <3> QED BY <1>2, <2>1, <3>1 DEF SoundChain
  <2>3. CASE i = Len(c) + 1
    <3>1. i - 1 = Len(c)
      BY <1>1, <2>3
    <3>2. i * BlockTime = NextTime(c)
      BY <1>1, <2>3, Times DEF NextTime, Time
    <3> QED BY <1>2, <1>3, <2>1, <2>3, <3>1, <3>2
  <2> QED BY <1>1, <2>2, <2>3
<1> QED BY <1>2, <1>5 DEF SoundChain, d

-----------------------------------------------------------------------------
(* The timer: whatever the event was, the loop plans no new block before   *)
(* the time of its parent.                                                 *)

LEMMA PlannedFacts ==
    ASSUME Core, Core', now' = now
    PROVE  Planned \in Int /\ (building' = NoJob => Time(l2') <= Planned)
<1> DEFINE h == l2'  b == building'  na == nextAction'
<1>1. /\ now \in Int /\ Len(h) \in Nat /\ na \in Int /\ b.safe \in BOOLEAN
      /\ SealingDuration \in Nat /\ BlockTime \in Nat
  BY SequencerAssumption, LenProperties DEF Core, TypeOK, Jobs
<1>2. Time(h) \in Int /\ NextTime(h) = Time(h) + BlockTime
  BY <1>1, Times DEF Time, NextTime
<1>3. b = NoJob => ~b.safe
  BY DEF NoJob
<1>4. Planned = now + Delay(h, b, na)
  BY DEF Planned
<1> HIDE DEF h, b, na
<1>5. Delay(h, b, na) \in Int
  <2>1. CASE b.safe
    BY <1>1, <2>1 DEF Delay
  <2>2. CASE ~b.safe /\ b # NoJob /\ b.onto = h /\ na > now
    BY <1>1, <2>2 DEF Delay
  <2>3. CASE ~b.safe /\ b # NoJob /\ b.onto = h /\ na <= now
    BY <1>1, <1>2, <2>3 DEF Delay
  <2>4. CASE ~b.safe /\ ~(b # NoJob /\ b.onto = h)
    BY <1>1, <1>2, <2>4 DEF Delay
  <2> QED BY <1>1, <2>1, <2>2, <2>3, <2>4
<1>6. ASSUME b = NoJob PROVE Time(h) <= now + Delay(h, b, na)
  <2>1. Delay(h, b, na) = IF NextTime(h) - now > BlockTime THEN NextTime(h) - now - BlockTime ELSE 0
    BY <1>3, <1>6 DEF Delay
  <2> QED BY <1>1, <1>2, <2>1
<1> QED BY <1>1, <1>4, <1>5, <1>6 DEF h, b, na

LEMMA ArmedTimer ==
    ASSUME Core, TimerInv, Core', now' = now,
           timer' = Armed(timer) \/ timer' = Armed(Planned)
    PROVE  TimerInv'
<1>1. Planned \in Int /\ (building' = NoJob => Time(l2') <= Planned)
  BY PlannedFacts
<1>2. timer \in Int /\ Never \in Int
  BY DEF TimerInv, Never
<1>3. \/ timer' = Never
      \/ ~stopped' /\ (timer' = Planned \/ (building' # NoJob /\ timer' = timer))
  BY DEF Armed
<1>4. timer' \in Int
  BY <1>1, <1>2, <1>3
<1>5. timer' # Never => ~stopped' /\ (building' # NoJob \/ Time(l2') <= timer')
  BY <1>1, <1>3
<1>6. (Time(l2))' = Time(l2')
  BY DEF Time
<1> QED BY <1>4, <1>5, <1>6 DEF TimerInv, Building, Never, NoJob

-----------------------------------------------------------------------------
(* The steps                                                               *)

LEMMA InitCore == Init => IInv
<1> SUFFICES ASSUME Init PROVE IInv
  OBVIOUS
<1>1. <<>> \in Seq(Blocks) /\ Len(<<>>) = 0
  BY EmptySeq
<1>2. /\ MaxTime \in Nat /\ MaxL1 \in Nat /\ BlockTime \in Nat
  BY SequencerAssumption
<1>3. NoJob \in Jobs
  BY <1>1, <1>2 DEF NoJob, Jobs
<1>4. TypeOK
  <2>1. now \in 0..MaxTime /\ l1Head \in 0..MaxL1 /\ l1Fork \in 0..1 /\ l1State \in Int
    BY <1>2 DEF Init, Never
  <2>2. safe \in 0..Len(l2) /\ nextAction \in Int
    BY <1>1 DEF Init
  <2>3. l2 \in Seq(Blocks) /\ building \in Jobs
    BY <1>1, <1>3 DEF Init
  <2>4. stopped \in BOOLEAN /\ ready \in BOOLEAN
    BY DEF Init
  <2> QED BY <2>1, <2>2, <2>3, <2>4 DEF TypeOK
<1>5. ChainInv
  BY <1>1 DEF Init, ChainInv, SoundChain
<1>6. JobInv
  BY DEF Init, JobInv, Building
<1>7. NotAheadOfClock
  BY <1>1, <1>2 DEF Init, NotAheadOfClock, Time
<1>8. TimerInv
  BY DEF Init, TimerInv, Never
<1> QED BY <1>4, <1>5, <1>6, <1>7, <1>8 DEF IInv, Core

(* Steps that leave the chain, the job and L1's height alone. *)
LEMMA Unmoved ==
    ASSUME Core, TypeOK', UNCHANGED <<l1Head, l2, building>>, now <= now', stopped' => stopped
    PROVE  Core'
<1>1. ChainInv'
  BY DEF Core, ChainInv, SoundChain, Sound, OriginAt, At, L1Time, Follows
<1>2. now \in Int /\ now' \in Int /\ Time(l2) \in Int /\ BlockTime \in Int
  <2>1. Len(l2) \in Nat
    BY LenProperties DEF Core, TypeOK
  <2> QED BY <2>1, Times, SequencerAssumption DEF Core, TypeOK, Time
<1>3. (Time(l2))' = Time(l2)
  BY DEF Time
<1>4. NotAheadOfClock'
  BY <1>2, <1>3 DEF Core, NotAheadOfClock
<1>5. JobInv'
  BY <1>2, <1>3 DEF Core, JobInv, Building, NextTime, NoJob, Origin, At
<1> QED BY <1>1, <1>4, <1>5 DEF Core

LEMMA QuietSteps ==
    ASSUME IInv,
           \/ AvoidSafeJob \/ StartFails \/ HandleNewL1HeadBlock \/ Consolidate
           \/ DerivationAsksReset \/ StartSequencer
    PROVE  Core' /\ now' = now /\ (timer' = Armed(timer) \/ timer' = Armed(Planned))
<1>1. BlockTime \in Nat /\ MaxL1 \in Nat
  BY SequencerAssumption
<1>2. /\ UNCHANGED <<now, l1Head, l2, building>>
      /\ stopped' => stopped
      /\ timer' = Armed(timer) \/ timer' = Armed(Planned)
  BY DEF IInv, Core, TypeOK, AvoidSafeJob, StartFails, HandleNewL1HeadBlock, Consolidate,
         DerivationAsksReset, StartSequencer, Loop
<1>3. TypeOK'
  <2>1. /\ l1Fork' = l1Fork
        /\ l1State' = l1State \/ l1State' = l1Head
        /\ nextAction' = nextAction \/ nextAction' = now + BlockTime \/ nextAction' = now + 1
        /\ safe' = safe \/ (safe < Len(l2) /\ safe' = safe + 1)
    BY DEF AvoidSafeJob, StartFails, HandleNewL1HeadBlock, Consolidate, DerivationAsksReset,
           StartSequencer
  <2>2. /\ stopped' = stopped \/ stopped' = FALSE
        /\ ready' = ready \/ ready' = FALSE
    BY Zenon DEF AvoidSafeJob, StartFails, HandleNewL1HeadBlock, Consolidate,
           DerivationAsksReset, StartSequencer
  <2>3. stopped' \in BOOLEAN /\ ready' \in BOOLEAN
    BY <2>2, Zenon DEF IInv, Core, TypeOK
  <2>4. Len(l2) \in Nat
    BY LenProperties DEF IInv, Core, TypeOK
  <2> QED BY <1>1, <1>2, <2>1, <2>3, <2>4 DEF IInv, Core, TypeOK
<1>4. now <= now'
  BY <1>2 DEF IInv, Core, TypeOK
<1> QED BY <1>2, <1>3, <1>4, Unmoved DEF IInv

LEMMA StopsAndJobs ==
    ASSUME IInv, StopSequencer \/ SealFails
    PROVE  Core' /\ now' = now /\ (timer' = Armed(timer) \/ timer' = Armed(Planned))
<1>1. BlockTime \in Nat /\ MaxL1 \in Nat
  BY SequencerAssumption
<1>2. /\ UNCHANGED <<now, l1Head, l1Fork, l1State, l2, safe>>
      /\ building' = NoJob
      /\ timer' = Armed(timer) \/ timer' = Armed(Planned)
      /\ nextAction' = nextAction \/ nextAction' = now + BlockTime \/ nextAction' = now + 1
  BY DEF StopSequencer, SealFails, AskReset, Loop
<1>3. TypeOK'
  <2>1. /\ stopped' = stopped \/ stopped' = TRUE
        /\ ready' = ready \/ ready' = FALSE
    BY Zenon DEF StopSequencer, SealFails, AskReset
  <2>2. stopped' \in BOOLEAN /\ ready' \in BOOLEAN
    BY <2>1, Zenon DEF IInv, Core, TypeOK
  <2>3. NoJob \in Jobs
    BY <1>1, EmptySeq DEF NoJob, Jobs
  <2> QED BY <1>1, <1>2, <2>2, <2>3 DEF IInv, Core, TypeOK
<1>4. ChainInv'
  BY <1>2 DEF IInv, Core, ChainInv
<1>5. JobInv'
  BY <1>2 DEF JobInv, Building, NoJob
<1>6. NotAheadOfClock'
  BY <1>2 DEF IInv, Core, NotAheadOfClock, Time
<1> QED BY <1>2, <1>3, <1>4, <1>5, <1>6 DEF Core

(* What FindL1Origin returns makes a derivable block, if it follows the    *)
(* parent's origin and is not later than the block.                        *)
LEMMA FoundIsSound ==
    ASSUME Core, NEW o \in FindL1Origin(l2), Follows(Origin(l2), o)
    PROVE  /\ [origin |-> o, empty |-> NoTxPool(l2, o), seen |-> l1Fork] \in Blocks
           /\ Sound(Origin(l2), [origin |-> o, empty |-> NoTxPool(l2, o), seen |-> l1Fork],
                    NextTime(l2), l1Head)
<1> DEFINE cur  == Origin(l2)
           next == At(cur.num + 1, l1Fork)
           t    == NextTime(l2)
           past == t > L1Time(cur) + MaxSequencerDrift
<1>1. /\ Len(l2) \in Nat /\ MaxL1 \in Nat /\ MaxSequencerDrift \in Nat /\ ForkPoint \in Nat
      /\ l1Head \in 0..MaxL1 /\ l1Fork \in 0..1
  BY SequencerAssumption, LenProperties DEF Core, TypeOK
<1>2. cur = OriginAt(l2, Len(l2))
  BY <1>1, OriginOfPrefix DEF Core, TypeOK
<1>3. /\ cur \in Origins /\ cur.num <= l1Head
      /\ L1Time(cur) \in Nat /\ L1Time(cur) <= Time(l2)
  <2>1. Len(l2) \in 0..Len(l2)
    BY <1>1
  <2> QED BY <1>1, <1>2, <2>1, OriginFacts DEF Core, TypeOK, ChainInv, Time
<1>4. t \in Nat /\ Time(l2) \in Nat /\ Time(l2) <= t
  BY <1>1, Times DEF NextTime, Time
<1>5. next.num = cur.num + 1 /\ next.fork \in 0..1
  BY <1>1 DEF At
<1>6. \/ o = cur /\ ~past
      \/ o = next /\ Visible(next.num) /\ t >= L1Time(next)
      \/ o = cur /\ L1Time(next) > t
  <2>1. ASSUME Visible(next.num) PROVE L1Time(next) \in Nat
    <3>1. next.num \in 0..MaxL1
      BY <1>1, <1>3, <1>5, <2>1 DEF Visible, Origins
    <3> QED BY <1>5, <3>1, SequencerAssumption DEF L1Time
  <2> QED BY <1>4, <2>1 DEF FindL1Origin
<1>7. o \in Origins /\ o.num <= l1Head /\ L1Time(o) \in Nat /\ L1Time(o) <= t
  <2>1. CASE o = cur
    BY <1>1, <1>3, <1>4, <2>1
  <2>2. CASE o = next /\ Visible(next.num) /\ t >= L1Time(next)
    <3>1. next.num \in 0..MaxL1 /\ next.num <= l1Head
      BY <1>1, <1>3, <1>5, <2>2 DEF Visible, Origins
    <3>2. next \in Origins
      BY <1>5, <3>1 DEF Origins, At
    <3>3. L1Time(next) \in Nat
      BY <1>5, <3>1, SequencerAssumption DEF L1Time
    <3> QED BY <1>4, <2>2, <3>1, <3>2, <3>3
  <2> QED BY <1>6, <2>1, <2>2
<1>8. NoTxPool(l2, o) \in BOOLEAN /\ (NoTxPool(l2, o) <=> t > L1Time(o) + MaxSequencerDrift)
  BY DEF NoTxPool
<1>9. next # cur
  BY <1>3, <1>5 DEF Origins
<1>10. ASSUME t > L1Time(o) + MaxSequencerDrift, o = cur PROVE L1Time(next) > t
  BY <1>6, <1>9, <1>10
<1> DEFINE b == [origin |-> o, empty |-> NoTxPool(l2, o), seen |-> l1Fork]
<1>11. b \in Blocks
  BY <1>1, <1>7, <1>8 DEF Blocks
<1>12. b.origin = o /\ b.empty = NoTxPool(l2, o) /\ b.seen = l1Fork
  OBVIOUS
<1> HIDE DEF b, cur, next, past, t
<1>13. Sound(cur, b, t, l1Head)
  <2>1. L1Time(At(cur.num + 1, b.seen)) = L1Time(next)
    BY <1>12 DEF next
  <2>2. Follows(cur, o)
    BY DEF cur
  <2> QED BY <1>7, <1>8, <1>10, <1>12, <2>1, <2>2 DEF Sound
<1> QED BY <1>11, <1>13 DEF b, cur, t

(* A new job is begun no earlier than the time of its parent, and at the   *)
(* bound of the clock every parent's time has come.                        *)
LEMMA DueTime ==
    ASSUME IInv, Fires, ~Building, Len(l2) < MaxL2
    PROVE  Time(l2) <= now /\ ~stopped
<1>1. /\ Len(l2) \in Nat /\ now \in Nat /\ timer \in Int
      /\ MaxL2 \in Nat /\ MaxTime \in Nat /\ MaxTime >= MaxL2 * BlockTime
  BY SequencerAssumption, LenProperties DEF IInv, Core, TypeOK, TimerInv
<1>2. Time(l2) \in Nat /\ Time(l2) <= MaxL2 * BlockTime /\ MaxL2 * BlockTime \in Nat
  BY <1>1, Times DEF Time
<1>3. timer # Never /\ ~stopped /\ Time(l2) <= timer
  BY DEF IInv, TimerInv, Fires
<1> QED BY <1>1, <1>2, <1>3 DEF Fires

LEMMA StartStep ==
    ASSUME IInv, StartBuildingBlock
    PROVE  Core' /\ now' = now /\ (timer' = Armed(timer) \/ timer' = Armed(Planned))
<1>1. /\ UNCHANGED <<now, l1Head, l1Fork, l1State, l2, safe, stopped>>
      /\ timer' = Armed(Planned)
  BY DEF StartBuildingBlock
<1>2. BlockTime \in Nat /\ MaxL1 \in Nat
  BY SequencerAssumption
<1>3. Time(l2) <= now /\ ~stopped
  BY DueTime DEF StartBuildingBlock
<1>4. PICK o \in FindL1Origin(l2) :
          IF Follows(Origin(l2), o) /\ NextTime(l2) >= L1Time(o)
          THEN /\ building' = [onto |-> l2, origin |-> o, empty |-> NoTxPool(l2, o),
                               seen |-> l1Fork, safe |-> FALSE]
               /\ UNCHANGED <<nextAction, ready>>
          ELSE AskReset /\ UNCHANGED building
  BY DEF StartBuildingBlock
<1>5. ChainInv' /\ NotAheadOfClock'
  BY <1>1 DEF IInv, Core, ChainInv, NotAheadOfClock, Time
<1>6. CASE AskReset /\ UNCHANGED building
  <2>1. ready' = FALSE /\ nextAction' = now + BlockTime
    BY <1>6 DEF AskReset
  <2>2. ready' \in BOOLEAN
    BY <2>1, Zenon
  <2>3. nextAction' \in Int
    BY <1>2, <2>1 DEF IInv, Core, TypeOK
  <2>4. TypeOK'
    BY <1>1, <1>2, <1>6, <2>2, <2>3 DEF IInv, Core, TypeOK
  <2>5. now <= now'
    BY <1>1 DEF IInv, Core, TypeOK
  <2> QED BY <1>1, <1>6, <2>4, <2>5, Unmoved DEF IInv
<1>7. CASE /\ Follows(Origin(l2), o)
           /\ building' = [onto |-> l2, origin |-> o, empty |-> NoTxPool(l2, o),
                           seen |-> l1Fork, safe |-> FALSE]
           /\ UNCHANGED <<nextAction, ready>>
  <2> DEFINE b == [origin |-> o, empty |-> NoTxPool(l2, o), seen |-> l1Fork]
  <2>1. b \in Blocks /\ Sound(Origin(l2), b, NextTime(l2), l1Head)
    BY <1>7, FoundIsSound DEF IInv
  <2>2. o \in Origins /\ NoTxPool(l2, o) \in BOOLEAN /\ l1Fork \in 0..1
    BY <2>1 DEF Blocks
  <2>3. building' \in Jobs
    <3>1. l2 \in Seq(Blocks)
      BY DEF IInv, Core, TypeOK
    <3>2. o \in [num : (-1)..MaxL1, fork : 0..1]
      BY <1>2, <2>2 DEF Origins
    <3> QED BY <1>7, <2>2, <3>1, <3>2 DEF Jobs
  <2>4. TypeOK'
    BY <1>1, <1>7, <2>3 DEF IInv, Core, TypeOK
  <2>5. BlockOf(building') = b /\ building'.onto = l2
    BY <1>7 DEF BlockOf
  <2> HIDE DEF b
  <2>6. JobInv'
    <3>1. building'.onto = l2' /\ ~stopped' /\ (Time(l2) <= now)'
      BY <1>1, <1>3, <2>5 DEF Time
    <3>2. (BlockOf(building) \in Blocks)'
      BY <2>1, <2>5
    <3>3. Sound(Origin(l2), BlockOf(building), NextTime(l2), l1Head)'
      BY <1>1, <2>1, <2>5
    <3> QED BY <3>1, <3>2, <3>3 DEF JobInv
  <2> QED BY <1>1, <1>5, <2>4, <2>6 DEF Core
<1> QED BY <1>4, <1>6, <1>7

(* A step that makes the chain c the unsafe chain and leaves no job of the *)
(* sequencer open.                                                         *)
LEMMA NewChain ==
    ASSUME IInv, NEW c \in Seq(Blocks), SoundChain(c, l1Head), Time(c) <= now + BlockTime,
           l2' = c, safe' \in 0..Len(c), building' = NoJob \/ building' = building,
           building' = building => (building = NoJob \/ building.safe),
           nextAction' = nextAction, ready' \in BOOLEAN,
           UNCHANGED <<now, l1Head, l1Fork, l1State, stopped>>
    PROVE  Core'
<1>1. BlockTime \in Nat /\ MaxL1 \in Nat
  BY SequencerAssumption
<1>2. NoJob \in Jobs
  BY <1>1, EmptySeq DEF NoJob, Jobs
<1>3. TypeOK'
  BY <1>2 DEF IInv, Core, TypeOK
<1>4. ChainInv'
  BY DEF ChainInv
<1>5. JobInv'
  BY DEF JobInv, Building, NoJob
<1>6. NotAheadOfClock'
  BY DEF NotAheadOfClock, Time
<1> QED BY <1>3, <1>4, <1>5, <1>6 DEF Core

LEMMA SealStep ==
    ASSUME IInv, CompleteBuildingBlock
    PROVE  Core' /\ now' = now /\ (timer' = Armed(timer) \/ timer' = Armed(Planned))
<1>1. /\ UNCHANGED <<now, l1Head, l1Fork, l1State, safe, nextAction, stopped, ready>>
      /\ timer' = Armed(Planned) /\ building' = NoJob
      /\ l2' = Append(building.onto, BlockOf(building))
  BY DEF CompleteBuildingBlock, BlockOf
<1>2. /\ building.onto = l2 /\ Time(l2) <= now /\ BlockOf(building) \in Blocks
      /\ Sound(Origin(l2), BlockOf(building), NextTime(l2), l1Head)
  BY DEF IInv, Core, JobInv, CompleteBuildingBlock
<1> DEFINE c == Append(l2, BlockOf(building))
<1>3. c \in Seq(Blocks) /\ Len(c) = Len(l2) + 1 /\ SoundChain(c, l1Head)
  BY <1>2, SoundAppend DEF IInv, Core, TypeOK, ChainInv
<1>4. Len(l2) \in Nat /\ now \in Nat /\ safe \in 0..Len(l2) /\ BlockTime \in Nat
  BY LenProperties, SequencerAssumption DEF IInv, Core, TypeOK
<1>5. l2' = c
  BY <1>1, <1>2
<1> HIDE DEF c
<1>6. Time(c) <= now + BlockTime
  <2>1. Time(c) = Time(l2) + BlockTime /\ Time(l2) \in Nat
    BY <1>3, <1>4, Times DEF Time
  <2> QED BY <1>2, <1>4, <2>1
<1>7. safe' \in 0..Len(c)
  BY <1>1, <1>3, <1>4
<1>8. ready' \in BOOLEAN
  BY <1>1 DEF IInv, Core, TypeOK
<1>9. building' = building => (building = NoJob \/ building.safe)
  BY <1>1
<1> QED BY <1>1, <1>3, <1>5, <1>6, <1>7, <1>8, <1>9, NewChain

LEMMA ForeignStep ==
    ASSUME IInv, ForeignBlock
    PROVE  Core' /\ now' = now /\ (timer' = Armed(timer) \/ timer' = Armed(Planned))
<1>1. /\ UNCHANGED <<now, l1Head, l1Fork, l1State, safe, building, nextAction, stopped, ready>>
      /\ stopped /\ Time(l2) <= now /\ timer' = Armed(timer)
  BY DEF ForeignBlock, Loop
<1>2. PICK o \in FindL1Origin(l2) :
          /\ Follows(Origin(l2), o)
          /\ l2' = Append(l2, [origin |-> o, empty |-> NoTxPool(l2, o), seen |-> l1Fork])
  BY DEF ForeignBlock
<1> DEFINE b == [origin |-> o, empty |-> NoTxPool(l2, o), seen |-> l1Fork]
           c == Append(l2, b)
<1>3. b \in Blocks /\ Sound(Origin(l2), b, NextTime(l2), l1Head)
  BY <1>2, FoundIsSound DEF IInv
<1> HIDE DEF b
<1>4. c \in Seq(Blocks) /\ Len(c) = Len(l2) + 1 /\ SoundChain(c, l1Head)
  BY <1>3, SoundAppend DEF IInv, Core, TypeOK, ChainInv
<1>5. Len(l2) \in Nat /\ now \in Nat /\ safe \in 0..Len(l2) /\ BlockTime \in Nat
  BY LenProperties, SequencerAssumption DEF IInv, Core, TypeOK
<1>6. l2' = c
  BY <1>2 DEF b
<1> HIDE DEF c
<1>7. Time(c) <= now + BlockTime
  <2>1. Time(c) = Time(l2) + BlockTime /\ Time(l2) \in Nat
    BY <1>4, <1>5, Times DEF Time
  <2> QED BY <1>1, <1>5, <2>1
<1>8. safe' \in 0..Len(c)
  BY <1>1, <1>4, <1>5
<1>9. ready' \in BOOLEAN
  BY <1>1 DEF IInv, Core, TypeOK
<1>10. building = NoJob \/ building.safe
  BY <1>1 DEF IInv, Core, JobInv, Building
<1> QED BY <1>1, <1>4, <1>6, <1>7, <1>8, <1>9, <1>10, NewChain

(* The block that derivation makes on the safe head. *)
LEMMA DerivedIsSound ==
    ASSUME Core, Origin(SubSeq(l2, 1, safe)).num < l1Head, Canonical(Origin(SubSeq(l2, 1, safe)))
    PROVE  /\ Derived \in Blocks
           /\ Sound(Origin(SubSeq(l2, 1, safe)), Derived, (safe + 1) * BlockTime, l1Head)
<1> DEFINE cur  == Origin(SubSeq(l2, 1, safe))
           next == At(cur.num + 1, l1Fork)
           t    == (safe + 1) * BlockTime
<1>1. /\ Len(l2) \in Nat /\ safe \in 0..Len(l2) /\ MaxL1 \in Nat /\ ForkPoint \in Nat
      /\ l1Head \in 0..MaxL1 /\ l1Fork \in 0..1 /\ MaxSequencerDrift \in Nat
  BY SequencerAssumption, LenProperties DEF Core, TypeOK
<1>2. cur = OriginAt(l2, safe)
  BY <1>1, OriginOfPrefix DEF Core, TypeOK
<1>3. /\ cur \in Origins /\ cur.num <= l1Head
      /\ L1Time(cur) \in Nat /\ L1Time(cur) <= safe * BlockTime
  BY <1>1, <1>2, OriginFacts DEF Core, TypeOK, ChainInv
<1>4. t \in Nat /\ L1Time(cur) <= t
  <2>1. /\ safe \in Nat /\ safe + 1 \in Nat
    BY <1>1
  <2>2. safe * BlockTime \in Nat /\ t = safe * BlockTime + BlockTime /\ BlockTime \in Nat
    BY <2>1, Times
  <2> HIDE DEF t
  <2> QED BY <1>3, <2>2
<1>5. next.num = cur.num + 1 /\ next.fork \in 0..1
  BY <1>1 DEF At
<1>6. next \in Origins /\ next.num <= l1Head
  <2>1. next.num \in 0..MaxL1 /\ next.num <= l1Head
    BY <1>1, <1>3, <1>5 DEF Origins
  <2> QED BY <1>5, <2>1 DEF Origins, At
<1>7. L1Time(next) \in Nat
  <2>1. \A b \in Origins : L1Time(b) \in Nat
    BY SequencerAssumption DEF Origins, L1Time
  <2> QED BY <1>6, <2>1
<1>8. Follows(cur, next)
  <2>1. cur = At(cur.num, l1Fork)
    BY DEF Canonical
  <2>2. cur = At(cur.num, next.fork)
    <3>1. CASE cur.num + 1 >= ForkPoint
      BY <2>1, <3>1 DEF At
    <3>2. CASE cur.num + 1 < ForkPoint
      <4>1. cur.num < ForkPoint /\ ~(cur.num >= ForkPoint)
        BY <1>1, <1>3, <3>2 DEF Origins
      <4> QED BY <2>1, <4>1 DEF At
    <3> QED BY <1>1, <1>3, <3>1, <3>2 DEF Origins
  <2> QED BY <1>5, <2>2 DEF Follows
<1>9. Follows(cur, cur)
  BY DEF Follows
<1>10. next # cur
  BY <1>3, <1>5 DEF Origins
<1>11. /\ Derived.origin = (IF L1Time(next) <= t THEN next ELSE cur)
       /\ Derived.empty = TRUE /\ Derived.seen = l1Fork
  BY DEF Derived
<1>12. Derived \in Blocks
  <2>1. (IF L1Time(next) <= t THEN next ELSE cur) \in Origins
    BY <1>3, <1>6
  <2> QED BY <1>1, <2>1 DEF Derived, Blocks
<1>13. L1Time(At(cur.num + 1, Derived.seen)) = L1Time(next)
  BY <1>11
<1> HIDE DEF cur, next, t
<1>14. Sound(cur, Derived, t, l1Head)
  <2>1. CASE L1Time(next) <= t
    BY <1>6, <1>8, <1>10, <1>11, <2>1 DEF Sound
  <2>2. CASE ~(L1Time(next) <= t)
    <3>1. Derived.origin = cur
      BY <1>11, <2>2
    <3>2. L1Time(next) > t
      BY <1>4, <1>7, <2>2
    <3> QED BY <1>3, <1>4, <1>9, <1>11, <1>13, <3>1, <3>2 DEF Sound
  <2> QED BY <2>1, <2>2
<1> QED BY <1>12, <1>14 DEF cur, t

LEMMA ForceStep ==
    ASSUME IInv, ForceSafeBlock
    PROVE  Core' /\ now' = now /\ (timer' = Armed(timer) \/ timer' = Armed(Planned))
<1>1. /\ UNCHANGED <<now, l1Head, l1Fork, l1State, nextAction, stopped, ready>>
      /\ timer' = Armed(timer) /\ (safe + 1) * BlockTime <= now
      /\ Origin(SubSeq(l2, 1, safe)).num < l1Head /\ Canonical(Origin(SubSeq(l2, 1, safe)))
  BY DEF ForceSafeBlock, Loop
<1>2. /\ Len(l2) \in Nat /\ safe \in 0..Len(l2) /\ now \in Nat /\ BlockTime \in Nat
      /\ MaxL1 \in Nat /\ l2 \in Seq(Blocks)
  BY LenProperties, SequencerAssumption DEF IInv, Core, TypeOK
<1> DEFINE p == SubSeq(l2, 1, safe)
           c == Append(p, Derived)
<1>3. p \in Seq(Blocks) /\ Len(p) = safe
  BY <1>2, PrefixFacts
<1>4. CASE l2' = c /\ safe' = safe + 1 /\ building' = NoJob
  <2>1. SoundChain(p, l1Head)
    BY <1>2, SoundPrefix DEF IInv, Core, ChainInv
  <2>2. NextTime(p) = (safe + 1) * BlockTime
    BY <1>2, <1>3, Times DEF NextTime, Time
  <2>3. Derived \in Blocks /\ Sound(Origin(p), Derived, NextTime(p), l1Head)
    BY <1>1, <2>2, DerivedIsSound DEF IInv
  <2>4. c \in Seq(Blocks) /\ Len(c) = safe + 1 /\ SoundChain(c, l1Head)
    BY <1>3, <2>1, <2>3, SoundAppend
  <2> HIDE DEF c
  <2>5. Time(c) <= now + BlockTime
    <3>1. Time(c) = (safe + 1) * BlockTime /\ Time(c) \in Nat
      BY <1>2, <2>4, Times DEF Time
    <3> QED BY <1>1, <1>2, <3>1
  <2>6. safe' \in 0..Len(c)
    BY <1>2, <1>4, <2>4
  <2>7. ready' \in BOOLEAN
    BY <1>1 DEF IInv, Core, TypeOK
  <2>8. building' = building => (building = NoJob \/ building.safe)
    BY <1>4
  <2> QED BY <1>1, <1>4, <2>4, <2>5, <2>6, <2>7, <2>8, NewChain
<1>5. CASE building' = [NoJob EXCEPT !.onto = p, !.safe = TRUE] /\ UNCHANGED <<l2, safe>>
  <2>1. building' = [onto |-> p, origin |-> [num |-> -1, fork |-> 0], empty |-> FALSE,
                     seen |-> 0, safe |-> TRUE]
    BY <1>5 DEF NoJob
  <2>2. building' \in Jobs
    BY <1>2, <1>3, <2>1 DEF Jobs
  <2>3. building'.safe
    BY <2>1
  <2>4. TypeOK'
    BY <1>1, <1>5, <2>2 DEF IInv, Core, TypeOK
  <2>5. ChainInv'
    BY <1>1, <1>5 DEF IInv, Core, ChainInv
  <2>6. JobInv'
    BY <2>3 DEF JobInv
  <2>7. NotAheadOfClock'
    BY <1>1, <1>5 DEF IInv, Core, NotAheadOfClock, Time
  <2> QED BY <1>1, <2>4, <2>5, <2>6, <2>7 DEF Core
<1> QED BY <1>4, <1>5 DEF ForceSafeBlock

LEMMA ResetStep ==
    ASSUME IInv, Reset
    PROVE  Core' /\ now' = now /\ (timer' = Armed(timer) \/ timer' = Armed(Planned))
<1>1. /\ UNCHANGED <<now, l1Head, l1Fork, l1State, nextAction, stopped>>
      /\ timer' = Armed(timer) /\ building' = NoJob /\ ready' = TRUE
  BY DEF Reset, Loop
<1>2. PICK kept \in 0..Len(l2) :
          l2' = SubSeq(l2, 1, kept) /\ safe' = IF safe < kept THEN safe ELSE kept
  BY DEF Reset
<1>3. /\ Len(l2) \in Nat /\ safe \in 0..Len(l2) /\ now \in Nat /\ BlockTime \in Nat
      /\ l2 \in Seq(Blocks)
  BY LenProperties, SequencerAssumption DEF IInv, Core, TypeOK
<1> DEFINE c == SubSeq(l2, 1, kept)
<1>4. c \in Seq(Blocks) /\ Len(c) = kept /\ SoundChain(c, l1Head)
  BY <1>3, PrefixFacts, SoundPrefix DEF IInv, Core, ChainInv
<1>5. l2' = c
  BY <1>2
<1> HIDE DEF c
<1>6. Time(c) <= now + BlockTime
  <2>1. Time(c) <= Time(l2) /\ Time(c) \in Nat /\ Time(l2) \in Nat
    BY <1>3, <1>4, Times DEF Time
  <2>2. Time(l2) <= now + BlockTime
    BY DEF IInv, Core, NotAheadOfClock
  <2> QED BY <1>3, <2>1, <2>2
<1>7. safe' \in 0..Len(c)
  BY <1>2, <1>3, <1>4
<1>8. ready' \in BOOLEAN
  BY <1>1, Zenon
<1>9. building' = building => (building = NoJob \/ building.safe)
  BY <1>1
<1> QED BY <1>1, <1>4, <1>5, <1>6, <1>7, <1>8, <1>9, NewChain

LEMMA EnvironmentStep ==
    ASSUME IInv, Tick \/ L1Advance \/ L1Reorg
    PROVE  IInv'
<1>1. /\ UNCHANGED <<l1State, l2, safe, building, nextAction, timer, stopped, ready>>
      /\ l1Head' = l1Head \/ (l1Head < MaxL1 /\ l1Head' = l1Head + 1)
      /\ now' = now \/ (now < MaxTime /\ now' = now + 1)
      /\ l1Fork' = l1Fork \/ l1Fork' = 1
  BY DEF Tick, L1Advance, L1Reorg
<1>2. /\ now \in 0..MaxTime /\ l1Head \in 0..MaxL1 /\ MaxL1 \in Nat /\ MaxTime \in Nat
      /\ Len(l2) \in Nat /\ BlockTime \in Nat
  BY LenProperties, SequencerAssumption DEF IInv, Core, TypeOK
<1>3. /\ now' \in 0..MaxTime /\ now <= now' /\ l1Head' \in 0..MaxL1 /\ l1Head <= l1Head'
  BY <1>1, <1>2
<1>4. TypeOK'
  BY <1>1, <1>3 DEF IInv, Core, TypeOK
<1>5. ASSUME NEW p, NEW b \in Blocks, NEW t, Sound(p, b, t, l1Head) PROVE Sound(p, b, t, l1Head')
  <2>1. b.origin.num \in Int
    BY <1>2 DEF Blocks, Origins
  <2>2. b.origin.num <= l1Head'
    BY <1>2, <1>3, <1>5, <2>1 DEF Sound
  <2> QED BY <1>5, <2>2 DEF Sound
<1>6. ChainInv'
  <2>1. \A i \in 1..Len(l2) : l2[i] \in Blocks
    BY ElementOfSeq DEF IInv, Core, TypeOK
  <2> QED BY <1>1, <1>5, <2>1 DEF IInv, Core, ChainInv, SoundChain
<1>7. Time(l2) \in Nat /\ Time(l2)' = Time(l2)
  BY <1>1, <1>2, Times DEF Time
<1>8. NotAheadOfClock'
  BY <1>2, <1>3, <1>7 DEF IInv, Core, NotAheadOfClock
<1>9. JobInv'
  <2>1. SUFFICES ASSUME Building, ~building.safe
                 PROVE  /\ building.onto = l2 /\ ~stopped /\ Time(l2) <= now'
                        /\ BlockOf(building) \in Blocks
                        /\ Sound(Origin(l2), BlockOf(building), NextTime(l2), l1Head')
    BY <1>1, <1>7 DEF JobInv, Building, NoJob
  <2>2. /\ building.onto = l2 /\ ~stopped /\ Time(l2) <= now
        /\ BlockOf(building) \in Blocks
        /\ Sound(Origin(l2), BlockOf(building), NextTime(l2), l1Head)
    BY <2>1 DEF IInv, Core, JobInv
  <2> QED BY <1>2, <1>3, <1>5, <1>7, <2>2
<1>10. TimerInv'
  BY <1>1, <1>7 DEF IInv, TimerInv, Building, NoJob, Never
<1> QED BY <1>4, <1>6, <1>8, <1>9, <1>10 DEF IInv, Core

LEMMA NextStep == IInv /\ [Next]_vars => IInv'
<1> SUFFICES ASSUME IInv, [Next]_vars PROVE IInv'
  OBVIOUS
<1> DEFINE Loops == /\ Core' /\ now' = now
                    /\ timer' = Armed(timer) \/ timer' = Armed(Planned)
<1>1. ASSUME Loops PROVE IInv'
  BY <1>1, ArmedTimer DEF IInv
<1>2. CASE \/ AvoidSafeJob \/ StartFails \/ HandleNewL1HeadBlock \/ Consolidate
           \/ DerivationAsksReset \/ StartSequencer
  BY <1>1, <1>2, QuietSteps
<1>3. CASE StopSequencer \/ SealFails
  BY <1>1, <1>3, StopsAndJobs
<1>4. CASE StartBuildingBlock
  BY <1>1, <1>4, StartStep
<1>5. CASE CompleteBuildingBlock
  BY <1>1, <1>5, SealStep
<1>6. CASE ForceSafeBlock
  BY <1>1, <1>6, ForceStep
<1>7. CASE Reset
  BY <1>1, <1>7, ResetStep
<1>8. CASE ForeignBlock
  BY <1>1, <1>8, ForeignStep
<1>9. CASE Tick \/ L1Advance \/ L1Reorg
  BY <1>9, EnvironmentStep
<1>10. CASE UNCHANGED vars
  BY <1>10 DEF IInv, Core, TypeOK, ChainInv, JobInv, NotAheadOfClock, TimerInv, Building, NoJob,
               Time, Never, vars
<1> QED BY <1>2, <1>3, <1>4, <1>5, <1>6, <1>7, <1>8, <1>9, <1>10 DEF Next

-----------------------------------------------------------------------------
(* The results                                                             *)

LEMMA Invariance == Spec => []IInv
<1>1. Init => IInv
  BY InitCore
<1>2. IInv /\ [Next]_vars => IInv'
  BY NextStep
<1> QED BY <1>1, <1>2, PTL DEF Spec

(* Every block that the sequencer, another sequencer or derivation put on  *)
(* the unsafe chain passes the checks of checkSingularBatch on the L1      *)
(* chain that its builder saw, for all block times, drifts, confirmation   *)
(* depths and L1 chains, and whatever moved the head while it was built.   *)
THEOREM BlocksDerivable == Spec => []SequencedDerivable
<1>1. IInv => SequencedDerivable
  <2> SUFFICES ASSUME IInv, NEW i \in DOMAIN l2
               PROVE  LET b == l2[i]
                          p == Origin(SubSeq(l2, 1, i - 1))
                          t == i * BlockTime
                      IN  /\ Follows(p, b.origin) /\ L1Time(b.origin) <= t
                          /\ t > L1Time(b.origin) + MaxSequencerDrift =>
                                b.empty /\ (b.origin = p => L1Time(At(p.num + 1, b.seen)) > t)
    BY DEF SequencedDerivable
  <2>1. l2 \in Seq(Blocks) /\ Len(l2) \in Nat /\ i \in 1..Len(l2)
    BY LenProperties DEF IInv, Core, TypeOK
  <2>2. Origin(SubSeq(l2, 1, i - 1)) = OriginAt(l2, i - 1)
    <3>1. i - 1 \in 0..Len(l2)
      BY <2>1
    <3> QED BY <2>1, <3>1, OriginOfPrefix
  <2>3. Sound(OriginAt(l2, i - 1), l2[i], i * BlockTime, l1Head)
    BY <2>1 DEF IInv, Core, ChainInv, SoundChain
  <2> QED BY <2>2, <2>3 DEF Sound
<1> QED BY <1>1, Invariance, PTL

(* No block is begun before the time of its parent, so that the unsafe     *)
(* chain is never more than a block time ahead of the clock: after errors, *)
(* stops, resets, safe jobs and blocks from elsewhere, the loop re-plans.  *)
THEOREM NeverAheadOfClock == Spec => []NotAheadOfClock
<1>1. IInv => NotAheadOfClock
  BY DEF IInv, Core
<1> QED BY <1>1, Invariance, PTL

(* CompleteBuildingBlock never replaces a part of the unsafe chain: as     *)
(* long as a job of the sequencer is open the head does not move without   *)
(* the job being cancelled.                                                *)
THEOREM SealsExtendHead == Spec => SealExtendsHead
<1>1. ASSUME IInv, [Next]_vars
      PROVE  [l2' # l2 /\ safe' = safe /\ ready => IsPrefix(l2, l2')]_vars
  <2> SUFFICES ASSUME l2' # l2, safe' = safe, ready PROVE IsPrefix(l2, l2')
    OBVIOUS
  <2>1. l2 \in Seq(Blocks) /\ Len(l2) \in Nat /\ safe \in Nat
    BY <1>1, LenProperties DEF IInv, Core, TypeOK
  <2>2. CompleteBuildingBlock \/ ForeignBlock
    <3>1. ~(UNCHANGED l2) /\ ~(safe' = safe + 1) /\ ~Reset
      BY <2>1 DEF Reset
    <3>2. ~ForceSafeBlock
      BY <3>1 DEF ForceSafeBlock
    <3> QED BY <1>1, <3>1, <3>2 DEF Next, vars, AvoidSafeJob, StartBuildingBlock, StartFails,
               SealFails, HandleNewL1HeadBlock, Consolidate, DerivationAsksReset, StopSequencer,
               StartSequencer, Tick, L1Advance, L1Reorg
  <2>3. \E b \in Blocks : l2' = Append(l2, b)
    <3>1. CASE CompleteBuildingBlock
      <4>1. l2' = Append(building.onto, BlockOf(building))
        BY <3>1 DEF CompleteBuildingBlock, BlockOf
      <4>2. building.onto = l2 /\ BlockOf(building) \in Blocks
        BY <1>1, <3>1 DEF IInv, Core, JobInv, CompleteBuildingBlock
      <4> QED BY <4>1, <4>2
    <3>2. CASE ForeignBlock
      <4>1. PICK o \in FindL1Origin(l2) :
                /\ Follows(Origin(l2), o)
                /\ l2' = Append(l2, [origin |-> o, empty |-> NoTxPool(l2, o), seen |-> l1Fork])
        BY <3>2 DEF ForeignBlock
      <4>2. [origin |-> o, empty |-> NoTxPool(l2, o), seen |-> l1Fork] \in Blocks
        BY <1>1, <4>1, FoundIsSound DEF IInv
      <4> QED BY <4>1, <4>2
    <3> QED BY <2>2, <3>1, <3>2
  <2>4. PICK b \in Blocks : l2' = Append(l2, b)
    BY <2>3
  <2>5. /\ Append(l2, b) \in Seq(Blocks) /\ Len(Append(l2, b)) = Len(l2) + 1
        /\ \A i \in 1..Len(l2) : Append(l2, b)[i] = l2[i]
    BY <2>1, AppendProperties
  <2>6. /\ SubSeq(l2', 1, Len(l2)) \in Seq(Blocks) /\ Len(SubSeq(l2', 1, Len(l2))) = Len(l2)
        /\ \A i \in 1..Len(l2) : SubSeq(l2', 1, Len(l2))[i] = l2'[i]
    <3>1. l2' \in Seq(Blocks) /\ Len(l2) \in 0..Len(l2')
      BY <2>1, <2>4, <2>5
    <3> QED BY <3>1, PrefixFacts
  <2>7. SubSeq(l2', 1, Len(l2)) = l2
    BY <2>1, <2>4, <2>5, <2>6, SeqEqual
  <2>8. SubSeq(l2, 1, Len(l2)) = l2
    BY <2>1, SubSeqFull
  <2>9. Len(l2) <= Len(l2')
    BY <2>1, <2>4, <2>5
  <2> QED BY <2>7, <2>8, <2>9, Zenon DEF IsPrefix
<1>2. IInv /\ [Next]_vars => [l2' # l2 /\ safe' = safe /\ ready => IsPrefix(l2, l2')]_vars
  BY <1>1
<1>3. Spec => [][Next]_vars
  BY PTL DEF Spec
<1> QED BY <1>2, <1>3, Invariance, PTL DEF SealExtendsHead
=============================================================================
