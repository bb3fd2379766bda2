------------------------ MODULE ChannelManagerProofs ------------------------
(***************************************************************************)
(* Proofs about ChannelManager, for any L2 blocks, timeouts, number of     *)
(* channels and frames, and any fate of the transactions.                  *)
(***************************************************************************)
EXTENDS ChannelManager, FiniteSetTheorems, SequenceTheorems, TLAPS

-----------------------------------------------------------------------------
(* The inductive invariant                                                 *)

Channels(Timeouts, Confirmations) ==
    [blocks : Seq(Blocks), full : BOOLEAN, timeout : Timeouts, frames : Seq(Nat),
     numFrames : Nat, pending : SUBSET Nat, confirmed : Confirmations]

(* No property depends on the values of the timeout and the confirmations. *)
ChannelTyped(ch) == ch \in Channels({ch.timeout}, {ch.confirmed})

(* What FrameConservation says of one channel. *)
FramesOk(ch) ==
    /\ IsInjective(ch.frames)
    /\ Range(ch.frames) \cap ch.pending = {}
    /\ (Range(ch.frames) \cup ch.pending) \cap DOMAIN ch.confirmed = {}
    /\ Range(ch.frames) \cup ch.pending \cup DOMAIN ch.confirmed = 0..(ch.numFrames - 1)

ChannelOk(ch) == ChannelTyped(ch) /\ FramesOk(ch)

ChannelsInv == \A c \in DOMAIN channels : c \in ChannelIDs /\ ChannelOk(channels[c])

(* The queue holds a channel once, and a transaction is of a known one. *)
QueueInv ==
    /\ blocks \in Seq(Blocks) /\ closed \in BOOLEAN
    /\ channelQueue \in Seq(DOMAIN channels) /\ IsInjective(channelQueue)
    /\ \A tx \in txChannels : tx[1] \in DOMAIN channels

IInv == ChannelsInv /\ QueueInv /\ NoStuckChannel /\ NoBlockLost

-----------------------------------------------------------------------------
(* Sequences                                                               *)

LEMMA SeqFacts ==
    ASSUME NEW S, NEW s \in Seq(S)
    PROVE  /\ Len(s) \in Nat /\ DOMAIN s = 1..Len(s)
           /\ \A i \in 1..Len(s) : s[i] \in S
           /\ \A x : x \in Range(s) <=> \E i \in 1..Len(s) : s[i] = x
           /\ Range(s) \subseteq S
           /\ IsInjective(s) <=> \A i, j \in 1..Len(s) : s[i] = s[j] => i = j
<1>1. Len(s) \in Nat /\ DOMAIN s = 1..Len(s) /\ \A i \in 1..Len(s) : s[i] \in S
  BY LenProperties, ElementOfSeq
<1> QED BY <1>1 DEF Range, IsInjective

LEMMA AppendFacts ==
    ASSUME NEW S, NEW s \in Seq(S), NEW e \in S
    PROVE  /\ Append(s, e) \in Seq(S) /\ Append(s, e) # <<>>
           /\ Range(Append(s, e)) = Range(s) \cup {e}
           /\ IsInjective(s) /\ e \notin Range(s) => IsInjective(Append(s, e))
<1> DEFINE t == Append(s, e)
<1>1. /\ t \in Seq(S) /\ Len(t) = Len(s) + 1 /\ t[Len(s) + 1] = e
      /\ \A i \in 1..Len(s) : t[i] = s[i]
  BY AppendProperties
<1>2. /\ Len(s) \in Nat
      /\ \A x : x \in Range(s) <=> \E i \in 1..Len(s) : s[i] = x
      /\ IsInjective(s) <=> \A i, j \in 1..Len(s) : s[i] = s[j] => i = j
  BY SeqFacts
<1>3. /\ \A x : x \in Range(t) <=> \E i \in 1..Len(t) : t[i] = x
      /\ IsInjective(t) <=> \A i, j \in 1..Len(t) : t[i] = t[j] => i = j
  BY <1>1, SeqFacts
<1> HIDE DEF t
<1>4. \A i \in 1..Len(t) : i \in 1..Len(s) \/ i = Len(s) + 1
  BY <1>1, <1>2
<1>5. \A i \in 1..Len(s) : i \in 1..Len(t) /\ i # Len(s) + 1
  BY <1>1, <1>2
<1>6. Len(s) + 1 \in 1..Len(t)
  BY <1>1, <1>2
<1>7. Range(t) = Range(s) \cup {e}
  BY <1>1, <1>2, <1>3, <1>4, <1>5, <1>6
<1>8. IsInjective(s) /\ e \notin Range(s) => IsInjective(t)
  BY <1>1, <1>2, <1>3, <1>4, <1>5, <1>6
<1>9. t # <<>>
  BY <1>1, <1>2
<1> QED BY <1>1, <1>7, <1>8, <1>9 DEF t

LEMMA ConcatFacts ==
    ASSUME NEW S, NEW s \in Seq(S), NEW t \in Seq(S)
    PROVE  /\ s \o t \in Seq(S)
           /\ Range(s \o t) = Range(s) \cup Range(t)
           /\ t # <<>> => s \o t # <<>>
           /\ IsInjective(s) /\ IsInjective(t) /\ Range(s) \cap Range(t) = {} => IsInjective(s \o t)
<1> DEFINE u == s \o t
<1>1. /\ u \in Seq(S) /\ Len(u) = Len(s) + Len(t)
      /\ \A i \in 1..(Len(s) + Len(t)) : u[i] = IF i <= Len(s) THEN s[i] ELSE t[i - Len(s)]
  BY ConcatProperties
<1>2. /\ Len(s) \in Nat
      /\ \A x : x \in Range(s) <=> \E i \in 1..Len(s) : s[i] = x
      /\ IsInjective(s) <=> \A i, j \in 1..Len(s) : s[i] = s[j] => i = j
  BY SeqFacts
<1>3. /\ Len(t) \in Nat
      /\ \A x : x \in Range(t) <=> \E i \in 1..Len(t) : t[i] = x
      /\ IsInjective(t) <=> \A i, j \in 1..Len(t) : t[i] = t[j] => i = j
  BY SeqFacts
<1>4. /\ \A x : x \in Range(u) <=> \E i \in 1..Len(u) : u[i] = x
      /\ IsInjective(u) <=> \A i, j \in 1..Len(u) : u[i] = u[j] => i = j
  BY <1>1, SeqFacts
<1>5. t # <<>> => Len(t) > 0
  BY <1>3, EmptySeq
<1>6. t # <<>> => u # <<>>
  <2> SUFFICES ASSUME t # <<>> PROVE u # <<>>
    OBVIOUS
  <2>1. Len(u) > 0
    BY <1>1, <1>2, <1>3, <1>5
  <2> QED BY <2>1, EmptySeq
<1> HIDE DEF u
<1>7. \A i \in 1..Len(s) : i \in 1..Len(u) /\ u[i] = s[i]
  BY <1>1, <1>2, <1>3
<1>8. \A i \in 1..Len(t) : i + Len(s) \in 1..Len(u) /\ u[i + Len(s)] = t[i]
  <2> SUFFICES ASSUME NEW i \in 1..Len(t), NEW j, j = i + Len(s)
               PROVE  j \in 1..Len(u) /\ u[j] = t[i]
    OBVIOUS
  <2>1. j \in 1..(Len(s) + Len(t)) /\ ~(j <= Len(s)) /\ j - Len(s) = i
    BY <1>2, <1>3
  <2> QED BY <2>1, <1>1
<1>9. \A i \in 1..Len(u) : \/ i \in 1..Len(s) /\ u[i] = s[i]
                           \/ i - Len(s) \in 1..Len(t) /\ u[i] = t[i - Len(s)]
  BY <1>1, <1>2, <1>3
<1>10. Range(u) = Range(s) \cup Range(t)
  <2>1. \A i \in 1..Len(t) : \E j \in 1..Len(u) : u[j] = t[i]
    BY <1>8
  <2>2. \A i \in 1..Len(u) : \/ \E j \in 1..Len(s) : u[i] = s[j]
                             \/ \E j \in 1..Len(t) : u[i] = t[j]
    BY <1>9
  <2>3. \A x : x \in Range(u) => x \in Range(s) \cup Range(t)
    BY <2>2, <1>2, <1>3, <1>4
  <2>4. \A x : x \in Range(s) => x \in Range(u)
    BY <1>2, <1>4, <1>7
  <2>5. \A x : x \in Range(t) => x \in Range(u)
    BY <2>1, <1>3, <1>4
  <2> QED BY <2>3, <2>4, <2>5
<1>11. ASSUME IsInjective(s), IsInjective(t), Range(s) \cap Range(t) = {}
       PROVE  IsInjective(u)
  <2> SUFFICES ASSUME NEW i \in 1..Len(u), NEW j \in 1..Len(u), u[i] = u[j] PROVE i = j
    BY <1>4
  <2>1. CASE i \in 1..Len(s) /\ u[i] = s[i]
    BY <2>1, <1>2, <1>3, <1>9, <1>11
  <2>2. CASE i - Len(s) \in 1..Len(t) /\ u[i] = t[i - Len(s)]
    <3>1. u[j] \notin Range(s)
      BY <2>2, <1>3, <1>11
    <3>2. j - Len(s) \in 1..Len(t) /\ u[j] = t[j - Len(s)]
      BY <3>1, <1>2, <1>9
    <3>3. i - Len(s) = j - Len(s)
      BY <2>2, <3>2, <1>3, <1>11
    <3> QED BY <3>3, <1>1, <1>2, <1>3
  <2> QED BY <2>1, <2>2, <1>9
<1> QED BY <1>1, <1>6, <1>10, <1>11 DEF u

LEMMA SubSeqFacts ==
    ASSUME NEW S, NEW s \in Seq(S), NEW m \in 1..(Len(s) + 1), NEW n \in 0..Len(s)
    PROVE  /\ SubSeq(s, m, n) \in Seq(S)
           /\ Len(SubSeq(s, m, n)) = IF m <= n THEN n - m + 1 ELSE 0
           /\ \A i \in 1..(n - m + 1) : SubSeq(s, m, n)[i] = s[m + i - 1]
           /\ \A x : x \in Range(SubSeq(s, m, n)) <=> \E i \in m..n : s[i] = x
<1> DEFINE t == SubSeq(s, m, n)
<1>1. Len(s) \in Nat /\ \A i \in m..n : s[i] \in S
  BY SeqFacts
<1>2. /\ t \in Seq(S) /\ Len(t) = IF m <= n THEN n - m + 1 ELSE 0
      /\ \A i \in 1..(n - m + 1) : t[i] = s[m + i - 1]
  BY <1>1, SubSeqProperties
<1>3. \A x : x \in Range(t) <=> \E i \in 1..Len(t) : t[i] = x
  BY <1>2, SeqFacts
<1> HIDE DEF t
<1>4. \A i \in 1..Len(t) : m + i - 1 \in m..n /\ t[i] = s[m + i - 1]
  BY <1>1, <1>2
<1>5. \A i \in m..n : \E j \in 1..Len(t) : t[j] = s[i]
  <2> SUFFICES ASSUME NEW i \in m..n, NEW j, j = i - m + 1
               PROVE  j \in 1..Len(t) /\ t[j] = s[i]
    OBVIOUS
  <2>1. j \in 1..(n - m + 1) /\ m + j - 1 = i /\ m <= n
    BY <1>1
  <2> QED BY <2>1, <1>2
<1>6. \A i \in 1..Len(t) : \E j \in m..n : t[i] = s[j]
  BY <1>4
<1>7. \A x : x \in Range(t) <=> \E i \in m..n : s[i] = x
  BY <1>3, <1>5, <1>6
<1> QED BY <1>2, <1>7 DEF t

LEMMA TailFacts ==
    ASSUME NEW S, NEW s \in Seq(S), s # <<>>, IsInjective(s)
    PROVE  /\ Tail(s) \in Seq(S) /\ Head(s) \in S /\ IsInjective(Tail(s))
           /\ Head(s) \in Range(s) /\ Range(Tail(s)) = Range(s) \ {Head(s)}
<1> DEFINE t == Tail(s)
<1>1. Head(s) = s[1] /\ Head(s) \in S
  BY HeadTailProperties
<1>2. t \in Seq(S) /\ Len(t) = Len(s) - 1 /\ \A i \in 1..Len(t) : t[i] = s[i + 1]
  BY HeadTailProperties
<1>3. /\ Len(s) \in Nat
      /\ \A x : x \in Range(s) <=> \E i \in 1..Len(s) : s[i] = x
      /\ \A i, j \in 1..Len(s) : s[i] = s[j] => i = j
  BY SeqFacts
<1>4. /\ \A x : x \in Range(t) <=> \E i \in 1..Len(t) : t[i] = x
      /\ IsInjective(t) <=> \A i, j \in 1..Len(t) : t[i] = t[j] => i = j
  BY <1>2, SeqFacts
<1>5. Len(s) >= 1
  BY <1>3, EmptySeq
<1> HIDE DEF t
<1>6. \A i \in 1..Len(t) : i + 1 \in 1..Len(s) /\ i + 1 # 1 /\ t[i] = s[i + 1]
  BY <1>2, <1>3, <1>5
<1>7. \A i \in 1..Len(s) : i # 1 => i - 1 \in 1..Len(t) /\ t[i - 1] = s[i]
  BY <1>2, <1>3, <1>5
<1>8. 1 \in 1..Len(s)
  BY <1>3, <1>5
<1>9. Range(t) = Range(s) \ {s[1]}
  <2>1. \A i \in 1..Len(t) : \E j \in 1..Len(s) : j # 1 /\ t[i] = s[j]
    BY <1>6
  <2>2. \A i \in 1..Len(s) : i # 1 => \E j \in 1..Len(t) : t[j] = s[i]
    BY <1>7
  <2>3. \A x : x \in Range(t) => x \in Range(s) \ {s[1]}
    <3> SUFFICES ASSUME NEW x \in Range(t) PROVE x \in Range(s) /\ x # s[1]
      OBVIOUS
    <3>1. PICK i \in 1..Len(t) : t[i] = x
      BY <1>4
    <3>2. PICK j \in 1..Len(s) : j # 1 /\ x = s[j]
      BY <3>1, <2>1
    <3>3. s[j] # s[1]
      BY <3>2, <1>3, <1>8
    <3> QED BY <3>2, <3>3, <1>3
  <2>4. \A x : x \in Range(s) \ {s[1]} => x \in Range(t)
    <3> SUFFICES ASSUME NEW x \in Range(s), x # s[1] PROVE x \in Range(t)
      OBVIOUS
    <3>1. PICK i \in 1..Len(s) : s[i] = x
      BY <1>3
    <3>2. \E j \in 1..Len(t) : t[j] = x
      BY <3>1, <2>2
    <3> QED BY <3>2, <1>4
  <2> QED BY <2>3, <2>4
<1>10. IsInjective(t)
  <2> SUFFICES ASSUME NEW i \in 1..Len(t), NEW j \in 1..Len(t), t[i] = t[j] PROVE i = j
    BY <1>4
  <2>1. i + 1 = j + 1
    BY <1>3, <1>6
  <2> QED BY <2>1, <1>2, <1>3, <1>5
<1> QED BY <1>1, <1>2, <1>3, <1>8, <1>9, <1>10 DEF t

LEMMA RemoveAtFacts ==
    ASSUME NEW S, NEW s \in Seq(S), IsInjective(s), NEW k \in 1..Len(s)
    PROVE  /\ RemoveAt(s, k) \in Seq(S) /\ IsInjective(RemoveAt(s, k))
           /\ Range(RemoveAt(s, k)) = Range(s) \ {s[k]}
<1> DEFINE l == SubSeq(s, 1, k - 1)
           r == SubSeq(s, k + 1, Len(s))
<1>1. /\ Len(s) \in Nat
      /\ \A x : x \in Range(s) <=> \E i \in 1..Len(s) : s[i] = x
      /\ \A i, j \in 1..Len(s) : s[i] = s[j] => i = j
  BY SeqFacts
<1>2. /\ l \in Seq(S) /\ Len(l) = k - 1 /\ \A i \in 1..Len(l) : l[i] = s[i]
      /\ \A x : x \in Range(l) <=> \E i \in 1..(k - 1) : s[i] = x
  <2>1. /\ 1 \in 1..(Len(s) + 1) /\ k - 1 \in 0..Len(s)
    BY <1>1
  <2>2. /\ l \in Seq(S) /\ Len(l) = IF 1 <= k - 1 THEN k - 1 - 1 + 1 ELSE 0
        /\ \A i \in 1..(k - 1 - 1 + 1) : l[i] = s[1 + i - 1]
        /\ \A x : x \in Range(l) <=> \E i \in 1..(k - 1) : s[i] = x
    BY <2>1, SubSeqFacts
  <2> HIDE DEF l
  <2> QED BY <2>2, <1>1
<1>3. /\ r \in Seq(S) /\ Len(r) = Len(s) - k /\ \A i \in 1..Len(r) : r[i] = s[k + i]
      /\ \A x : x \in Range(r) <=> \E i \in (k + 1)..Len(s) : s[i] = x
  <2>1. k + 1 \in 1..(Len(s) + 1) /\ Len(s) \in 0..Len(s)
    BY <1>1
  <2>2. /\ r \in Seq(S) /\ Len(r) = IF k + 1 <= Len(s) THEN Len(s) - (k + 1) + 1 ELSE 0
        /\ \A i \in 1..(Len(s) - (k + 1) + 1) : r[i] = s[k + 1 + i - 1]
        /\ \A x : x \in Range(r) <=> \E i \in (k + 1)..Len(s) : s[i] = x
    BY <2>1, SubSeqFacts
  <2> HIDE DEF r
  <2>3. Len(r) = Len(s) - k /\ Len(s) - k = Len(s) - (k + 1) + 1
    BY <2>2, <1>1
  <2>4. \A i \in 1..Len(r) : k + 1 + i - 1 = k + i
    BY <2>3, <1>1
  <2> QED BY <2>2, <2>3, <2>4
<1>4. RemoveAt(s, k) = l \o r
  BY DEF RemoveAt
<1> HIDE DEF l, r
<1>5. IsInjective(l)
  <2>1. IsInjective(l) <=> \A i, j \in 1..Len(l) : l[i] = l[j] => i = j
    BY <1>2, SeqFacts
  <2> QED BY <2>1, <1>1, <1>2
<1>6. IsInjective(r)
  <2>1. IsInjective(r) <=> \A i, j \in 1..Len(r) : r[i] = r[j] => i = j
    BY <1>3, SeqFacts
  <2> SUFFICES ASSUME NEW i \in 1..Len(r), NEW j \in 1..Len(r), r[i] = r[j] PROVE i = j
    BY <2>1
  <2>2. k + i \in 1..Len(s) /\ k + j \in 1..Len(s) /\ s[k + i] = s[k + j]
    BY <1>1, <1>3
  <2>3. k + i = k + j
    BY <2>2, <1>1
  <2>4. i \in Nat /\ j \in Nat /\ k \in Nat
    BY <1>1, <1>3
  <2> QED BY <2>3, <2>4
<1>7. \A i \in 1..(k - 1) : i \in 1..Len(s) /\ i # k /\ i \notin (k + 1)..Len(s)
  BY <1>1
<1>8. \A i \in (k + 1)..Len(s) : i \in 1..Len(s) /\ i # k
  BY <1>1
<1>9. \A i \in 1..Len(s) : i \in 1..(k - 1) \/ i = k \/ i \in (k + 1)..Len(s)
  BY <1>1
<1>10. Range(l) \cap Range(r) = {}
  BY <1>1, <1>2, <1>3, <1>7, <1>8
<1>11. Range(l) \cup Range(r) = Range(s) \ {s[k]}
  BY <1>1, <1>2, <1>3, <1>7, <1>8, <1>9
<1> QED BY <1>2, <1>3, <1>4, <1>5, <1>6, <1>10, <1>11, ConcatFacts

-----------------------------------------------------------------------------
(* What the operations of a channel keep                                   *)

(* The operations that only move frames. *)
Moved(ch, new) ==
    /\ ChannelOk(new)
    /\ new.blocks = ch.blocks /\ new.full = ch.full /\ new.numFrames = ch.numFrames

LEMMA ChannelFacts ==
    ASSUME NEW ch, ChannelOk(ch)
    PROVE  /\ ch.blocks \in Seq(Blocks) /\ ch.full \in BOOLEAN /\ ch.frames \in Seq(Nat)
           /\ ch.numFrames \in Nat /\ ch.pending \subseteq Nat
  BY DEF ChannelOk, ChannelTyped, Channels

LEMMA NewChannelOk == ChannelOk(NewChannel) /\ NewChannel.blocks = <<>> /\ ~NewChannel.full
<1> DEFINE new == NewChannel
<1>1. /\ new.blocks = <<>> /\ new.full = FALSE /\ new.frames = <<>> /\ new.numFrames = 0
      /\ new.pending = {} /\ new.confirmed = EmptyFun
  BY DEF NewChannel
<1>2. ChannelTyped(new)
  BY DEF ChannelTyped, Channels, NewChannel
<1>3. DOMAIN EmptyFun = {}
  BY DEF EmptyFun
<1>4. IsInjective(<<>>) /\ Range(<<>>) = {}
  BY DEF IsInjective, Range
<1>5. FramesOk(new)
  BY <1>1, <1>3, <1>4 DEF FramesOk
<1> QED BY <1>1, <1>2, <1>5 DEF ChannelOk

LEMMA NextTxDataOk ==
    ASSUME NEW ch, ChannelOk(ch), HasFrame(ch)
    PROVE  Moved(ch, NextTxData(ch)) /\ NextTxData(ch).pending # {}
<1> DEFINE new == NextTxData(ch)
<1>1. ch.frames \in Seq(Nat) /\ ch.frames # <<>> /\ IsInjective(ch.frames)
  BY ChannelFacts DEF HasFrame, ChannelOk, FramesOk
<1>2. /\ Tail(ch.frames) \in Seq(Nat) /\ Head(ch.frames) \in Nat /\ IsInjective(Tail(ch.frames))
      /\ Head(ch.frames) \in Range(ch.frames)
      /\ Range(Tail(ch.frames)) = Range(ch.frames) \ {Head(ch.frames)}
  BY <1>1, TailFacts
<1>3. /\ ChannelTyped(new) /\ new.blocks = ch.blocks /\ new.full = ch.full
      /\ new.numFrames = ch.numFrames /\ new.confirmed = ch.confirmed
      /\ new.frames = Tail(ch.frames) /\ new.pending = ch.pending \cup {Head(ch.frames)}
  BY <1>2 DEF NextTxData, ChannelOk, ChannelTyped, Channels
<1> HIDE DEF new
<1>4. FramesOk(new)
  BY <1>2, <1>3 DEF ChannelOk, FramesOk
<1> QED BY <1>3, <1>4 DEF Moved, ChannelOk, new

LEMMA FailFrameOk ==
    ASSUME NEW ch, ChannelOk(ch), NEW f \in ch.pending
    PROVE  Moved(ch, FailFrame(ch, f)) /\ HasFrame(FailFrame(ch, f))
<1> DEFINE new == FailFrame(ch, f)
<1>1. ch.frames \in Seq(Nat) /\ IsInjective(ch.frames) /\ f \in Nat /\ f \notin Range(ch.frames)
  BY ChannelFacts DEF ChannelOk, FramesOk
<1>2. /\ Append(ch.frames, f) \in Seq(Nat) /\ Append(ch.frames, f) # <<>>
      /\ IsInjective(Append(ch.frames, f))
      /\ Range(Append(ch.frames, f)) = Range(ch.frames) \cup {f}
  BY <1>1, AppendFacts
<1>3. /\ ChannelTyped(new) /\ new.blocks = ch.blocks /\ new.full = ch.full
      /\ new.numFrames = ch.numFrames /\ new.confirmed = ch.confirmed
      /\ new.frames = Append(ch.frames, f) /\ new.pending = ch.pending \ {f}
  BY <1>2 DEF FailFrame, ChannelOk, ChannelTyped, Channels
<1> HIDE DEF new
<1>4. FramesOk(new)
  BY <1>2, <1>3 DEF ChannelOk, FramesOk
<1> QED BY <1>2, <1>3, <1>4 DEF Moved, ChannelOk, HasFrame, new

LEMMA ConfirmFrameOk ==
    ASSUME NEW ch, ChannelOk(ch), NEW f \in ch.pending, NEW n
    PROVE  Moved(ch, ConfirmFrame(ch, f, n))
<1> DEFINE new == ConfirmFrame(ch, f, n)
           confirmed == [g \in DOMAIN ch.confirmed \cup {f} |-> IF g = f THEN n ELSE ch.confirmed[g]]
           timeout == Earlier(ch.timeout, n + ChannelTimeout - SubSafetyMargin)
<1>1. new = [ch EXCEPT !.pending = @ \ {f}, !.confirmed = confirmed, !.timeout = timeout]
  BY DEF ConfirmFrame, ChannelOk, ChannelTyped, Channels
<1>2. DOMAIN confirmed = DOMAIN ch.confirmed \cup {f}
  OBVIOUS
<1> HIDE DEF new, confirmed, timeout
<1>3. /\ ChannelTyped(new) /\ new.blocks = ch.blocks /\ new.full = ch.full
      /\ new.numFrames = ch.numFrames /\ new.confirmed = confirmed
      /\ new.frames = ch.frames /\ new.pending = ch.pending \ {f}
  BY <1>1 DEF ChannelOk, ChannelTyped, Channels
<1>4. FramesOk(new)
  BY <1>2, <1>3 DEF ChannelOk, FramesOk
<1> QED BY <1>3, <1>4 DEF Moved, ChannelOk, new

LEMMA AddBlocksOk ==
    ASSUME NEW ch, ChannelOk(ch), NEW bs \in Seq(Blocks), NEW full \in BOOLEAN, NEW n
    PROVE  LET new == RegisterL1Block(AddBlocks(ch, bs, full), n)
           IN  ChannelOk(new) /\ new.blocks = ch.blocks \o bs
<1> DEFINE timeout == BlocksTimeout(ch.timeout, bs)
           mid == AddBlocks(ch, bs, full)
           until == IF MaxChannelDuration = 0 THEN mid.timeout
                    ELSE Earlier(mid.timeout, n + MaxChannelDuration)
           late == mid.full \/ (until # 0 /\ n >= until)
           new == RegisterL1Block(mid, n)
<1>1. ch.blocks \o bs \in Seq(Blocks)
  BY ChannelFacts, ConcatFacts
<1>2. mid = [ch EXCEPT !.blocks = ch.blocks \o bs, !.timeout = timeout, !.full = full]
  BY DEF AddBlocks, ChannelOk, ChannelTyped, Channels
<1> HIDE DEF timeout, mid
<1>3. /\ ChannelTyped(mid) /\ mid.blocks = ch.blocks \o bs /\ mid.frames = ch.frames
      /\ mid.numFrames = ch.numFrames /\ mid.pending = ch.pending /\ mid.confirmed = ch.confirmed
  BY <1>1, <1>2 DEF ChannelOk, ChannelTyped, Channels
<1>4. new = [mid EXCEPT !.timeout = until, !.full = late]
  BY <1>3 DEF RegisterL1Block, ChannelTyped, Channels
<1>5. late \in BOOLEAN
  BY Zenon
<1> HIDE DEF until, late, new
<1>6. /\ ChannelTyped(new) /\ new.blocks = ch.blocks \o bs /\ new.frames = ch.frames
      /\ new.numFrames = ch.numFrames /\ new.pending = ch.pending /\ new.confirmed = ch.confirmed
  BY <1>3, <1>4, <1>5 DEF ChannelTyped, Channels
<1>7. FramesOk(new)
  BY <1>6 DEF ChannelOk, FramesOk
<1> QED BY <1>6, <1>7 DEF ChannelOk, new, mid

(* A channel that is full is ended: it has its last frame. *)
LEMMA OutputFramesOk ==
    ASSUME NEW ch, ChannelOk(ch), NEW k \in Nat
    PROVE  LET new == OutputFrames(ch, k)
           IN  /\ ChannelOk(new) /\ new.blocks = ch.blocks /\ new.full = ch.full
               /\ k > 0 => HasFrame(new)
               /\ k = 0 => new.numFrames = ch.numFrames
<1> DEFINE fs == [i \in 1..k |-> ch.numFrames + i - 1]
           new == OutputFrames(ch, k)
<1>1. /\ ch.frames \in Seq(Nat) /\ IsInjective(ch.frames) /\ ch.numFrames \in Nat
      /\ Range(ch.frames) \cup ch.pending \cup DOMAIN ch.confirmed = 0..(ch.numFrames - 1)
  BY ChannelFacts DEF ChannelOk, FramesOk
<1>2. /\ fs \in Seq(Nat) /\ Len(fs) = k
      /\ \A i \in 1..k : fs[i] = ch.numFrames + i - 1
  BY <1>1
<1>3. new = [ch EXCEPT !.frames = ch.frames \o fs, !.numFrames = ch.numFrames + k]
  BY DEF OutputFrames, ChannelOk, ChannelTyped, Channels
<1> HIDE DEF fs, new
<1>4. /\ \A x : x \in Range(fs) <=> \E i \in 1..k : fs[i] = x
      /\ IsInjective(fs) <=> \A i, j \in 1..k : fs[i] = fs[j] => i = j
  BY <1>2, SeqFacts
<1>5. IsInjective(fs)
  BY <1>1, <1>2, <1>4
<1>6. Range(fs) = ch.numFrames..(ch.numFrames + k - 1)
  <2>1. \A x \in Range(fs) : x \in ch.numFrames..(ch.numFrames + k - 1)
    BY <1>1, <1>2, <1>4
  <2>2. ASSUME NEW x \in ch.numFrames..(ch.numFrames + k - 1)
        PROVE  x \in Range(fs)
    <3>1. x - ch.numFrames + 1 \in 1..k
      BY <1>1
    <3>2. fs[x - ch.numFrames + 1] = x
      BY <3>1, <1>1, <1>2
    <3> QED BY <3>1, <3>2, <1>4
  <2> QED BY <2>1, <2>2
<1>7. Range(fs) \cap 0..(ch.numFrames - 1) = {}
  BY <1>1, <1>6
<1>8. /\ ch.frames \o fs \in Seq(Nat) /\ IsInjective(ch.frames \o fs)
      /\ Range(ch.frames \o fs) = Range(ch.frames) \cup Range(fs)
      /\ fs # <<>> => ch.frames \o fs # <<>>
  <2>1. Range(ch.frames) \cap Range(fs) = {}
    BY <1>1, <1>7
  <2> QED BY <2>1, <1>1, <1>2, <1>5, ConcatFacts
<1>9. ch.numFrames + k \in Nat
  BY <1>1
<1>10. /\ ChannelTyped(new) /\ new.blocks = ch.blocks /\ new.frames = ch.frames \o fs
       /\ new.numFrames = ch.numFrames + k /\ new.pending = ch.pending
       /\ new.confirmed = ch.confirmed /\ new.full = ch.full
  BY <1>3, <1>8, <1>9 DEF ChannelOk, ChannelTyped, Channels
<1>11. 0..(ch.numFrames - 1) \cup Range(fs) = 0..(ch.numFrames + k - 1)
  BY <1>1, <1>6
<1>12. FramesOk(new)
  <2>1. IsInjective(new.frames)
    BY <1>8, <1>10
  <2>2. Range(new.frames) \cap new.pending = {}
    BY <1>1, <1>7, <1>8, <1>10 DEF ChannelOk, FramesOk
  <2>3. (Range(new.frames) \cup new.pending) \cap DOMAIN new.confirmed = {}
    BY <1>1, <1>7, <1>8, <1>10 DEF ChannelOk, FramesOk
  <2>4. Range(new.frames) \cup new.pending \cup DOMAIN new.confirmed = 0..(ch.numFrames + k - 1)
    BY <1>1, <1>8, <1>10, <1>11
  <2>5. ch.numFrames + k - 1 = new.numFrames - 1
    <3>1. new.numFrames = ch.numFrames + k /\ ch.numFrames \in Nat
      BY <1>1, <1>10
    <3> QED BY <3>1
  <2> QED BY <2>1, <2>2, <2>3, <2>4, <2>5 DEF FramesOk
<1>13. k > 0 => fs # <<>>
  BY <1>2
<1>14. k = 0 => new.numFrames = ch.numFrames
  BY <1>1, <1>10
<1> QED BY <1>8, <1>10, <1>12, <1>13, <1>14 DEF ChannelOk, HasFrame, new

-----------------------------------------------------------------------------
(* What a step needs to show                                               *)

(* The step changes no channel but c, which becomes new. *)
Updated(c, new) ==
    /\ DOMAIN channels' = DOMAIN channels \cup {c}
    /\ channels'[c] = new
    /\ \A d \in DOMAIN channels : d # c => channels'[d] = channels[d]

(* EndedOnce of one step. *)
EndedStep ==
    \A c \in DOMAIN channels \cap DOMAIN channels' :
        channels[c].full => /\ channels'[c].full
                            /\ channels'[c].blocks = channels[c].blocks
                            /\ channels'[c].numFrames = channels[c].numFrames

LEMMA UpdatedOk ==
    ASSUME ChannelsInv, NEW c \in ChannelIDs, NEW new, ChannelOk(new), Updated(c, new)
    PROVE  ChannelsInv'
  BY DEF ChannelsInv, Updated

LEMMA EndedIfMoved ==
    ASSUME NEW c \in DOMAIN channels, NEW new, Moved(channels[c], new), Updated(c, new)
    PROVE  EndedStep
  BY DEF EndedStep, Updated, Moved

(* A channel that is being submitted or is delivered. *)
Carries(c) == c \in Range(channelQueue) \/ Delivered(c)

(* A block is not lost when the pending blocks and those of the channels   *)
(* that carry some stay accounted for, all but channel c being unchanged.  *)
LEMMA NotLost ==
    ASSUME NoBlockLost, closed' = closed, NEW c, NEW new, Updated(c, new),
           \A d \in DOMAIN channels : d # c => (d \in Range(channelQueue) <=> d \in Range(channelQueue)'),
           \A b \in Range(blocks) :
               b \in Range(blocks)' \/ (b \in Range(new.blocks) /\ Carries(c)'),
           c \in DOMAIN channels /\ Carries(c) =>
               \A b \in Range(channels[c].blocks) :
                   b \in Range(blocks)' \/ (b \in Range(new.blocks) /\ Carries(c)'),
           \A b \in loaded' : b \in loaded \/ b \in Range(blocks)'
    PROVE  NoBlockLost'
<1> SUFFICES ASSUME ~closed, NEW b \in loaded', b \notin Range(blocks)'
             PROVE  \E d \in DOMAIN channels' : b \in Range(channels'[d].blocks) /\ Carries(d)'
  BY DEF NoBlockLost, Carries
<1>1. c \in DOMAIN channels' /\ channels'[c] = new
  BY DEF Updated
<1>2. CASE b \in Range(blocks)
  BY <1>1, <1>2
<1>3. CASE b \notin Range(blocks)
  <2>1. PICK d \in DOMAIN channels : b \in Range(channels[d].blocks) /\ Carries(d)
    BY <1>3 DEF NoBlockLost, Carries
  <2>2. CASE d = c
    BY <2>1, <2>2, <1>1
  <2>3. CASE d # c
    <3>1. d \in DOMAIN channels' /\ channels'[d] = channels[d]
      BY <2>3 DEF Updated
    <3>2. Carries(d)'
      BY <2>1, <2>3, <3>1 DEF Carries, Delivered
    <3> QED BY <2>1, <3>1, <3>2
  <2> QED BY <2>2, <2>3
<1> QED BY <1>2, <1>3

(* removePendingChannel *)
LEMMA RemovedFacts ==
    ASSUME QueueInv, NEW c, RemovePendingChannel(c)
    PROVE  /\ channelQueue' \in Seq(DOMAIN channels) /\ IsInjective(channelQueue')
           /\ Range(channelQueue') = Range(channelQueue) \ {c}
           /\ currentChannel' = IF currentChannel = c THEN NoChannel ELSE currentChannel
<1>1. channelQueue \in Seq(DOMAIN channels) /\ IsInjective(channelQueue)
  BY DEF QueueInv
<1>2. CASE c \notin Range(channelQueue) /\ channelQueue' = channelQueue
  BY <1>1, <1>2 DEF RemovePendingChannel
<1>3. ASSUME NEW i \in DOMAIN channelQueue, channelQueue[i] = c,
             channelQueue' = RemoveAt(channelQueue, i)
      PROVE  /\ channelQueue' \in Seq(DOMAIN channels) /\ IsInjective(channelQueue')
             /\ Range(channelQueue') = Range(channelQueue) \ {c}
  <2>1. i \in 1..Len(channelQueue)
    BY <1>1, SeqFacts
  <2> QED BY <1>1, <1>3, <2>1, RemoveAtFacts
<1> QED BY <1>2, <1>3 DEF RemovePendingChannel

LEMMA QueuedFacts ==
    ASSUME QueueInv
    PROVE  /\ Range(channelQueue) \subseteq DOMAIN channels
           /\ DOMAIN channelQueue = 1..Len(channelQueue)
           /\ \A i \in DOMAIN channelQueue : channelQueue[i] \in Range(channelQueue)
  BY SeqFacts DEF QueueInv

(* Send: the frame goes into a transaction of channel c. *)
LEMMA SendFacts ==
    ASSUME NEW chs, NEW c \in DOMAIN chs, Send(chs, c)
    PROVE  /\ DOMAIN channels' = DOMAIN chs /\ channels'[c] = NextTxData(chs[c])
           /\ \A d \in DOMAIN chs : d # c => channels'[d] = chs[d]
           /\ \A tx \in txChannels' : tx \in txChannels \/ tx[1] = c
<1>1. channels' = [chs EXCEPT ![c] = NextTxData(@)]
  BY DEF Send
<1>2. txChannels' = txChannels \cup {<<c, Head(chs[c].frames)>>}
  BY DEF Send
<1> QED BY <1>1, <1>2

-----------------------------------------------------------------------------
(* The actions                                                             *)

LEMMA AddL2BlockOk ==
    ASSUME IInv, NEW b \in Blocks, AddL2Block(b)
    PROVE  IInv' /\ EndedStep
<1>1. /\ blocks' = Append(blocks, b) /\ loaded' = loaded \cup {b}
      /\ UNCHANGED <<channels, channelQueue, currentChannel, txChannels, closed>>
  BY DEF AddL2Block
<1>2. blocks' \in Seq(Blocks) /\ Range(blocks') = Range(blocks) \cup {b}
  BY <1>1, AppendFacts DEF IInv, QueueInv
<1>3. ChannelsInv' /\ EndedStep
  BY <1>1 DEF IInv, ChannelsInv, EndedStep
<1>4. QueueInv'
  BY <1>1, <1>2 DEF IInv, QueueInv
<1>5. NoStuckChannel'
  BY <1>1 DEF IInv, NoStuckChannel
<1>6. \A c : Delivered(c)' = Delivered(c)
  BY <1>1 DEF Delivered
<1>7. NoBlockLost'
  BY <1>1, <1>2, <1>6 DEF IInv, NoBlockLost
<1> QED BY <1>3, <1>4, <1>5, <1>7 DEF IInv

LEMMA TxDataPendingOk ==
    ASSUME IInv, TxDataPending
    PROVE  IInv' /\ EndedStep
<1>1. PICK i \in WithFrame : Send(channels, channelQueue[i])
  BY DEF TxDataPending
<1> DEFINE c == channelQueue[i]
           new == NextTxData(channels[c])
<1>2. UNCHANGED <<blocks, channelQueue, currentChannel, closed, loaded>>
  BY DEF TxDataPending
<1>3. c \in DOMAIN channels /\ c \in Range(channelQueue) /\ HasFrame(channels[c])
  BY QueuedFacts DEF IInv, WithFrame
<1>4. c \in ChannelIDs /\ ChannelOk(channels[c])
  BY <1>3 DEF IInv, ChannelsInv
<1>5. Moved(channels[c], new) /\ new.pending # {}
  BY <1>3, <1>4, NextTxDataOk
<1> HIDE DEF c
<1>6. Send(channels, c)
  BY <1>1 DEF c
<1>7. Updated(c, new) /\ \A tx \in txChannels' : tx \in txChannels \/ tx[1] = c
  BY <1>3, <1>6, SendFacts DEF Updated
<1> HIDE DEF new
<1>8. ChannelsInv' /\ EndedStep
  BY <1>3, <1>4, <1>5, <1>7, UpdatedOk, EndedIfMoved DEF IInv, Moved
<1>9. DOMAIN channels' = DOMAIN channels
  BY <1>3, <1>7 DEF Updated
<1>10. QueueInv'
  BY <1>2, <1>3, <1>7, <1>9 DEF IInv, QueueInv
<1>11. NoStuckChannel'
  <2>1. Range(channelQueue) \subseteq DOMAIN channels
    BY QueuedFacts DEF IInv
  <2>2. channels'[c].full = channels[c].full /\ channels'[c].pending # {}
    BY <1>5, <1>7 DEF Moved, Updated
  <2>3. \A d \in Range(channelQueue) : d # c => channels'[d] = channels[d]
    BY <2>1, <1>7 DEF Updated
  <2> QED BY <2>2, <2>3, <1>2 DEF IInv, NoStuckChannel
<1>12. NoBlockLost'
  BY <1>2, <1>3, <1>5, <1>7, NotLost DEF IInv, Moved, Carries
<1> QED BY <1>8, <1>10, <1>11, <1>12 DEF IInv

LEMMA TakenFacts ==
    ASSUME blocks \in Seq(Blocks), NEW n \in 0..Len(blocks)
    PROVE  /\ SubSeq(blocks, 1, n) \in Seq(Blocks) /\ Taken(n) \in Seq(Blocks)
           /\ \A b \in Range(blocks) : b \in Range(SubSeq(blocks, 1, n)) \/ b \in Range(Taken(n))
<1> DEFINE m == n + 1
           len == Len(blocks)
<1>1. len \in Nat /\ \A x : x \in Range(blocks) <=> \E i \in 1..len : blocks[i] = x
  BY SeqFacts
<1>2. 1 \in 1..(len + 1) /\ m \in 1..(len + 1) /\ len \in 0..len
  BY <1>1
<1>3. Taken(n) = SubSeq(blocks, m, len)
  BY DEF Taken
<1>4. \A i \in 1..len : i \in 1..n \/ i \in m..len
  BY <1>1
<1> HIDE DEF m
<1>5. /\ SubSeq(blocks, 1, n) \in Seq(Blocks)
      /\ \A x : x \in Range(SubSeq(blocks, 1, n)) <=> \E i \in 1..n : blocks[i] = x
  BY <1>2, SubSeqFacts
<1>6. /\ SubSeq(blocks, m, len) \in Seq(Blocks)
      /\ \A x : x \in Range(SubSeq(blocks, m, len)) <=> \E i \in m..len : blocks[i] = x
  BY <1>2, SubSeqFacts
<1> QED BY <1>1, <1>3, <1>4, <1>5, <1>6

LEMMA TxDataBuildOk ==
    ASSUME IInv, TxDataBuild
    PROVE  IInv' /\ EndedStep
<1> DEFINE Old(c) == IF NeedsChannel THEN NewChannel ELSE channels[c]
           New(c, n, fills) ==
               RegisterL1Block(AddBlocks(Old(c), SubSeq(blocks, 1, n), fills), l1Head)
<1>1. PICK c \in IF NeedsChannel THEN ChannelIDs \ DOMAIN channels ELSE {currentChannel},
           n \in 0..Len(blocks), fills \in BOOLEAN :
              /\ \E k \in FrameCounts(New(c, n, fills)) :
                   LET chs == With(c, OutputFrames(New(c, n, fills), k))
                   IN  IF k > 0 THEN Send(chs, c)
                       ELSE channels' = chs /\ UNCHANGED <<txChannels, inflight>>
              /\ blocks' = Taken(n)
              /\ currentChannel' = c
              /\ channelQueue' = IF NeedsChannel THEN Append(channelQueue, c) ELSE channelQueue
  BY DEF TxDataBuild
<1> DEFINE old == Old(c)
           new == New(c, n, fills)
<1>k. PICK k \in FrameCounts(new) :
         LET chs == With(c, OutputFrames(new, k))
         IN  IF k > 0 THEN Send(chs, c)
             ELSE channels' = chs /\ UNCHANGED <<txChannels, inflight>>
  BY <1>1
<1> DEFINE out == OutputFrames(new, k)
           end == IF k > 0 THEN NextTxData(out) ELSE out
<1>2. closed' = closed /\ loaded' = loaded
  BY DEF TxDataBuild
<1>3. /\ blocks \in Seq(Blocks) /\ channelQueue \in Seq(DOMAIN channels)
      /\ IsInjective(channelQueue) /\ Len(blocks) \in Nat
  BY SeqFacts DEF IInv, QueueInv
<1>4. /\ c \in ChannelIDs /\ ChannelOk(old) /\ ~old.full
      /\ ~NeedsChannel => c = currentChannel /\ c \in DOMAIN channels /\ c \in Range(channelQueue)
                           /\ old = channels[c]
      /\ NeedsChannel => c \notin DOMAIN channels
  <2>1. CASE NeedsChannel
    BY <2>1, NewChannelOk
  <2>2. CASE ~NeedsChannel
    <3>1. c = currentChannel /\ c # NoChannel /\ ~channels[c].full
      BY <2>2, <1>1 DEF NeedsChannel
    <3>2. c \in Range(channelQueue) /\ c \in DOMAIN channels
      BY <3>1, QueuedFacts DEF IInv, NoStuckChannel
    <3> QED BY <2>2, <3>1, <3>2 DEF IInv, ChannelsInv
  <2> QED BY <2>1, <2>2
<1>5. /\ SubSeq(blocks, 1, n) \in Seq(Blocks) /\ Taken(n) \in Seq(Blocks)
      /\ \A b \in Range(blocks) : b \in Range(SubSeq(blocks, 1, n)) \/ b \in Range(Taken(n))
  BY <1>3, TakenFacts
<1>6. ChannelOk(new) /\ new.blocks = old.blocks \o SubSeq(blocks, 1, n)
  BY <1>4, <1>5, AddBlocksOk
<1> HIDE DEF Old, New, old, new
<1>7. \A b : b \in Range(new.blocks) <=> b \in Range(old.blocks) \/ b \in Range(SubSeq(blocks, 1, n))
  <2>1. old.blocks \in Seq(Blocks)
    BY <1>4, ChannelFacts
  <2>2. \A t \in Seq(Blocks) : Range(old.blocks \o t) = Range(old.blocks) \cup Range(t)
    BY <2>1, ConcatFacts
  <2>3. Range(new.blocks) = Range(old.blocks) \cup Range(SubSeq(blocks, 1, n))
    BY <1>5, <1>6, <2>2
  <2> QED BY <2>3
<1>8. k \in Nat /\ (new.full => k > 0)
  <2>1. MaxFrames \in Nat /\ new.numFrames \in Nat
    BY <1>6, ChannelFacts, ChannelManagerAssumption
  <2>2. k \in IF new.full THEN 1..(MaxFrames - new.numFrames) ELSE 0..(MaxFrames - 1 - new.numFrames)
    BY DEF FrameCounts
  <2> QED BY <2>1, <2>2
<1>9. /\ Updated(c, end) /\ \A tx \in txChannels' : tx \in txChannels \/ tx[1] = c
  <2> DEFINE chs == With(c, out)
  <2>1. /\ DOMAIN chs = DOMAIN channels \cup {c} /\ chs[c] = out
        /\ \A d \in DOMAIN channels : d # c => chs[d] = channels[d]
    BY DEF With
  <2>2. IF k > 0 THEN Send(chs, c) ELSE channels' = chs /\ UNCHANGED txChannels
    BY <1>k
  <2> HIDE DEF chs, out
  <2>3. CASE k > 0
    <3>1. /\ DOMAIN channels' = DOMAIN chs /\ channels'[c] = NextTxData(chs[c])
          /\ \A d \in DOMAIN chs : d # c => channels'[d] = chs[d]
          /\ \A tx \in txChannels' : tx \in txChannels \/ tx[1] = c
      BY <2>1, <2>2, <2>3, SendFacts
    <3> QED BY <2>1, <2>3, <3>1 DEF Updated
  <2>4. CASE ~(k > 0)
    BY <2>1, <2>2, <2>4 DEF Updated
  <2> QED BY <2>3, <2>4
<1>10. /\ ChannelOk(end) /\ end.blocks = new.blocks /\ (end.full => end.pending # {})
  <2>1. /\ ChannelOk(out) /\ out.blocks = new.blocks /\ out.full = new.full
        /\ k > 0 => HasFrame(out)
    BY <1>6, <1>8, OutputFramesOk
  <2> HIDE DEF out
  <2>2. CASE k > 0
    <3>1. Moved(out, NextTxData(out)) /\ NextTxData(out).pending # {}
      BY <2>1, <2>2, NextTxDataOk
    <3> QED BY <2>1, <2>2, <3>1 DEF Moved
  <2>3. CASE ~(k > 0)
    BY <2>1, <2>3, <1>8
  <2> QED BY <2>2, <2>3
<1> HIDE DEF end
<1>11. ChannelsInv'
  BY <1>4, <1>9, <1>10, UpdatedOk DEF IInv
<1>12. EndedStep
  BY <1>4, <1>9 DEF EndedStep, Updated
<1>13. /\ channelQueue' \in Seq(DOMAIN channels') /\ IsInjective(channelQueue')
       /\ Range(channelQueue') = Range(channelQueue) \cup {c}
  <2>1. DOMAIN channels' = DOMAIN channels \cup {c} /\ Range(channelQueue) \subseteq DOMAIN channels
    BY <1>9, QueuedFacts DEF IInv, Updated
  <2>2. channelQueue \in Seq(DOMAIN channels')
    BY <2>1, <1>3
  <2>3. CASE NeedsChannel
    <3>1. channelQueue' = Append(channelQueue, c) /\ c \notin Range(channelQueue)
      BY <1>1, <1>4, <2>1, <2>3
    <3> QED BY <3>1, <2>1, <2>2, <1>3, AppendFacts
  <2>4. CASE ~NeedsChannel
    BY <2>2, <2>4, <1>1, <1>3, <1>4
  <2> QED BY <2>3, <2>4
<1>14. QueueInv'
  BY <1>1, <1>2, <1>5, <1>9, <1>13 DEF IInv, QueueInv, Updated
<1>15. NoStuckChannel'
  <2>1. currentChannel' = c /\ channels'[c] = end
    BY <1>1, <1>9 DEF Updated
  <2>2. ChannelOk(end) => end.full \in BOOLEAN
    BY ChannelFacts
  <2>3. ASSUME NEW d \in Range(channelQueue), d # c
        PROVE  /\ channels'[d] = channels[d] /\ channels[d].full
               /\ HasFrame(channels[d]) \/ channels[d].pending # {}
    <3>1. channels'[d] = channels[d]
      BY <2>3, <1>9, QueuedFacts DEF IInv, Updated
    <3>2. d = currentChannel => channels[d].full
      <4> SUFFICES ASSUME d = currentChannel, ~channels[d].full PROVE FALSE
        OBVIOUS
      <4>1. NeedsChannel
        BY <2>3, <1>4
      <4>2. currentChannel # NoChannel
        BY QueuedFacts, ChannelManagerAssumption DEF IInv, ChannelsInv
      <4> QED BY <4>1, <4>2 DEF NeedsChannel
    <3> QED BY <3>1, <3>2 DEF IInv, NoStuckChannel
  <2> QED BY <2>1, <2>2, <2>3, <1>10, <1>13 DEF NoStuckChannel
<1>16. NoBlockLost'
  <2>1. Carries(c)'
    BY <1>13 DEF Carries
  <2>2. \A d \in DOMAIN channels : d # c => (d \in Range(channelQueue) <=> d \in Range(channelQueue'))
    BY <1>13
  <2>3. \A b \in Range(blocks) : b \in Range(blocks') \/ b \in Range(end.blocks)
    BY <1>1, <1>5, <1>7, <1>10
  <2>4. c \in DOMAIN channels => \A b \in Range(channels[c].blocks) : b \in Range(end.blocks)
    BY <1>4, <1>7, <1>10
  <2> QED BY <2>1, <2>2, <2>3, <2>4, <1>2, <1>9, NotLost DEF IInv
<1> QED BY <1>11, <1>12, <1>14, <1>15, <1>16 DEF IInv

(* A step that leaves the blocks and the channels alone. *)
LEMMA StillOk ==
    ASSUME IInv, txChannels' \subseteq txChannels,
           UNCHANGED <<blocks, channels, channelQueue, currentChannel, closed, loaded>>
    PROVE  IInv' /\ EndedStep
<1>1. ChannelsInv' /\ QueueInv' /\ EndedStep
  BY DEF IInv, ChannelsInv, QueueInv, EndedStep
<1>2. NoStuckChannel'
  BY DEF IInv, NoStuckChannel
<1>3. NoBlockLost'
  <2>1. \A c : Delivered(c)' = Delivered(c)
    BY DEF Delivered
  <2> QED BY <2>1 DEF IInv, NoBlockLost
<1> QED BY <1>1, <1>2, <1>3 DEF IInv

(* The fate of a transaction of channel c is known: c becomes new and may  *)
(* leave the queue; if it stays it is not stuck.                           *)
LEMMA FateOk ==
    ASSUME IInv, NEW c \in DOMAIN channels, NEW new, Moved(channels[c], new), Updated(c, new),
           blocks' \in Seq(Blocks), closed' = closed, txChannels' \subseteq txChannels,
           RemovePendingChannel(c) \/ UNCHANGED <<channelQueue, currentChannel>>,
           c \in Range(channelQueue') => ~new.full \/ HasFrame(new) \/ new.pending # {}
    PROVE  /\ ChannelsInv' /\ QueueInv' /\ NoStuckChannel' /\ EndedStep
           /\ \A d \in DOMAIN channels :
                  d # c => (d \in Range(channelQueue) <=> d \in Range(channelQueue'))
<1>1. QueueInv /\ NoStuckChannel /\ c \in ChannelIDs /\ ChannelOk(channels[c])
  BY DEF IInv, ChannelsInv
<1>2. /\ channelQueue' \in Seq(DOMAIN channels) /\ IsInjective(channelQueue')
      /\ \/ /\ Range(channelQueue') = Range(channelQueue) \ {c}
            /\ currentChannel' = IF currentChannel = c THEN NoChannel ELSE currentChannel
         \/ channelQueue' = channelQueue /\ currentChannel' = currentChannel
  <2>1. CASE RemovePendingChannel(c)
    BY <2>1, <1>1, RemovedFacts
  <2>2. CASE UNCHANGED <<channelQueue, currentChannel>>
    BY <2>2, <1>1 DEF QueueInv
  <2> QED BY <2>1, <2>2
<1>3. ChannelsInv' /\ EndedStep
  BY <1>1, UpdatedOk, EndedIfMoved DEF IInv, Moved
<1>4. DOMAIN channels' = DOMAIN channels
  BY DEF Updated
<1>5. QueueInv'
  BY <1>1, <1>2, <1>4 DEF QueueInv
<1>6. \A d : d # c => (d \in Range(channelQueue) <=> d \in Range(channelQueue'))
  BY <1>2
<1>7. NoStuckChannel'
  <2>1. currentChannel' # NoChannel => currentChannel' \in Range(channelQueue')
    BY <1>1, <1>2 DEF NoStuckChannel
  <2>2. ASSUME NEW d \in Range(channelQueue'), d # c
        PROVE  \/ d = currentChannel' /\ ~channels'[d].full
               \/ channels'[d].full /\ (HasFrame(channels'[d]) \/ channels'[d].pending # {})
    <3>1. d \in Range(channelQueue) /\ channels'[d] = channels[d]
      BY <2>2, <1>1, <1>6, QueuedFacts DEF Updated
    <3>2. d = currentChannel => d = currentChannel'
      BY <2>2, <1>2
    <3> QED BY <3>1, <3>2, <1>1 DEF NoStuckChannel
  <2>3. ASSUME c \in Range(channelQueue')
        PROVE  \/ c = currentChannel' /\ ~channels'[c].full
               \/ channels'[c].full /\ (HasFrame(channels'[c]) \/ channels'[c].pending # {})
    <3>1. channelQueue' = channelQueue /\ currentChannel' = currentChannel
      BY <2>3, <1>2
    <3>2. channels'[c] = new /\ new.full = channels[c].full
      BY DEF Updated, Moved
    <3>3. channels[c].full \/ c = currentChannel
      BY <2>3, <3>1, <1>1 DEF NoStuckChannel
    <3> QED BY <2>3, <3>1, <3>2, <3>3
  <2> QED BY <2>1, <2>2, <2>3 DEF NoStuckChannel
<1> QED BY <1>3, <1>5, <1>6, <1>7

LEMMA TxFailedOk ==
    ASSUME IInv, NEW tx, TxFailed(tx)
    PROVE  IInv' /\ EndedStep
<1> DEFINE c == tx[1]
           f == tx[2]
           new == IF f \in channels[c].pending THEN FailFrame(channels[c], f) ELSE channels[c]
<1>1. UNCHANGED <<blocks, closed, loaded>>
  BY DEF TxFailed
<1>2. CASE tx \notin txChannels
  BY <1>1, <1>2, StillOk DEF TxFailed
<1>3. CASE tx \in txChannels
  <2>1. c \in DOMAIN channels /\ ChannelOk(channels[c])
    BY <1>3 DEF IInv, QueueInv, ChannelsInv
  <2>2. Moved(channels[c], new) /\ (f \in channels[c].pending => HasFrame(new))
    <3>1. CASE f \in channels[c].pending
      BY <3>1, <2>1, FailFrameOk
    <3>2. CASE f \notin channels[c].pending
      BY <3>2, <2>1 DEF Moved
    <3> QED BY <3>1, <3>2
  <2>3. /\ txChannels' = txChannels \ {tx}
        /\ channels' = [channels EXCEPT ![c] = new]
        /\ IF closed /\ NoneSubmitted(channels'[c])
           THEN RemovePendingChannel(c)
           ELSE UNCHANGED <<channelQueue, currentChannel>>
    BY <1>3 DEF TxFailed
  <2> HIDE DEF c, f
  <2>4. f \notin channels[c].pending => new = channels[c]
    OBVIOUS
  <2> HIDE DEF new
  <2>5. Updated(c, new)
    BY <2>1, <2>3 DEF Updated
  <2>6. RemovePendingChannel(c) \/ UNCHANGED <<channelQueue, currentChannel>>
    BY <2>3
  <2>7. c \in Range(channelQueue') => ~new.full \/ HasFrame(new) \/ new.pending # {}
    <3>1. QueueInv /\ NoStuckChannel
      BY DEF IInv
    <3>2. CASE RemovePendingChannel(c)
      BY <3>1, <3>2, RemovedFacts
    <3>3. CASE UNCHANGED <<channelQueue, currentChannel>>
      BY <3>1, <3>3, <2>2, <2>4 DEF NoStuckChannel
    <3> QED BY <2>6, <3>2, <3>3
  <2>8. /\ ChannelsInv' /\ QueueInv' /\ NoStuckChannel' /\ EndedStep
        /\ \A d \in DOMAIN channels :
               d # c => (d \in Range(channelQueue) <=> d \in Range(channelQueue'))
    <3>1. blocks' \in Seq(Blocks) /\ txChannels' \subseteq txChannels
      BY <1>1, <2>3 DEF IInv, QueueInv
    <3> QED BY <3>1, <2>1, <2>2, <2>5, <2>6, <2>7, <1>1, FateOk
  <2>9. NoBlockLost'
    <3>1. CASE closed
      BY <3>1, <1>1 DEF NoBlockLost
    <3>2. CASE ~closed
      <4>1. channelQueue' = channelQueue /\ channels'[c] = new /\ new.blocks = channels[c].blocks
        BY <3>2, <2>2, <2>3, <2>5 DEF Updated, Moved
      <4>2. Carries(c) => Carries(c)'
        BY <4>1, <2>4 DEF Carries, Delivered, IsFullySubmitted
      <4> QED BY <4>1, <4>2, <2>5, <2>8, <1>1, NotLost DEF IInv
    <3> QED BY <3>1, <3>2
  <2> QED BY <2>8, <2>9 DEF IInv
<1> QED BY <1>2, <1>3

LEMMA TxConfirmedOk ==
    ASSUME IInv, NEW tx, NEW n, TxConfirmed(tx, n)
    PROVE  IInv' /\ EndedStep
<1> DEFINE c == tx[1]
           f == tx[2]
           new == ConfirmFrame(channels[c], f, n)
<1>1. txChannels' \subseteq txChannels /\ UNCHANGED <<closed, loaded>>
  BY DEF TxConfirmed
<1>2. CASE ~(tx \in txChannels /\ f \in channels[c].pending)
  <2>1. UNCHANGED <<channels, blocks, channelQueue, currentChannel>>
    BY <1>2 DEF TxConfirmed
  <2> QED BY <2>1, <1>1, StillOk
<1>3. CASE tx \in txChannels /\ f \in channels[c].pending
  <2>1. c \in DOMAIN channels /\ ChannelOk(channels[c])
    BY <1>3 DEF IInv, QueueInv, ChannelsInv
  <2>2. Moved(channels[c], new)
    BY <1>3, <2>1, ConfirmFrameOk
  <2>3. /\ channels' = [channels EXCEPT ![c] = new]
        /\ blocks' = IF IsTimedOut(new) THEN Requeued(new) ELSE blocks
        /\ IF IsTimedOut(new) \/ IsFullySubmitted(new)
           THEN RemovePendingChannel(c)
           ELSE UNCHANGED <<channelQueue, currentChannel>>
    BY <1>3 DEF TxConfirmed
  <2> HIDE DEF c, f, new
  <2>4. Updated(c, new)
    BY <2>1, <2>3 DEF Updated
  <2>5. /\ blocks' \in Seq(Blocks)
        /\ \A b \in Range(blocks) : b \in Range(blocks')
        /\ IsTimedOut(new) => \A b \in Range(new.blocks) : b \in Range(blocks')
    <3>1. blocks \in Seq(Blocks) /\ new.blocks \in Seq(Blocks)
      BY <2>2, ChannelFacts DEF IInv, QueueInv, Moved
    <3>2. /\ Requeued(new) \in Seq(Blocks)
          /\ Range(Requeued(new)) = Range(new.blocks) \cup Range(blocks)
      BY <3>1, ConcatFacts DEF Requeued
    <3> QED BY <2>3, <3>1, <3>2
  <2>6. /\ RemovePendingChannel(c) \/ UNCHANGED <<channelQueue, currentChannel>>
        /\ IsTimedOut(new) \/ IsFullySubmitted(new) => c \notin Range(channelQueue')
        /\ IsTimedOut(new) \/ IsFullySubmitted(new) \/ channelQueue' = channelQueue
    BY <2>3, RemovedFacts DEF IInv
  <2>7. c \in Range(channelQueue') => ~new.full \/ HasFrame(new) \/ new.pending # {}
    BY <2>6 DEF IsFullySubmitted, HasFrame
  <2>8. /\ ChannelsInv' /\ QueueInv' /\ NoStuckChannel' /\ EndedStep
        /\ \A d \in DOMAIN channels :
               d # c => (d \in Range(channelQueue) <=> d \in Range(channelQueue'))
    BY <2>1, <2>2, <2>4, <2>5, <2>6, <2>7, <1>1, FateOk
  <2>9. NoBlockLost'
    <3>1. channels'[c] = new /\ new.blocks = channels[c].blocks
      BY <2>2, <2>4 DEF Updated, Moved
    <3>2. Carries(c) => c \in Range(channelQueue)
      BY <1>3 DEF Carries, Delivered, IsFullySubmitted, c, f
    <3>3. c \in Range(channelQueue) => IsTimedOut(new) \/ Carries(c)'
      BY <3>1, <2>6 DEF Carries, Delivered
    <3>4. Carries(c) => \A b \in Range(channels[c].blocks) :
                            b \in Range(blocks') \/ (b \in Range(new.blocks) /\ Carries(c)')
      BY <3>1, <3>2, <3>3, <2>5
    <3> QED BY <3>4, <2>4, <2>5, <2>8, <1>1, NotLost DEF IInv
  <2> QED BY <2>8, <2>9 DEF IInv
<1> QED BY <1>2, <1>3

(* What the scan of Close leaves is a part of the queue, in its order. *)
LEMMA CloseQueue ==
    ASSUME QueueInv, Close
    PROVE  /\ channelQueue' \in Seq(DOMAIN channels) /\ IsInjective(channelQueue')
           /\ Range(channelQueue') \subseteq Range(channelQueue)
<1> DEFINE q == channelQueue
           len == Len(q)
<1>1. /\ q \in Seq(DOMAIN channels) /\ len \in Nat /\ DOMAIN q = 1..len
      /\ \A i \in 1..len : q[i] \in DOMAIN channels /\ q[i] \in Range(q)
      /\ \A i, j \in 1..len : q[i] = q[j] => i = j
  BY SeqFacts, QueuedFacts DEF QueueInv
<1>2. PICK drop \in SUBSET DOMAIN q :
         \E at \in [1..(len - Cardinality(drop)) -> DOMAIN q \ drop] :
            /\ \A i, j \in DOMAIN at : i < j => at[i] < at[j]
            /\ q' = [i \in DOMAIN at |-> q[at[i]]]
  BY DEF Close
<1> DEFINE m == len - Cardinality(drop)
<1>3. PICK at \in [1..m -> DOMAIN q \ drop] :
            /\ \A i, j \in DOMAIN at : i < j => at[i] < at[j]
            /\ q' = [i \in DOMAIN at |-> q[at[i]]]
  BY <1>2
<1>4. m \in Nat
  <2>1. 1 \in Int /\ len \in Int
    BY <1>1
  <2>2. IsFiniteSet(1..len) /\ Cardinality(1..len) = IF 1 > len THEN 0 ELSE len - 1 + 1
    BY <2>1, FS_Interval, Zenon
  <2>3. /\ IsFiniteSet(drop) /\ Cardinality(drop) <= Cardinality(1..len)
    BY <2>2, <1>1, FS_Subset
  <2>4. Cardinality(drop) \in Nat
    BY <2>3, FS_CardinalityType
  <2> QED BY <1>1, <2>2, <2>3, <2>4
<1> HIDE DEF m
<1>5. \A i \in 1..m : at[i] \in 1..len
  BY <1>1, <1>3
<1>6. q' = [i \in 1..m |-> q[at[i]]]
  BY <1>3
<1>7. q' \in [1..m -> DOMAIN channels]
  BY <1>1, <1>5, <1>6
<1>8. q' \in Seq(DOMAIN channels) /\ Len(q') = m
  BY <1>4, <1>7
<1>9. /\ \A x : x \in Range(q') <=> \E i \in 1..m : q'[i] = x
      /\ IsInjective(q') <=> \A i, j \in 1..m : q'[i] = q'[j] => i = j
  BY <1>8, SeqFacts
<1>10. \A i \in 1..m : q'[i] = q[at[i]]
  BY <1>6
<1>11. \A i, j \in 1..m : i < j => at[i] < at[j]
  BY <1>3
<1>12. IsInjective(q')
  <2> SUFFICES ASSUME NEW i \in 1..m, NEW j \in 1..m, q'[i] = q'[j] PROVE i = j
    BY <1>9
  <2>1. at[i] = at[j] /\ at[i] \in Nat
    BY <1>1, <1>5, <1>10
  <2>2. ~(i < j) /\ ~(j < i)
    BY <2>1, <1>11
  <2> QED BY <2>2, <1>4
<1>13. Range(q') \subseteq Range(q)
  BY <1>1, <1>5, <1>9, <1>10
<1> QED BY <1>8, <1>12, <1>13

LEMMA CloseOk ==
    ASSUME IInv, Close
    PROVE  IInv' /\ EndedStep
<1> DEFINE c == currentChannel
<1>1. /\ closed' = TRUE /\ UNCHANGED <<blocks, txChannels, loaded>>
      /\ currentChannel' = IF c \in Range(channelQueue') THEN c ELSE NoChannel
  BY DEF Close
<1>2. /\ channelQueue' \in Seq(DOMAIN channels) /\ IsInjective(channelQueue')
      /\ Range(channelQueue') \subseteq Range(channelQueue)
  BY CloseQueue DEF IInv
<1>3. Range(channelQueue) \subseteq DOMAIN channels /\ NoChannel \notin DOMAIN channels
  BY QueuedFacts, ChannelManagerAssumption DEF IInv, ChannelsInv
<1>4. NoBlockLost'
  BY <1>1 DEF NoBlockLost
<1>5. CASE currentChannel' # NoChannel /\ ~channels[c].full
  <2> DEFINE ch == [channels[c] EXCEPT !.full = TRUE]
  <2>1. PICK k \in FrameCounts(ch) : channels' = [channels EXCEPT ![c] = OutputFrames(ch, k)]
    BY <1>5 DEF Close
  <2>2. c \in Range(channelQueue') /\ currentChannel' = c
    BY <1>1, <1>5
  <2>3. c \in DOMAIN channels /\ c \in ChannelIDs /\ ChannelOk(channels[c])
    BY <2>2, <1>2, <1>3 DEF IInv, ChannelsInv
  <2>4. ChannelOk(ch) /\ ch.full = TRUE
    <3>1. /\ ChannelTyped(ch) /\ ch.full = TRUE /\ ch.numFrames = channels[c].numFrames
          /\ ch.frames = channels[c].frames /\ ch.pending = channels[c].pending
          /\ ch.confirmed = channels[c].confirmed
      BY <2>3 DEF ChannelOk, ChannelTyped, Channels
    <3> HIDE DEF ch
    <3> QED BY <3>1, <2>3 DEF ChannelOk, FramesOk
  <2> HIDE DEF ch
  <2>5. k \in Nat /\ k > 0
    <3>1. MaxFrames \in Nat /\ ch.numFrames \in Nat
      BY <2>4, ChannelFacts, ChannelManagerAssumption
    <3>2. k \in 1..(MaxFrames - ch.numFrames)
      BY <2>4 DEF FrameCounts
    <3> QED BY <3>1, <3>2
  <2> DEFINE new == OutputFrames(ch, k)
  <2>6. ChannelOk(new) /\ new.full = TRUE /\ HasFrame(new)
    BY <2>4, <2>5, OutputFramesOk
  <2>7. channels' = [channels EXCEPT ![c] = new]
    BY <2>1
  <2> HIDE DEF new
  <2>8. Updated(c, new) /\ DOMAIN channels' = DOMAIN channels
    BY <2>3, <2>7 DEF Updated
  <2>9. ChannelsInv'
    BY <2>3, <2>6, <2>8, UpdatedOk DEF IInv
  <2>10. EndedStep
    BY <1>5, <2>8 DEF EndedStep, Updated
  <2>11. QueueInv'
    BY <1>1, <1>2, <2>8 DEF IInv, QueueInv
  <2>12. NoStuckChannel'
    BY <2>2, <2>6, <2>8, <1>2, <1>3 DEF IInv, NoStuckChannel, Updated
  <2> QED BY <2>9, <2>10, <2>11, <2>12, <1>4 DEF IInv
<1>6. CASE ~(currentChannel' # NoChannel /\ ~channels[c].full)
  <2>1. channels' = channels
    BY <1>6 DEF Close
  <2>2. ChannelsInv' /\ EndedStep
    BY <2>1 DEF IInv, ChannelsInv, EndedStep
  <2>3. QueueInv'
    BY <1>1, <1>2, <2>1 DEF IInv, QueueInv
  <2>4. NoStuckChannel'
    BY <2>1, <1>1, <1>2, <1>3, <1>6 DEF IInv, NoStuckChannel
  <2> QED BY <2>2, <2>3, <2>4, <1>4 DEF IInv
<1> QED BY <1>5, <1>6

(* A manager without channels. *)
EmptyManager ==
    /\ blocks = <<>> /\ channels = EmptyFun /\ channelQueue = <<>> /\ currentChannel = NoChannel
    /\ txChannels = {} /\ closed = FALSE /\ loaded = {}

LEMMA EmptyOk == EmptyManager => IInv
<1> SUFFICES ASSUME EmptyManager PROVE IInv
  OBVIOUS
<1>1. DOMAIN channels = {}
  BY DEF EmptyManager, EmptyFun
<1>2. IsInjective(channelQueue) /\ Range(channelQueue) = {}
  BY DEF EmptyManager, IsInjective, Range
<1>3. ChannelsInv /\ NoBlockLost
  BY <1>1 DEF EmptyManager, ChannelsInv, NoBlockLost
<1>4. QueueInv
  <2>1. closed \in BOOLEAN
    BY Zenon DEF EmptyManager
  <2>2. blocks \in Seq(Blocks) /\ channelQueue \in Seq(DOMAIN channels)
    BY EmptySeq DEF EmptyManager
  <2>3. \A tx \in txChannels : tx[1] \in DOMAIN channels
    BY DEF EmptyManager
  <2> QED BY <2>1, <2>2, <2>3, <1>2 DEF QueueInv
<1>5. NoStuckChannel
  BY <1>2 DEF EmptyManager, NoStuckChannel
<1> QED BY <1>3, <1>4, <1>5 DEF IInv

LEMMA InitOk == Init => IInv
  BY EmptyOk DEF Init, EmptyManager

LEMMA ClearOk ==
    ASSUME Clear
    PROVE  IInv' /\ EndedStep
<1>1. EmptyManager'
  BY DEF Clear, EmptyManager
<1>2. IInv'
  BY <1>1, EmptyOk, PTL
<1>3. DOMAIN channels' = {}
  BY DEF Clear, EmptyFun
<1> QED BY <1>2, <1>3 DEF EndedStep

LEMMA StepOk ==
    ASSUME IInv, [Next]_vars
    PROVE  IInv' /\ EndedStep
<1>1. CASE Next
  <2>1. CASE \E b \in Blocks : ~closed /\ AddL2Block(b)
    BY <2>1, AddL2BlockOk
  <2>2. CASE TxDataPending
    BY <2>2, TxDataPendingOk
  <2>3. CASE TxDataBuild
    BY <2>3, TxDataBuildOk
  <2>4. CASE \E tx \in DOMAIN inflight : TxFailed(tx)
    BY <2>4, TxFailedOk
  <2>5. CASE \E tx \in DOMAIN inflight : \E n \in (inflight[tx] + 1)..l1Head : TxConfirmed(tx, n)
    BY <2>5, TxConfirmedOk
  <2>6. CASE Close
    BY <2>6, CloseOk
  <2>7. CASE Clear
    BY <2>7, ClearOk
  <2>8. CASE NewL1Head
    BY <2>8, StillOk DEF NewL1Head, managerVars
  <2> QED BY <1>1, <2>1, <2>2, <2>3, <2>4, <2>5, <2>6, <2>7, <2>8 DEF Next
<1>2. CASE UNCHANGED vars
  BY <1>2, StillOk DEF vars, managerVars
<1> QED BY <1>1, <1>2

-----------------------------------------------------------------------------
(* The results                                                             *)

(* The inductive invariant holds in every reachable state. *)
THEOREM Inductive == Spec => []IInv
<1>1. IInv /\ [Next]_vars => IInv'
  BY StepOk
<1> QED BY <1>1, InitOk, PTL DEF Spec

(* Frames are conserved: each frame of each channel is queued, in an open  *)
(* transaction or confirmed, in exactly one of these, whatever the         *)
(* transactions' fates (NextTxData, TxFailed, TxConfirmed of channel.go).  *)
THEOREM FramesConserved == Spec => []FrameConservation
<1>1. IInv => FrameConservation
  BY DEF IInv, ChannelsInv, ChannelOk, FramesOk, FrameConservation
<1> QED BY <1>1, Inductive, PTL

(* No block handed to an open channel manager is lost, also when a channel *)
(* times out and removePendingChannel drops it.                            *)
THEOREM BlocksKept == Spec => []NoBlockLost
<1>1. IInv => NoBlockLost
  BY DEF IInv
<1> QED BY <1>1, Inductive, PTL

(* No queued channel is stuck: removePendingChannel and Close leave only   *)
(* the open channel and channels with a frame to send or in flight.        *)
THEOREM ChannelsAdvance == Spec => []NoStuckChannel
<1>1. IInv => NoStuckChannel
  BY DEF IInv
<1> QED BY <1>1, Inductive, PTL

(* A channel that is full takes no block and puts out no frame any more,   *)
(* in no step of TxData, the receipts or Close.                            *)
THEOREM ChannelsEndOnce == Spec => EndedOnce
<1>1. IInv /\ [Next]_vars =>
         [\A c \in DOMAIN channels \cap DOMAIN channels' :
             channels[c].full => /\ channels'[c].full
                                 /\ channels'[c].blocks = channels[c].blocks
                                 /\ channels'[c].numFrames = channels[c].numFrames]_vars
  BY StepOk DEF EndedStep
<1> QED BY <1>1, Inductive, PTL DEF Spec, EndedOnce

=============================================================================
