------------------------- MODULE ChannelBankProofs -------------------------
(***************************************************************************)
(* Proofs about ChannelBank, for any set of channels, any frame sizes, any *)
(* timeout and any bank size.  TotalSize is left uninterpreted: nothing    *)
(* below depends on which channels prune picks, only on its picking them   *)
(* from the head of the queue.                                             *)
(***************************************************************************)
EXTENDS ChannelBank, FiniteSetTheorems, SequenceTheorems, WellFoundedInduction, TLAPS

(* The size counts the frames held, until the closing frame arrives. *)
SizeExact(ch) == ch.size \in Nat /\ (~ch.closed => ch.size = InputsSize(ch.inputs))

(* A channel as the bank may hold it while it reads L1 block o. *)
Good(ch, o) ==
    IsChannel(ch) /\ WellPruned(ch) /\ InWindow(ch) /\ SizeExact(ch) /\ ch.openBlock <= o

(* Channels chs and queue q are in step, oldest first. *)
Bank(chs, q, o) ==
    /\ q \in Seq(ChannelIDs)
    /\ IsInjective(q)
    /\ Range(q) = DOMAIN chs
    /\ \A i, j \in DOMAIN q : i < j => chs[q[i]].openBlock <= chs[q[j]].openBlock
    /\ \A id \in DOMAIN chs : Good(chs[id], o)

(* The inductive invariant. *)
IInv ==
    /\ origin \in 0..MaxOrigin
    /\ frames \in Seq(Frame)
    /\ Bank(channels, channelQueue, origin)
    /\ data.id # NoChannel =>
         data.id \in ChannelIDs /\ IsChannel(data.ch) /\ data.at \in 0..MaxOrigin
    /\ ReadComplete

-----------------------------------------------------------------------------
(* Sums over finite sets                                                   *)

LEMMA NatLess == \A x, y \in Nat : y < x => <<y, x>> \in OpToRel(<, Nat)
  BY DEF OpToRel

LEMMA NatMinimal ==
    ASSUME NEW R, IsWellFoundedOn(R, Nat), \A x, y \in Nat : y < x => <<y, x>> \in R,
           NEW S \in SUBSET Nat, S # {}
    PROVE  \E x \in S : \A y \in S : x <= y
<1>1. PICK x \in S : \A y \in S : ~(<<y, x>> \in R)
  BY WFMin
<1>2. \A y \in S : ~(y < x)
  BY <1>1
<1>3. \A y \in S : x <= y
  BY <1>2
<1> QED BY <1>3

LEMMA Smallest ==
    ASSUME NEW S \in SUBSET Nat, S # {}
    PROVE  \E x \in S : \A y \in S : x <= y
  BY NatLess, NatLessThanWellFounded, NatMinimal, Zenon

(* A family of finite sets that is not empty has a smallest one. *)
LEMMA SmallestSet ==
    ASSUME NEW F, F # {}, \A S \in F : IsFiniteSet(S)
    PROVE  \E S \in F : \A T \in F : Cardinality(S) <= Cardinality(T)
<1> DEFINE C == {Cardinality(S) : S \in F}
<1>1. C \in SUBSET Nat /\ C # {}
  BY FS_CardinalityType
<1>2. PICK n \in C : \A m \in C : n <= m
  BY <1>1, Smallest
<1> QED BY <1>2

LEMMA SetWithout ==
    ASSUME NEW S, IsFiniteSet(S), NEW x \in S
    PROVE  IsFiniteSet(S \ {x}) /\ Cardinality(S \ {x}) < Cardinality(S)
           /\ Cardinality(S \ {x}) = Cardinality(S) - 1 /\ Cardinality(S) \in Nat
<1>1. IsFiniteSet(S \ {x}) /\ Cardinality(S \ {x}) = Cardinality(S) - 1
  BY FS_RemoveElement
<1>2. Cardinality(S) \in Nat
  BY FS_CardinalityType
<1> QED BY <1>1, <1>2

(* What SumFunctionOnSet is defined by. *)
Chosen(S) == CHOOSE x \in S : TRUE

SumStep(f, g, s) == IF s = {} THEN 0 ELSE f[Chosen(s)] + g[s \ {Chosen(s)}]

IsSum(f, S, g) == g = [s \in SUBSET S |-> SumStep(f, g, s)]

LEMMA SumIs ==
    ASSUME NEW f, NEW S
    PROVE  SumFunctionOnSet(f, S) = (CHOOSE g : IsSum(f, S, g))[S]
  BY DEF SumFunctionOnSet, FoldFunctionOnSet, MapThenFoldSet, IsSum, SumStep, Chosen

LEMMA AnyIn ==
    ASSUME NEW S, S # {}
    PROVE  Chosen(S) \in S
  BY DEF Chosen

(* The sums of the subsets of at most k elements. *)
SumUpTo(f, S, k, g) ==
    /\ g = [s \in SUBSET S |-> g[s]]
    /\ \A s \in SUBSET S : Cardinality(s) <= k => g[s] = SumStep(f, g, s)

LEMMA SumUpToNext ==
    ASSUME NEW f, NEW S, IsFiniteSet(S), NEW k \in Nat, NEW g, SumUpTo(f, S, k, g)
    PROVE  SumUpTo(f, S, k + 1, [s \in SUBSET S |-> SumStep(f, g, s)])
<1> DEFINE h == [s \in SUBSET S |-> SumStep(f, g, s)]
<1>1. h = [s \in SUBSET S |-> h[s]]
  OBVIOUS
<1>2. ASSUME NEW s \in SUBSET S, Cardinality(s) <= k + 1
      PROVE  h[s] = SumStep(f, h, s)
  <2>1. CASE s = {}
    BY <2>1 DEF SumStep
  <2>2. CASE s # {}
    <3> DEFINE t == s \ {Chosen(s)}
    <3>1. Chosen(s) \in s /\ t \in SUBSET S
      BY <2>2, AnyIn
    <3>2. Cardinality(t) <= k
      <4>1. IsFiniteSet(s)
        BY FS_Subset
      <4> QED BY <1>2, <3>1, <4>1, SetWithout
    <3>3. h[t] = g[t]
      BY <3>1, <3>2 DEF SumUpTo
    <3> QED BY <2>2, <3>3 DEF SumStep
  <2> QED BY <2>1, <2>2
<1> HIDE DEF h
<1> QED BY <1>1, <1>2 DEF SumUpTo, h

LEMMA SumExists ==
    ASSUME NEW f, NEW S, IsFiniteSet(S)
    PROVE  \E g : IsSum(f, S, g)
<1> DEFINE Bad == {k \in Nat : \A g : ~SumUpTo(f, S, k, g)}
<1>1. 0 \notin Bad
  <2> DEFINE g == [s \in SUBSET S |-> 0]
  <2>1. \A s \in SUBSET S : Cardinality(s) <= 0 => s = {}
    BY FS_Subset, FS_EmptySet, FS_CardinalityType
  <2>2. SumUpTo(f, S, 0, g)
    BY <2>1 DEF SumUpTo, SumStep
  <2> QED BY <2>2
<1>2. \A k \in Nat : k \notin Bad => k + 1 \notin Bad
  BY SumUpToNext
<1>3. Bad = {}
  <2>1. SUFFICES ASSUME Bad # {} PROVE FALSE
    OBVIOUS
  <2> Bad \in SUBSET Nat
    OBVIOUS
  <2> HIDE DEF Bad
  <2>2. PICK k \in Bad : \A j \in Bad : k <= j
    BY <2>1, Smallest
  <2>3. k \in Nat /\ k # 0
    BY <1>1, <2>2
  <2>4. k - 1 \in Nat /\ ~(k <= k - 1) /\ k - 1 + 1 = k
    BY <2>3
  <2>5. k - 1 \notin Bad
    BY <2>2, <2>4
  <2> QED BY <1>2, <2>2, <2>4, <2>5
<1>4. Cardinality(S) \in Nat
  BY FS_CardinalityType
<1>5. PICK g : SumUpTo(f, S, Cardinality(S), g)
  BY <1>3, <1>4
<1>6. \A s \in SUBSET S : Cardinality(s) <= Cardinality(S)
  BY FS_Subset
<1>7. IsSum(f, S, g)
  BY <1>5, <1>6 DEF SumUpTo, IsSum
<1> QED BY <1>7

(* Two such functions agree where what they sum agrees. *)
LEMMA SumUnique ==
    ASSUME NEW e, NEW f, NEW S, NEW T, NEW g, NEW h, IsSum(e, S, g), IsSum(f, T, h),
           NEW U, IsFiniteSet(U), U \subseteq S, U \subseteq T, \A x \in U : e[x] = f[x]
    PROVE  g[U] = h[U]
<1> DEFINE Bad == {V \in SUBSET U : g[V] # h[V]}
<1>1. SUFFICES ASSUME Bad # {} PROVE FALSE
  OBVIOUS
<1>2. \A V \in Bad : IsFiniteSet(V)
  BY FS_Subset
<1>3. PICK V \in Bad : \A W \in Bad : Cardinality(V) <= Cardinality(W)
  BY <1>1, <1>2, SmallestSet, Zenon
<1>4. g[V] = SumStep(e, g, V) /\ h[V] = SumStep(f, h, V)
  BY DEF IsSum
<1>5. V # {}
  BY <1>4 DEF SumStep
<1> DEFINE W == V \ {Chosen(V)}
<1>6. Chosen(V) \in V /\ IsFiniteSet(V)
  BY <1>2, <1>5, AnyIn
<1>7. Cardinality(W) < Cardinality(V) /\ IsFiniteSet(W) /\ Cardinality(V) \in Nat
  BY <1>6, SetWithout
<1>8. Cardinality(W) \in Nat
  BY <1>7, FS_CardinalityType
<1>9. W \notin Bad
  BY <1>3, <1>7, <1>8
<1>10. g[W] = h[W]
  BY <1>9
<1>11. e[Chosen(V)] = f[Chosen(V)]
  BY <1>6
<1> QED BY <1>4, <1>5, <1>10, <1>11 DEF SumStep

LEMMA SumSame ==
    ASSUME NEW e, NEW f, NEW S, IsFiniteSet(S), \A x \in S : e[x] = f[x]
    PROVE  SumFunctionOnSet(e, S) = SumFunctionOnSet(f, S)
<1> DEFINE g == CHOOSE g : IsSum(e, S, g)
           h == CHOOSE h : IsSum(f, S, h)
<1>1. IsSum(e, S, g) /\ IsSum(f, S, h)
  BY SumExists
<1> HIDE DEF g, h
<1>2. g[S] = h[S]
  BY <1>1, SumUnique
<1> QED BY <1>2, SumIs DEF g, h

LEMMA SumChosen ==
    ASSUME NEW f, NEW S, IsFiniteSet(S), S # {}
    PROVE  SumFunctionOnSet(f, S) = f[Chosen(S)] + SumFunctionOnSet(f, S \ {Chosen(S)})
<1> DEFINE T == S \ {Chosen(S)}
           g == CHOOSE g : IsSum(f, S, g)
           h == CHOOSE h : IsSum(f, T, h)
<1>1. IsFiniteSet(T)
  BY FS_Subset
<1>2. IsSum(f, S, g) /\ IsSum(f, T, h)
  BY <1>1, SumExists
<1>3. SumFunctionOnSet(f, S) = g[S] /\ SumFunctionOnSet(f, T) = h[T]
  BY SumIs
<1> HIDE DEF g, h
<1>4. g[T] = h[T]
  BY <1>1, <1>2, SumUnique
<1>5. g[S] = SumStep(f, g, S)
  BY <1>2 DEF IsSum
<1>6. SumStep(f, g, S) = f[Chosen(S)] + g[S \ {Chosen(S)}]
  BY DEF SumStep
<1> QED BY <1>3, <1>4, <1>5, <1>6

LEMMA SumEmpty ==
    ASSUME NEW f
    PROVE  SumFunctionOnSet(f, {}) = 0
<1> DEFINE g == CHOOSE g : IsSum(f, {}, g)
<1>1. IsSum(f, {}, g)
  BY SumExists, FS_EmptySet
<1>2. SumFunctionOnSet(f, {}) = g[{}]
  BY SumIs
<1> HIDE DEF g
<1> QED BY <1>1, <1>2 DEF IsSum, SumStep

LEMMA SumNat ==
    ASSUME NEW f, NEW S, IsFiniteSet(S), \A x \in S : f[x] \in Nat
    PROVE  SumFunctionOnSet(f, S) \in Nat
<1> DEFINE Bad == {T \in SUBSET S : SumFunctionOnSet(f, T) \notin Nat}
<1>1. SUFFICES ASSUME Bad # {} PROVE FALSE
  OBVIOUS
<1>2. \A T \in Bad : IsFiniteSet(T)
  BY FS_Subset
<1>3. PICK T \in Bad : \A U \in Bad : Cardinality(T) <= Cardinality(U)
  BY <1>1, <1>2, SmallestSet, Zenon
<1>4. T # {}
  BY SumEmpty
<1> DEFINE U == T \ {Chosen(T)}
<1>5. Chosen(T) \in T /\ IsFiniteSet(T)
  BY <1>2, <1>4, AnyIn
<1>6. SumFunctionOnSet(f, T) = f[Chosen(T)] + SumFunctionOnSet(f, U)
  BY <1>4, <1>5, SumChosen
<1>7. Cardinality(U) < Cardinality(T) /\ IsFiniteSet(U) /\ Cardinality(T) \in Nat
  BY <1>5, SetWithout
<1>8. Cardinality(U) \in Nat
  BY <1>7, FS_CardinalityType
<1>9. U \notin Bad
  BY <1>3, <1>7, <1>8
<1>10. SumFunctionOnSet(f, U) \in Nat /\ f[Chosen(T)] \in Nat
  BY <1>5, <1>9
<1> QED BY <1>6, <1>10

(* One more element. *)
LEMMA SumAdd ==
    ASSUME NEW f, NEW S, IsFiniteSet(S), NEW x, x \notin S, \A y \in S \cup {x} : f[y] \in Nat
    PROVE  SumFunctionOnSet(f, S \cup {x}) = f[x] + SumFunctionOnSet(f, S)
<1> DEFINE V == S \cup {x}
           Sum(T) == SumFunctionOnSet(f, T)
           Bad == {T \in SUBSET V : \E y \in T : Sum(T) # f[y] + Sum(T \ {y})}
<1>1. IsFiniteSet(V)
  BY FS_AddElement
<1>2. \A T \in SUBSET V : IsFiniteSet(T) /\ Sum(T) \in Nat
  BY <1>1, FS_Subset, SumNat
<1>3. Bad = {}
  <2>1. SUFFICES ASSUME Bad # {} PROVE FALSE
    OBVIOUS
  <2>2. \A T \in Bad : IsFiniteSet(T)
    BY <1>2
  <2>3. PICK T \in Bad : \A U \in Bad : Cardinality(T) <= Cardinality(U)
    BY <2>1, <2>2, SmallestSet, Zenon
  <2>4. PICK y \in T : Sum(T) # f[y] + Sum(T \ {y})
    BY <2>3
  <2> DEFINE z == Chosen(T)
  <2>5. z \in T /\ IsFiniteSet(T)
    BY <2>2, <2>4, AnyIn
  <2>6. Sum(T) = f[z] + Sum(T \ {z})
    BY <2>4, <2>5, SumChosen
  <2> HIDE DEF z
  <2>7. y # z
    BY <2>4, <2>6
  <2>8. \A u \in T : Cardinality(T \ {u}) < Cardinality(T) /\ Cardinality(T \ {u}) \in Nat
                      /\ Cardinality(T) \in Nat
    BY <2>5, SetWithout, FS_CardinalityType
  <2>9. \A u \in T : T \ {u} \notin Bad
    BY <2>3, <2>8
  <2>10. Sum(T \ {z}) = f[y] + Sum((T \ {z}) \ {y})
    BY <2>5, <2>7, <2>9
  <2>11. Sum(T \ {y}) = f[z] + Sum((T \ {y}) \ {z})
    BY <2>5, <2>7, <2>9
  <2>12. (T \ {z}) \ {y} = (T \ {y}) \ {z}
    OBVIOUS
  <2>13. Sum((T \ {y}) \ {z}) \in Nat /\ f[y] \in Nat /\ f[z] \in Nat
    BY <1>2, <2>5
  <2> DEFINE w == Sum((T \ {y}) \ {z})
  <2> HIDE DEF Sum, w
  <2>14. Sum(T) = f[z] + (f[y] + w)
    BY <2>6, <2>10, <2>12 DEF w
  <2>15. f[y] + Sum(T \ {y}) = f[y] + (f[z] + w)
    BY <2>11 DEF w
  <2>16. f[z] + (f[y] + w) = f[y] + (f[z] + w)
    BY <2>13 DEF w
  <2> QED BY <2>4, <2>14, <2>15, <2>16
<1>4. V \notin Bad /\ x \in V /\ V \ {x} = S
  BY <1>3
<1> HIDE DEF Sum
<1>5. Sum(V) = f[x] + Sum(S)
  BY <1>4
<1> QED BY <1>5 DEF Sum

(* The sizes of the frames of a channel, and their sum. *)
Sizes(inputs) == [n \in DOMAIN inputs |-> inputs[n].size]

LEMMA InputsSizeSum ==
    ASSUME NEW inputs
    PROVE  InputsSize(inputs) = SumFunctionOnSet(Sizes(inputs), DOMAIN inputs)
  BY DEF InputsSize, Sizes, SumFunction

LEMMA FramesFinite ==
    ASSUME NEW D \in SUBSET FrameNumber
    PROVE  IsFiniteSet(D)
<1>1. IsFiniteSet(FrameNumber)
  BY FS_Interval, ChannelBankAssumption DEF FrameNumber
<1> QED BY <1>1, FS_Subset

LEMMA InputsSizeNat ==
    ASSUME NEW inputs, DOMAIN inputs \subseteq FrameNumber, inputs \in [DOMAIN inputs -> Buffered]
    PROVE  InputsSize(inputs) \in Nat
<1>1. \A n \in DOMAIN inputs : Sizes(inputs)[n] \in Nat
  BY ChannelBankAssumption DEF Sizes, Buffered
<1> QED BY <1>1, FramesFinite, InputsSizeSum, SumNat

(* One more frame. *)
LEMMA InputsSizeAdd ==
    ASSUME NEW old, NEW new, NEW n \in FrameNumber, n \notin DOMAIN old,
           DOMAIN old \subseteq FrameNumber, old \in [DOMAIN old -> Buffered],
           DOMAIN new = DOMAIN old \cup {n}, new[n] \in Buffered,
           \A m \in DOMAIN old : new[m] = old[m]
    PROVE  InputsSize(new) = new[n].size + InputsSize(old)
<1> DEFINE D == DOMAIN old
           f == Sizes(new)
           g == Sizes(old)
<1>1. IsFiniteSet(D)
  BY FramesFinite
<1>2. /\ \A m \in D \cup {n} : f[m] = new[m].size
      /\ \A m \in D : g[m] = old[m].size
  BY DEF Sizes
<1>3. \A m \in D \cup {n} : f[m] \in Nat
  BY <1>2, ChannelBankAssumption DEF Buffered
<1>4. \A m \in D : f[m] = g[m]
  BY <1>2
<1>5. InputsSize(new) = SumFunctionOnSet(f, D \cup {n}) /\ InputsSize(old) = SumFunctionOnSet(g, D)
  BY InputsSizeSum
<1> HIDE DEF f, g, D
<1>6. SumFunctionOnSet(f, D \cup {n}) = f[n] + SumFunctionOnSet(f, D)
  BY <1>1, <1>3, SumAdd DEF D
<1>7. SumFunctionOnSet(f, D) = SumFunctionOnSet(g, D)
  BY <1>1, <1>4, SumSame
<1> QED BY <1>2, <1>5, <1>6, <1>7

LEMMA NoInputsSize == InputsSize(EmptyFun) = 0
<1>1. DOMAIN EmptyFun = {}
  BY DEF EmptyFun
<1> QED BY <1>1, InputsSizeSum, SumEmpty

(* An accepted frame leaves the size exact: the one that may subtract      *)
(* is the first closing frame, which finds it exact.                       *)
LEMMA AddFrameSize ==
    ASSUME NEW ch, NEW f \in Frame, IsChannel(ch), SizeExact(ch), AcceptsFrame(ch, f),
           origin \in 0..MaxOrigin
    PROVE  SizeExact(AddFrame(ch, f))
<1> DEFINE new == AddFrame(ch, f)
           prunes == f.last /\ f.num < ch.highestFrameNumber
<1>1. f.size \in Nat /\ f.num \in FrameNumber /\ f.last \in BOOLEAN /\ f.size \in FrameSizes
  BY ChannelBankAssumption DEF Frame
<1>2. /\ new.size = (IF prunes THEN ch.size - InputsSize(ch.inputs) ELSE ch.size) + f.size
      /\ new.closed = (ch.closed \/ f.last)
  BY DEF AddFrame
<1>3. DOMAIN ch.inputs \subseteq FrameNumber /\ ch.inputs \in [DOMAIN ch.inputs -> Buffered]
  BY DEF IsChannel
<1>4. ch.size \in Nat /\ InputsSize(ch.inputs) \in Nat
  BY <1>3, InputsSizeNat DEF SizeExact
<1>5. prunes => ch.size = InputsSize(ch.inputs)
  BY DEF AcceptsFrame, SizeExact
<1>6. new.size \in Nat
  BY <1>1, <1>2, <1>4, <1>5
<1>7. ASSUME ~new.closed PROVE new.size = InputsSize(new.inputs)
  <2>1. ~f.last /\ ~ch.closed
    BY <1>2, <1>7
  <2>2. /\ DOMAIN new.inputs = DOMAIN ch.inputs \cup {f.num}
        /\ new.inputs[f.num] = [size |-> f.size, at |-> origin]
        /\ \A n \in DOMAIN ch.inputs : n # f.num => new.inputs[n] = ch.inputs[n]
    BY <2>1 DEF AddFrame
  <2>3. f.num \notin DOMAIN ch.inputs
    BY DEF AcceptsFrame
  <2>4. new.inputs[f.num] \in Buffered /\ new.inputs[f.num].size = f.size
    BY <1>1, <2>2 DEF Buffered
  <2> HIDE DEF new
  <2>5. InputsSize(new.inputs) = f.size + InputsSize(ch.inputs)
    BY <1>1, <1>3, <2>2, <2>3, <2>4, InputsSizeAdd
  <2>6. new.size = ch.size + f.size /\ ch.size = InputsSize(ch.inputs)
    BY <1>2, <2>1 DEF SizeExact
  <2> QED BY <1>1, <1>4, <2>5, <2>6
<1> HIDE DEF new
<1> QED BY <1>6, <1>7 DEF SizeExact, new

-----------------------------------------------------------------------------
(* Channels                                                                *)

(* What AddFrame makes of a good channel: a good channel. *)
LEMMA AddFrameGood ==
    ASSUME NEW ch, NEW f \in Frame, IsChannel(ch), WellPruned(ch), InWindow(ch),
           AcceptsFrame(ch, f), ~TimedOut(ch), ch.openBlock <= origin,
           origin \in 0..MaxOrigin
    PROVE  LET new == AddFrame(ch, f) IN
           /\ IsChannel(new) /\ WellPruned(new) /\ InWindow(new)
           /\ new.openBlock = ch.openBlock
<1> DEFINE new == AddFrame(ch, f)
           kept == IF f.last /\ f.num < ch.highestFrameNumber
                   THEN {n \in DOMAIN ch.inputs : n < f.num} ELSE DOMAIN ch.inputs
<1>1. /\ f.num \in FrameNumber /\ f.size \in FrameSizes /\ f.last \in BOOLEAN
      /\ kept \subseteq FrameNumber
      /\ kept \subseteq DOMAIN ch.inputs
  BY DEF Frame, IsChannel
<1>2. DOMAIN new.inputs = kept \cup {f.num}
  BY DEF AddFrame
<1>3. /\ new.inputs[f.num] = [size |-> f.size, at |-> origin]
      /\ \A n \in kept : n # f.num => new.inputs[n] = ch.inputs[n]
  BY DEF AddFrame
<1>4. f.num \notin DOMAIN ch.inputs
  BY DEF AcceptsFrame
<1>5. /\ new.openBlock = ch.openBlock
      /\ new.closed = (ch.closed \/ f.last)
      /\ new.endFrameNumber = IF f.last THEN f.num ELSE ch.endFrameNumber
  BY DEF AddFrame
<1>6. new.highestFrameNumber =
        LET high == IF f.last /\ f.num < ch.highestFrameNumber THEN f.num ELSE ch.highestFrameNumber
        IN  IF f.num > high THEN f.num ELSE high
  BY DEF AddFrame
<1>7. IsChannel(new)
  <2>1. [size |-> f.size, at |-> origin] \in Buffered
    BY <1>1 DEF Buffered
  <2>2. \A n \in DOMAIN new.inputs : new.inputs[n] \in Buffered
    BY <1>1, <1>2, <1>3, <1>4, <2>1 DEF IsChannel
  <2>3. new.inputs = [n \in DOMAIN new.inputs |-> new.inputs[n]]
    BY DEF AddFrame
  <2> QED
    BY <1>1, <1>2, <1>5, <1>6, <2>2, <2>3 DEF IsChannel, FrameNumber
<1>8. InWindow(new)
  BY <1>1, <1>2, <1>3, <1>4, <1>5, ChannelBankAssumption
     DEF InWindow, Window, TimedOut, IsChannel
<1>9. WellPruned(new)
  <2>1. ch.highestFrameNumber \in Nat /\ f.num \in Nat /\ ch.endFrameNumber \in Nat
        /\ DOMAIN ch.inputs \subseteq Nat
    BY <1>1, ChannelBankAssumption DEF IsChannel, FrameNumber
  <2>2. CASE f.last
    BY <2>1, <2>2, <1>2, <1>5, <1>6 DEF WellPruned, AcceptsFrame
  <2>3. CASE ~f.last
    <3>1. DOMAIN new.inputs = DOMAIN ch.inputs \cup {f.num}
      BY <2>3, <1>2
    <3>2. new.endFrameNumber = ch.endFrameNumber
      BY <2>3, <1>5
    <3>3. new.highestFrameNumber = IF f.num > ch.highestFrameNumber THEN f.num ELSE ch.highestFrameNumber
      BY <2>3, <1>6
    <3>4. CASE ch.closed
      BY <2>1, <3>1, <3>2, <3>3, <3>4 DEF WellPruned, AcceptsFrame
    <3>5. CASE ~ch.closed
      <4>1. ~new.closed
        BY <2>3, <3>5, <1>5
      <4>2. \A n \in DOMAIN new.inputs : n <= new.highestFrameNumber
        BY <2>1, <3>1, <3>3 DEF WellPruned
      <4>3. new.highestFrameNumber \in DOMAIN new.inputs
        BY <2>1, <3>1, <3>3 DEF WellPruned
      <4> QED BY <4>1, <4>2, <4>3 DEF WellPruned
    <3> QED BY <3>4, <3>5
  <2> QED BY <2>2, <2>3, <1>1
<1> QED BY <1>5, <1>7, <1>8, <1>9

-----------------------------------------------------------------------------
(* Queues                                                                  *)

LEMMA DropFacts ==
    ASSUME NEW S, NEW q \in Seq(S), NEW k \in 0..Len(q)
    PROVE  /\ Drop(q, k) \in Seq(S)
           /\ Len(Drop(q, k)) = Len(q) - k
           /\ \A i \in 1..(Len(q) - k) : Drop(q, k)[i] = q[k + i]
<1>1. /\ Len(q) \in Nat
      /\ \A i \in (k + 1)..Len(q) : q[i] \in S
  BY LenProperties, ElementOfSeq
<1>2. /\ SubSeq(q, k + 1, Len(q)) \in Seq(S)
      /\ Len(SubSeq(q, k + 1, Len(q))) = IF k + 1 <= Len(q) THEN Len(q) - (k + 1) + 1 ELSE 0
      /\ \A i \in 1..(Len(q) - (k + 1) + 1) : SubSeq(q, k + 1, Len(q))[i] = q[(k + 1) + i - 1]
  BY <1>1, SubSeqProperties
<1> QED BY <1>1, <1>2 DEF Drop

LEMMA RemoveAtFacts ==
    ASSUME NEW S, NEW q \in Seq(S), NEW i \in 1..Len(q)
    PROVE  /\ RemoveAt(q, i) \in Seq(S)
           /\ Len(RemoveAt(q, i)) = Len(q) - 1
           /\ \A j \in 1..(Len(q) - 1) :
                RemoveAt(q, i)[j] = IF j < i THEN q[j] ELSE q[j + 1]
<1> DEFINE s == SubSeq(q, 1, i - 1)
           t == SubSeq(q, i + 1, Len(q))
<1>1. /\ Len(q) \in Nat
      /\ \A j \in 1..Len(q) : q[j] \in S
  BY LenProperties, ElementOfSeq
<1>2. /\ s \in Seq(S)
      /\ Len(s) = i - 1
      /\ \A j \in 1..(i - 1) : s[j] = q[j]
  <2>1. \A j \in 1..(i - 1) : q[j] \in S
    BY <1>1
  <2>2. /\ s \in Seq(S)
        /\ Len(s) = IF 1 <= i - 1 THEN (i - 1) - 1 + 1 ELSE 0
        /\ \A j \in 1..((i - 1) - 1 + 1) : s[j] = q[1 + j - 1]
    BY <1>1, <2>1, SubSeqProperties
  <2> QED BY <1>1, <2>2
<1>3. /\ t \in Seq(S)
      /\ Len(t) = Len(q) - i
      /\ \A j \in 1..(Len(q) - i) : t[j] = q[i + j]
  <2>1. \A j \in (i + 1)..Len(q) : q[j] \in S
    BY <1>1
  <2>2. /\ t \in Seq(S)
        /\ Len(t) = IF i + 1 <= Len(q) THEN Len(q) - (i + 1) + 1 ELSE 0
        /\ \A j \in 1..(Len(q) - (i + 1) + 1) : t[j] = q[(i + 1) + j - 1]
    BY <1>1, <2>1, SubSeqProperties
  <2> QED BY <1>1, <2>2
<1>4. /\ s \o t \in Seq(S)
      /\ Len(s \o t) = Len(s) + Len(t)
      /\ \A j \in 1..(Len(s) + Len(t)) :
           (s \o t)[j] = IF j <= Len(s) THEN s[j] ELSE t[j - Len(s)]
  BY <1>2, <1>3, ConcatProperties
<1>5. RemoveAt(q, i) = s \o t
  BY DEF RemoveAt
<1> HIDE DEF s, t
<1>6. Len(s) + Len(t) = Len(q) - 1
  BY <1>1, <1>2, <1>3
<1>7. \A j \in 1..(Len(q) - 1) : (s \o t)[j] = IF j < i THEN q[j] ELSE q[j + 1]
  <2> TAKE j \in 1..(Len(q) - 1)
  <2>1. (s \o t)[j] = IF j <= Len(s) THEN s[j] ELSE t[j - Len(s)]
    BY <1>4, <1>6
  <2>2. CASE j < i
    BY <1>1, <1>2, <2>1, <2>2
  <2>3. CASE ~(j < i)
    <3>1. j - (i - 1) \in 1..(Len(q) - i)
      BY <1>1, <2>3
    <3>2. t[j - (i - 1)] = q[i + (j - (i - 1))]
      BY <1>3, <3>1
    <3>3. i + (j - (i - 1)) = j + 1 /\ ~(j <= i - 1)
      BY <1>1, <2>3
    <3> QED BY <1>2, <2>1, <2>3, <3>2, <3>3
  <2> QED BY <2>2, <2>3
<1> QED BY <1>4, <1>5, <1>6, <1>7

(* prune keeps the bank in step. *)
LEMMA BankDrop ==
    ASSUME NEW chs, NEW q, NEW o \in Nat, Bank(chs, q, o), NEW k \in 0..Len(q)
    PROVE  Bank(Restrict(chs, Range(Drop(q, k))), Drop(q, k), o)
<1> DEFINE d == Drop(q, k)
           r == Restrict(chs, Range(d))
<1>1. q \in Seq(ChannelIDs) /\ Len(q) \in Nat /\ DOMAIN q = 1..Len(q)
  BY LenProperties DEF Bank
<1>2. /\ d \in Seq(ChannelIDs)
      /\ Len(d) = Len(q) - k
      /\ \A i \in 1..(Len(q) - k) : d[i] = q[k + i]
  BY <1>1, DropFacts
<1>3. DOMAIN d = 1..(Len(q) - k)
  BY <1>2, LenProperties
<1> HIDE DEF d
<1>4. \A i \in DOMAIN d : k + i \in DOMAIN q /\ d[i] = q[k + i]
  BY <1>1, <1>2, <1>3
<1>5. IsInjective(d)
  BY <1>1, <1>3, <1>4 DEF Bank, IsInjective
<1>6. DOMAIN r = Range(d) /\ Range(d) \subseteq DOMAIN chs
  BY <1>4 DEF Bank, Range, Restrict
<1>7. \A id \in DOMAIN r : r[id] = chs[id]
  BY <1>6 DEF Restrict
<1> HIDE DEF r
<1>8. \A i \in DOMAIN d : d[i] \in DOMAIN r
  BY <1>6 DEF Range
<1>9. \A i, j \in DOMAIN d : i < j => r[d[i]].openBlock <= r[d[j]].openBlock
  <2> TAKE i, j \in DOMAIN d
  <2> HAVE i < j
  <2>1. k + i < k + j
    BY <1>1, <1>3
  <2> QED BY <1>4, <1>7, <1>8, <2>1 DEF Bank
<1>10. \A id \in DOMAIN r : Good(r[id], o)
  BY <1>6, <1>7 DEF Bank
<1> QED BY <1>2, <1>5, <1>6, <1>9, <1>10 DEF Bank, d, r

(* So does removing one channel, wherever it is in the queue. *)
LEMMA BankRemoveAt ==
    ASSUME NEW chs, NEW q, NEW o \in Nat, Bank(chs, q, o), NEW i \in 1..Len(q)
    PROVE  Bank(Restrict(chs, DOMAIN chs \ {q[i]}), RemoveAt(q, i), o)
<1> DEFINE w == RemoveAt(q, i)
           r == Restrict(chs, DOMAIN chs \ {q[i]})
           at(j) == IF j < i THEN j ELSE j + 1
<1>1. q \in Seq(ChannelIDs) /\ Len(q) \in Nat /\ DOMAIN q = 1..Len(q)
  BY LenProperties DEF Bank
<1>2. /\ w \in Seq(ChannelIDs)
      /\ Len(w) = Len(q) - 1
      /\ \A j \in 1..(Len(q) - 1) : w[j] = IF j < i THEN q[j] ELSE q[j + 1]
  BY <1>1, RemoveAtFacts
<1>3. DOMAIN w = 1..(Len(q) - 1)
  BY <1>2, LenProperties
<1> HIDE DEF w
<1>4. \A j \in DOMAIN w : at(j) \in DOMAIN q /\ at(j) # i /\ w[j] = q[at(j)]
  BY <1>1, <1>2, <1>3
<1>5. \A j, l \in DOMAIN w : (j < l => at(j) < at(l)) /\ (at(j) = at(l) => j = l)
  BY <1>1, <1>3
<1>6. \A m \in DOMAIN q : m # i => \E j \in DOMAIN w : at(j) = m
  <2> TAKE m \in DOMAIN q
  <2> HAVE m # i
  <2>1. CASE m < i
    BY <1>1, <1>3, <2>1
  <2>2. CASE m > i
    <3>1. m - 1 \in DOMAIN w /\ at(m - 1) = m
      BY <1>1, <1>3, <2>2
    <3> QED BY <3>1
  <2> QED BY <1>1, <2>1, <2>2
<1> HIDE DEF at
<1>7. IsInjective(w)
  BY <1>4, <1>5 DEF Bank, IsInjective
<1>8. Range(w) = DOMAIN chs \ {q[i]}
  <2>1. \A j \in DOMAIN w : w[j] \in DOMAIN chs /\ w[j] # q[i]
    BY <1>1, <1>4 DEF Bank, Range, IsInjective
  <2>2. \A id \in DOMAIN chs \ {q[i]} : \E j \in DOMAIN w : w[j] = id
    BY <1>4, <1>6 DEF Bank, Range
  <2> QED BY <2>1, <2>2 DEF Range
<1>9. DOMAIN r = DOMAIN chs \ {q[i]} /\ \A id \in DOMAIN r : r[id] = chs[id]
  BY DEF Restrict
<1> HIDE DEF r
<1>10. \A j, l \in DOMAIN w : j < l => r[w[j]].openBlock <= r[w[l]].openBlock
  <2> TAKE j, l \in DOMAIN w
  <2> HAVE j < l
  <2>1. w[j] \in DOMAIN r /\ w[l] \in DOMAIN r
    BY <1>8, <1>9 DEF Range
  <2> QED BY <1>4, <1>5, <1>9, <2>1 DEF Bank
<1>11. \A id \in DOMAIN r : Good(r[id], o)
  BY <1>9 DEF Bank
<1> QED BY <1>2, <1>7, <1>8, <1>9, <1>10, <1>11 DEF Bank, w, r

(* And so does a frame that opens a channel or changes one: the channel it *)
(* goes to keeps its opening block, and a new one opens at the origin.     *)
LEMMA BankWith ==
    ASSUME NEW f \in Frame, NEW ch, origin \in 0..MaxOrigin,
           Bank(channels, channelQueue, origin),
           Good(ch, origin), ch.openBlock = ChannelFor(f).openBlock
    PROVE  Bank(WithChannel(f.id, ch), QueueFor(f), origin)
<1> DEFINE q == QueueFor(f)
           chs == WithChannel(f.id, ch)
<1>1. /\ channelQueue \in Seq(ChannelIDs) /\ Len(channelQueue) \in Nat
      /\ DOMAIN channelQueue = 1..Len(channelQueue)
  BY LenProperties DEF Bank
<1>2. f.id \in ChannelIDs
  BY DEF Frame
<1>3. /\ DOMAIN chs = DOMAIN channels \cup {f.id}
      /\ chs[f.id] = ch
      /\ \A id \in DOMAIN channels : id # f.id => chs[id] = channels[id]
  BY DEF WithChannel
<1> HIDE DEF chs
<1>4. \A id \in DOMAIN chs : Good(chs[id], origin)
  BY <1>3 DEF Bank
<1>5. CASE f.id \in DOMAIN channels
  <2>1. q = channelQueue /\ ch.openBlock = channels[f.id].openBlock
    BY <1>5 DEF QueueFor, ChannelFor
  <2>2. \A id \in DOMAIN channels : chs[id].openBlock = channels[id].openBlock
    BY <1>3, <2>1
  <2>3. \A i \in DOMAIN q : q[i] \in DOMAIN channels
    BY <2>1 DEF Bank, Range
  <2>4. \A i, j \in DOMAIN q : i < j => chs[q[i]].openBlock <= chs[q[j]].openBlock
    BY <2>1, <2>2, <2>3 DEF Bank
  <2>5. DOMAIN chs = DOMAIN channels
    BY <1>3, <1>5
  <2> QED BY <1>4, <2>1, <2>4, <2>5 DEF Bank, chs
<1>6. CASE f.id \notin DOMAIN channels
  <2>1. q = Append(channelQueue, f.id) /\ ch.openBlock = origin
    BY <1>6 DEF QueueFor, ChannelFor, NewChannel
  <2>2. /\ q \in Seq(ChannelIDs)
        /\ Len(q) = Len(channelQueue) + 1
        /\ \A i \in 1..Len(channelQueue) : q[i] = channelQueue[i]
        /\ q[Len(channelQueue) + 1] = f.id
    BY <1>1, <1>2, <2>1, AppendProperties
  <2>3. DOMAIN q = 1..(Len(channelQueue) + 1)
    BY <2>2, LenProperties
  <2> HIDE DEF q
  <2>4. \A i \in DOMAIN channelQueue : i \in DOMAIN q /\ q[i] = channelQueue[i]
                                      /\ q[i] \in DOMAIN channels
    BY <1>1, <2>2, <2>3 DEF Bank, Range
  <2>5. \A i \in DOMAIN q : i \in DOMAIN channelQueue \/ (i = Len(channelQueue) + 1 /\ q[i] = f.id)
    BY <1>1, <2>2, <2>3
  <2>6. IsInjective(q)
    BY <1>6, <2>4, <2>5 DEF Bank, IsInjective
  <2>7. Range(q) = DOMAIN chs
    <3>1. Len(channelQueue) + 1 \in DOMAIN q
      BY <1>1, <2>3
    <3>2. \A i \in DOMAIN q : q[i] \in DOMAIN chs
      BY <1>3, <2>4, <2>5
    <3>3. \A id \in DOMAIN chs : \E i \in DOMAIN q : q[i] = id
      BY <1>3, <2>2, <2>4, <3>1 DEF Bank, Range
    <3> QED BY <3>2, <3>3 DEF Range
  <2>8. \A i, j \in DOMAIN q : i < j => chs[q[i]].openBlock <= chs[q[j]].openBlock
    <3> TAKE i, j \in DOMAIN q
    <3> HAVE i < j
    <3>1. i \in DOMAIN channelQueue
      BY <1>1, <2>3
    <3>2. chs[q[i]] = channels[channelQueue[i]] /\ channelQueue[i] \in DOMAIN channels
      BY <1>3, <1>6, <2>4, <3>1
    <3>3. CASE j \in DOMAIN channelQueue
      BY <1>3, <1>6, <2>4, <3>1, <3>2, <3>3 DEF Bank
    <3>4. CASE q[j] = f.id
      BY <1>3, <2>1, <3>2, <3>4 DEF Bank, Good
    <3> QED BY <2>5, <3>3, <3>4
  <2> QED BY <1>4, <2>2, <2>6, <2>7, <2>8 DEF Bank, chs, q
<1> QED BY <1>5, <1>6

(* A channel in the bank, or a new one, is good. *)
LEMMA ChannelForGood ==
    ASSUME NEW f \in Frame, origin \in 0..MaxOrigin, Bank(channels, channelQueue, origin)
    PROVE  Good(ChannelFor(f), origin)
<1>1. CASE f.id \in DOMAIN channels
  BY <1>1 DEF ChannelFor, Bank
<1>2. CASE f.id \notin DOMAIN channels
  <2>1. ChannelFor(f) = NewChannel
    BY <1>2 DEF ChannelFor
  <2>2. DOMAIN EmptyFun = {} /\ EmptyFun \in [{} -> Buffered]
    BY DEF EmptyFun
  <2>3. IsChannel(NewChannel)
    BY <2>2, ChannelBankAssumption DEF NewChannel, IsChannel, FrameNumber
  <2>4. WellPruned(NewChannel) /\ InWindow(NewChannel)
    BY <2>2 DEF NewChannel, WellPruned, InWindow
  <2>5. NewChannel.openBlock <= origin
    BY DEF NewChannel
  <2>6. SizeExact(NewChannel)
    BY NoInputsSize DEF NewChannel, SizeExact
  <2> QED BY <2>1, <2>3, <2>4, <2>5, <2>6 DEF Good
<1> QED BY <1>1, <1>2

(* IngestFrame keeps the bank good. *)
LEMMA IngestFrameGood ==
    ASSUME NEW f \in Frame, origin \in 0..MaxOrigin,
           Bank(channels, channelQueue, origin), IngestFrame(f)
    PROVE  Bank(channels', channelQueue', origin)
<1> DEFINE ch == ChannelFor(f)
           new == AddFrame(ch, f)
           added == WithChannel(f.id, new)
           queue == QueueFor(f)
<1>1. Good(ch, origin)
  BY ChannelForGood
<1>2. CASE /\ TimedOut(ch) \/ ~AcceptsFrame(ch, f)
           /\ channels' = WithChannel(f.id, ch)
           /\ channelQueue' = queue
  BY <1>1, <1>2, BankWith
<1>3. CASE /\ ~TimedOut(ch) /\ AcceptsFrame(ch, f)
           /\ \E k \in 0..Len(queue) :
                /\ PrunesTo(added, queue, k)
                /\ channelQueue' = Drop(queue, k)
                /\ channels' = Restrict(added, Range(Drop(queue, k)))
  <2>1. Good(new, origin) /\ new.openBlock = ch.openBlock
    BY <1>1, <1>3, AddFrameGood, AddFrameSize DEF Good
  <2>2. Bank(added, queue, origin)
    BY <2>1, BankWith
  <2>3. PICK k \in 0..Len(queue) :
          /\ channelQueue' = Drop(queue, k)
          /\ channels' = Restrict(added, Range(Drop(queue, k)))
    BY <1>3
  <2>4. origin \in Nat
    BY ChannelBankAssumption
  <2> HIDE DEF added, queue
  <2> QED BY <2>2, <2>3, <2>4, BankDrop
<1> QED BY <1>2, <1>3 DEF IngestFrame

LEMMA EmptyBank ==
    ASSUME NEW o
    PROVE  Bank(EmptyFun, <<>>, o)
BY DEF Bank, EmptyFun, IsInjective, Range

-----------------------------------------------------------------------------
(* The invariant                                                           *)

LEMMA InitIInv == Init => IInv
<1> SUFFICES ASSUME Init PROVE IInv
  OBVIOUS
<1>1. data.id = NoChannel
  BY DEF Init, NoData
<1> QED BY <1>1, EmptyBank, ChannelBankAssumption DEF Init, IInv, ReadComplete

LEMMA NextIInv == IInv /\ [Next]_vars => IInv'
<1> SUFFICES ASSUME IInv, [Next]_vars PROVE IInv'
  OBVIOUS
<1>0. /\ origin \in 0..MaxOrigin /\ origin \in Nat
      /\ Bank(channels, channelQueue, origin)
      /\ frames \in Seq(Frame)
  BY ChannelBankAssumption DEF IInv
<1>a. channelQueue \in Seq(ChannelIDs) /\ DOMAIN channelQueue = 1..Len(channelQueue)
  BY <1>0, LenProperties DEF Bank
<1>b. NoData.id = NoChannel
  BY DEF NoData
<1>1. CASE ReadTimedOut
  <2>1. 1 \in 1..Len(channelQueue)
    BY <1>1, <1>a, EmptySeq DEF ReadTimedOut, HeadTimedOut
  <2>2. Bank(channels', channelQueue', origin)
    BY <1>0, <1>1, <2>1, BankRemoveAt DEF ReadTimedOut, Forget
  <2> QED BY <1>0, <1>1, <1>b, <2>2 DEF ReadTimedOut, IInv, ReadComplete
<1>2. CASE ReadChannel
  <2>1. PICK i \in Readable :
          /\ Forget(i)
          /\ data' = [id |-> channelQueue[i], ch |-> channels[channelQueue[i]], at |-> origin]
    BY <1>2 DEF ReadChannel
  <2> DEFINE ch == channels[channelQueue[i]]
  <2>2. i \in 1..Len(channelQueue) /\ ~TimedOut(ch) /\ IsReady(ch)
    BY <1>a, <2>1 DEF Readable, ReadableAt
  <2>3. Bank(channels', channelQueue', origin)
    BY <1>0, <2>1, <2>2, BankRemoveAt DEF Forget
  <2>4. channelQueue[i] \in ChannelIDs /\ channelQueue[i] \in DOMAIN channels
    BY <1>0, <1>a, <2>2, ElementOfSeq DEF Bank, Range
  <2>5. Good(ch, origin)
    BY <1>0, <2>4 DEF Bank
  <2>6. data'.id = channelQueue[i] /\ data'.ch = ch /\ data'.at = origin
    BY <2>1
  <2> HIDE DEF ch
  <2>7. origin \in Window(ch)
    BY <1>0, <2>2, <2>5, ChannelBankAssumption DEF Good, TimedOut, Window, IsChannel
  <2>8. ReadComplete'
    BY <2>2, <2>5, <2>6, <2>7 DEF ReadComplete, IsReady, Good, InWindow, Window
  <2>9. IsChannel(ch)
    BY <2>5 DEF Good
  <2>10. IsChannel(data.ch)'
    BY <2>6, <2>9 DEF IsChannel
  <2> QED BY <1>0, <1>2, <2>3, <2>4, <2>6, <2>8, <2>10 DEF ReadChannel, IInv
<1>3. CASE NextFrame
  <2>1. Head(frames) \in Frame /\ Tail(frames) \in Seq(Frame)
    BY <1>0, <1>3, HeadTailProperties DEF NextFrame
  <2>2. Bank(channels', channelQueue', origin)
    BY <1>0, <1>3, <2>1, IngestFrameGood DEF NextFrame
  <2> QED BY <1>0, <1>3, <1>b, <2>1, <2>2 DEF NextFrame, IInv, ReadComplete
<1>4. CASE NextTransaction
  <2>1. PICK f \in Frame : IngestFrame(f)
    BY <1>4 DEF NextTransaction
  <2>2. PICK k \in 0..(MaxTxFrames - 1) : frames' \in [1..k -> Frame]
    BY <1>4 DEF NextTransaction
  <2>3. frames' \in Seq(Frame)
    BY <2>2, ChannelBankAssumption
  <2>4. Bank(channels', channelQueue', origin)
    BY <1>0, <2>1, IngestFrameGood
  <2> QED BY <1>0, <1>4, <1>b, <2>3, <2>4 DEF NextTransaction, IInv, ReadComplete
<1>5. CASE AdvanceL1Block
  <2>1. origin' \in 0..MaxOrigin /\ origin <= origin'
    BY <1>0, <1>5, ChannelBankAssumption DEF AdvanceL1Block
  <2>2. \A ch : Good(ch, origin) => Good(ch, origin + 1)
    BY <1>0, ChannelBankAssumption DEF Good, IsChannel
  <2>3. Bank(channels', channelQueue', origin')
    BY <1>0, <1>5, <2>2 DEF AdvanceL1Block, Bank
  <2> QED BY <1>0, <1>5, <1>b, <2>1, <2>3 DEF AdvanceL1Block, IInv, ReadComplete
<1>6. CASE Reset
  <2>1. origin' \in 0..MaxOrigin
    BY <1>0, <1>6, ChannelBankAssumption DEF Reset
  <2>2. Bank(channels', channelQueue', origin')
    BY <1>6, EmptyBank DEF Reset
  <2> QED BY <1>6, <1>b, <2>1, <2>2 DEF Reset, IInv, ReadComplete
<1>7. CASE UNCHANGED vars
  BY <1>7 DEF vars, IInv, Bank, Good, IsChannel, WellPruned, SizeExact, InWindow, Window, ReadComplete,
              IsInjective, Range
<1> QED BY <1>1, <1>2, <1>3, <1>4, <1>5, <1>6, <1>7 DEF Next

LEMMA SpecIInv == Spec => []IInv
BY InitIInv, NextIInv, PTL DEF Spec

LEMMA IInvTypeOK == IInv => TypeOK
<1> SUFFICES ASSUME IInv PROVE TypeOK
  OBVIOUS
<1>1. Range(channelQueue) \subseteq ChannelIDs
  BY LenProperties, ElementOfSeq DEF IInv, Bank, Range
<1> QED BY <1>1 DEF IInv, Bank, Good, TypeOK

(* The frame queue, the bank and what it returns are well typed. *)
THEOREM TypeCorrect == Spec => []TypeOK
BY SpecIInv, IInvTypeOK, PTL

(* Map and FIFO queue of ChannelBank always hold the same channels. *)
THEOREM BankAlwaysConsistent == Spec => []BankConsistent
<1>1. IInv => BankConsistent
  BY DEF IInv, Bank, BankConsistent
<1> QED BY <1>1, SpecIInv, PTL

(* AddFrame leaves a closed channel with its closing frame as the highest. *)
THEOREM AlwaysClosedPruned == Spec => []ClosedPruned
<1>1. IInv => ClosedPruned
  BY DEF IInv, Bank, Good, ClosedPruned
<1> QED BY <1>1, SpecIInv, PTL

(* The size of a channel is exact until its closing frame arrives, so that *)
(* what AddFrame subtracts then leaves no negative number in the uint64.   *)
THEOREM SizesAccounted == Spec => []SizeAccounting
<1>1. IInv => SizeAccounting
  BY DEF IInv, Bank, Good, SizeExact, SizeAccounting
<1> QED BY <1>1, SpecIInv, PTL

(* NextData only ever returns whole channels, read within their window. *)
THEOREM ReadsComplete == Spec => []ReadComplete
<1>1. IInv => ReadComplete
  BY DEF IInv
<1> QED BY <1>1, SpecIInv, PTL

LEMMA IInvNoExpired == IInv => NoExpiredBehindHead
<1> SUFFICES ASSUME IInv, NothingToRead, NEW id \in DOMAIN channels
             PROVE  ~TimedOut(channels[id])
  BY DEF NoExpiredBehindHead
<1>1. /\ channelQueue \in Seq(ChannelIDs) /\ Len(channelQueue) \in Nat
      /\ DOMAIN channelQueue = 1..Len(channelQueue)
  BY LenProperties DEF IInv, Bank
<1>2. PICK i \in DOMAIN channelQueue : channelQueue[i] = id
  BY DEF IInv, Bank, Range
<1>3. 1 \in DOMAIN channelQueue /\ channelQueue # <<>> /\ Head(channelQueue) = channelQueue[1]
  BY <1>1, <1>2
<1> DEFINE head == channels[channelQueue[1]]
<1>4. ~TimedOut(head)
  BY <1>3 DEF NothingToRead, HeadTimedOut
<1>5. channelQueue[1] \in DOMAIN channels
  BY <1>3 DEF IInv, Bank, Range
<1>6. head.openBlock \in Nat /\ channels[id].openBlock \in Nat /\ origin \in Nat
  BY <1>5, ChannelBankAssumption DEF IInv, Bank, Good, IsChannel
<1>7. head.openBlock <= channels[id].openBlock
  <2>1. CASE i = 1
    BY <1>2, <1>6, <2>1
  <2>2. CASE i # 1
    <3>1. 1 < i
      BY <1>1, <1>2, <2>2
    <3> QED BY <1>2, <1>3, <3>1 DEF IInv, Bank
  <2> QED BY <2>1, <2>2
<1> HIDE DEF head
<1> QED BY <1>4, <1>6, <1>7, ChannelBankAssumption DEF TimedOut

(* Read never leaves an expired channel behind a live head of the queue. *)
THEOREM NeverExpiredBehindHead == Spec => []NoExpiredBehindHead
BY SpecIInv, IInvNoExpired, PTL

(* With Canyon active the pipeline leaves an L1 block only when no channel *)
(* of the bank is ready.                                                   *)
THEOREM NeverReadyLeftBehind == Spec => NoReadyLeftBehind
<1>1. IInv /\ [Next]_vars =>
        [origin' > origin /\ origin >= CanyonOrigin =>
           \A id \in DOMAIN channels : ~IsReady(channels[id])]_vars
  <2> SUFFICES ASSUME IInv, Next, origin' > origin, origin >= CanyonOrigin,
                      NEW id \in DOMAIN channels
               PROVE  ~IsReady(channels[id])
    OBVIOUS
  <2>1. origin \in Nat
    BY ChannelBankAssumption DEF IInv
  <2>2. AdvanceL1Block
    BY <2>1 DEF Next, ReadTimedOut, ReadChannel, NextFrame, NextTransaction, Reset
  <2>3. ~TimedOut(channels[id]) /\ Readable = {}
    BY <2>2, IInvNoExpired DEF AdvanceL1Block, NoExpiredBehindHead, NothingToRead
  <2>4. PICK i \in DOMAIN channelQueue : channelQueue[i] = id
    BY DEF IInv, Bank, Range
  <2>5. i \in ReadScope
    BY <2>1, <2>4, LenProperties, ChannelBankAssumption DEF ReadScope, IInv, Bank
  <2> QED BY <2>3, <2>4, <2>5 DEF Readable, ReadableAt
<1> QED BY <1>1, SpecIInv, PTL DEF Spec, NoReadyLeftBehind
=============================================================================
