-------------------------- MODULE UnsafeSyncProofs --------------------------
(***************************************************************************)
(* Proofs about UnsafeSync, for any blocks, any parents, any answers of    *)
(* peers, any capacities of the quarantine and of the channels, and any    *)
(* memory limit of the payloads queue.                                     *)
(***************************************************************************)
EXTENDS UnsafeSync, FiniteSetTheorems, SequenceTheorems, WellFoundedInduction, TLAPS

-----------------------------------------------------------------------------
(* The inductive invariant                                                 *)

(* The blocks the driver works on, and the range it is blocked on.         *)
DriverInv ==
    /\ heard \subseteq Gossiped
    /\ unsafeL2Payloads \in Seq(Payloads)
    /\ pq \subseteq Payloads \cap GossipedChain
    /\ ToSet(unsafeL2Payloads) \subseteq GossipedChain
    /\ unsafeHead = Genesis \/ unsafeHead \in Payloads \cap GossipedChain
    /\ requesting # None =>
           requesting.start \in Nat /\ requesting.end \in Payloads \cap GossipedChain

(* Every hash that the sync client trusts is one of the gossiped chain,    *)
(* what it hands over is trusted, and what peers answer with is neither.   *)
TrustInv ==
    /\ results \in Seq(Payloads)
    /\ trusted \subseteq GossipedChain
    /\ promoting # None => promoting \in Payloads \cap GossipedChain

(* The quarantine q and the index by number agree: a number is indexed to  *)
(* a block of that number in the quarantine.                               *)
Indexed(q, index) ==
    /\ q \in Seq(Payloads)
    /\ index \in [Numbers -> Payloads \cup {None}]
    /\ \A n \in Numbers : index[n] # None => BlockNumber[index[n]] = n /\ index[n] \in ToSet(q)

(* The memory that the payloads queue has counted is what it holds, within *)
(* the limit.                                                              *)
MemoryAccounted == currentSize = SizeOf(pq) /\ currentSize <= MaxSize

(* The payloads queue also knows the hashes of all it holds.               *)
QueueInv ==
    /\ IsFiniteSet(pq) /\ pq \subseteq blockHashes
    /\ MemoryAccounted

IInv == DriverInv /\ TrustInv /\ Indexed(quarantine, quarantineByNum) /\ QueueInv

-----------------------------------------------------------------------------
(* Sums over finite sets                                                   *)

LEMMA NatLess == \A x, y \in Nat : y < x => <<y, x>> \in OpToRel(<, Nat)
  BY DEF OpToRel

LEMMA NatMinimal ==
    ASSUME NEW R, IsWellFoundedOn(R, Nat), \A x, y \in Nat : y < x => <<y, x>> \in R,
           NEW S \in SUBSET Nat, S # {}
    PROVE  \E x \in S : \A y \in S : x <= y
<1>1. PICK x \in S : \A y \in S : ~(<<y, x>> \in R)
  BY WFMin
<1>2. \A y \in S : ~(y < x)
  BY <1>1
<1>3. \A y \in S : x <= y
  BY <1>2
<1> QED BY <1>3

LEMMA Smallest ==
    ASSUME NEW S \in SUBSET Nat, S # {}
    PROVE  \E x \in S : \A y \in S : x <= y
  BY NatLess, NatLessThanWellFounded, NatMinimal, Zenon

(* A family of finite sets that is not empty has a smallest one. *)
LEMMA SmallestSet ==
    ASSUME NEW F, F # {}, \A S \in F : IsFiniteSet(S)
    PROVE  \E S \in F : \A T \in F : Cardinality(S) <= Cardinality(T)
<1> DEFINE C == {Cardinality(S) : S \in F}
<1>1. C \in SUBSET Nat /\ C # {}
  BY FS_CardinalityType
<1>2. PICK n \in C : \A m \in C : n <= m
  BY <1>1, Smallest
<1> QED BY <1>2

LEMMA SetWithout ==
    ASSUME NEW S, IsFiniteSet(S), NEW x \in S
    PROVE  IsFiniteSet(S \ {x}) /\ Cardinality(S \ {x}) < Cardinality(S)
           /\ Cardinality(S \ {x}) = Cardinality(S) - 1 /\ Cardinality(S) \in Nat
<1>1. IsFiniteSet(S \ {x}) /\ Cardinality(S \ {x}) = Cardinality(S) - 1
  BY FS_RemoveElement
<1>2. Cardinality(S) \in Nat
  BY FS_CardinalityType
<1> QED BY <1>1, <1>2

(* What SumFunctionOnSet is defined by. *)
Chosen(S) == CHOOSE x \in S : TRUE

SumStep(f, g, s) == IF s = {} THEN 0 ELSE f[Chosen(s)] + g[s \ {Chosen(s)}]

IsSum(f, S, g) == g = [s \in SUBSET S |-> SumStep(f, g, s)]

LEMMA SumIs ==
    ASSUME NEW f, NEW S
    PROVE  SumFunctionOnSet(f, S) = (CHOOSE g : IsSum(f, S, g))[S]
  BY DEF SumFunctionOnSet, FoldFunctionOnSet, MapThenFoldSet, IsSum, SumStep, Chosen

LEMMA AnyIn ==
    ASSUME NEW S, S # {}
    PROVE  Chosen(S) \in S
  BY DEF Chosen

(* The sums of the subsets of at most k elements. *)
SumUpTo(f, S, k, g) ==
    /\ g = [s \in SUBSET S |-> g[s]]
    /\ \A s \in SUBSET S : Cardinality(s) <= k => g[s] = SumStep(f, g, s)

LEMMA SumUpToNext ==
    ASSUME NEW f, NEW S, IsFiniteSet(S), NEW k \in Nat, NEW g, SumUpTo(f, S, k, g)
    PROVE  SumUpTo(f, S, k + 1, [s \in SUBSET S |-> SumStep(f, g, s)])
<1> DEFINE h == [s \in SUBSET S |-> SumStep(f, g, s)]
<1>1. h = [s \in SUBSET S |-> h[s]]
  OBVIOUS
<1>2. ASSUME NEW s \in SUBSET S, Cardinality(s) <= k + 1
      PROVE  h[s] = SumStep(f, h, s)
  <2>1. CASE s = {}
    BY <2>1 DEF SumStep
  <2>2. CASE s # {}
    <3> DEFINE t == s \ {Chosen(s)}
    <3>1. Chosen(s) \in s /\ t \in SUBSET S
      BY <2>2, AnyIn
    <3>2. Cardinality(t) <= k
      <4>1. IsFiniteSet(s)
        BY FS_Subset
      <4> QED BY <1>2, <3>1, <4>1, SetWithout
    <3>3. h[t] = g[t]
      BY <3>1, <3>2 DEF SumUpTo
    <3> QED BY <2>2, <3>3 DEF SumStep
  <2> QED BY <2>1, <2>2
<1> HIDE DEF h
<1> QED BY <1>1, <1>2 DEF SumUpTo, h

LEMMA SumExists ==
    ASSUME NEW f, NEW S, IsFiniteSet(S)
    PROVE  \E g : IsSum(f, S, g)
<1> DEFINE Bad == {k \in Nat : \A g : ~SumUpTo(f, S, k, g)}
<1>1. 0 \notin Bad
  <2> DEFINE g == [s \in SUBSET S |-> 0]
  <2>1. \A s \in SUBSET S : Cardinality(s) <= 0 => s = {}
    BY FS_Subset, FS_EmptySet, FS_CardinalityType
  <2>2. SumUpTo(f, S, 0, g)
    BY <2>1 DEF SumUpTo, SumStep
  <2> QED BY <2>2
<1>2. \A k \in Nat : k \notin Bad => k + 1 \notin Bad
  BY SumUpToNext
<1>3. Bad = {}
  <2>1. SUFFICES ASSUME Bad # {} PROVE FALSE
    OBVIOUS
  <2> Bad \in SUBSET Nat
    OBVIOUS
  <2> HIDE DEF Bad
  <2>2. PICK k \in Bad : \A j \in Bad : k <= j
    BY <2>1, Smallest
  <2>3. k \in Nat /\ k # 0
    BY <1>1, <2>2
  <2>4. k - 1 \in Nat /\ ~(k <= k - 1) /\ k - 1 + 1 = k
    BY <2>3
  <2>5. k - 1 \notin Bad
    BY <2>2, <2>4
  <2> QED BY <1>2, <2>2, <2>4, <2>5
<1>4. Cardinality(S) \in Nat
  BY FS_CardinalityType
<1>5. PICK g : SumUpTo(f, S, Cardinality(S), g)
  BY <1>3, <1>4
<1>6. \A s \in SUBSET S : Cardinality(s) <= Cardinality(S)
  BY FS_Subset
<1>7. IsSum(f, S, g)
  BY <1>5, <1>6 DEF SumUpTo, IsSum
<1> QED BY <1>7

(* Two such functions agree where what they sum agrees. *)
LEMMA SumUnique ==
    ASSUME NEW e, NEW f, NEW S, NEW T, NEW g, NEW h, IsSum(e, S, g), IsSum(f, T, h),
           NEW U, IsFiniteSet(U), U \subseteq S, U \subseteq T, \A x \in U : e[x] = f[x]
    PROVE  g[U] = h[U]
<1> DEFINE Bad == {V \in SUBSET U : g[V] # h[V]}
<1>1. SUFFICES ASSUME Bad # {} PROVE FALSE
  OBVIOUS
<1>2. \A V \in Bad : IsFiniteSet(V)
  BY FS_Subset
<1>3. PICK V \in Bad : \A W \in Bad : Cardinality(V) <= Cardinality(W)
  BY <1>1, <1>2, SmallestSet, Zenon
<1>4. g[V] = SumStep(e, g, V) /\ h[V] = SumStep(f, h, V)
  BY DEF IsSum
<1>5. V # {}
  BY <1>4 DEF SumStep
<1> DEFINE W == V \ {Chosen(V)}
<1>6. Chosen(V) \in V /\ IsFiniteSet(V)
  BY <1>2, <1>5, AnyIn
<1>7. Cardinality(W) < Cardinality(V) /\ IsFiniteSet(W) /\ Cardinality(V) \in Nat
  BY <1>6, SetWithout
<1>8. Cardinality(W) \in Nat
  BY <1>7, FS_CardinalityType
<1>9. W \notin Bad
  BY <1>3, <1>7, <1>8
<1>10. g[W] = h[W]
  BY <1>9
<1>11. e[Chosen(V)] = f[Chosen(V)]
  BY <1>6
<1> QED BY <1>4, <1>5, <1>10, <1>11 DEF SumStep

LEMMA SumSame ==
    ASSUME NEW e, NEW f, NEW S, IsFiniteSet(S), \A x \in S : e[x] = f[x]
    PROVE  SumFunctionOnSet(e, S) = SumFunctionOnSet(f, S)
<1> DEFINE g == CHOOSE g : IsSum(e, S, g)
           h == CHOOSE h : IsSum(f, S, h)
<1>1. IsSum(e, S, g) /\ IsSum(f, S, h)
  BY SumExists
<1> HIDE DEF g, h
<1>2. g[S] = h[S]
  BY <1>1, SumUnique
<1> QED BY <1>2, SumIs DEF g, h

LEMMA SumChosen ==
    ASSUME NEW f, NEW S, IsFiniteSet(S), S # {}
    PROVE  SumFunctionOnSet(f, S) = f[Chosen(S)] + SumFunctionOnSet(f, S \ {Chosen(S)})
<1> DEFINE T == S \ {Chosen(S)}
           g == CHOOSE g : IsSum(f, S, g)
           h == CHOOSE h : IsSum(f, T, h)
<1>1. IsFiniteSet(T)
  BY FS_Subset
<1>2. IsSum(f, S, g) /\ IsSum(f, T, h)
  BY <1>1, SumExists
<1>3. SumFunctionOnSet(f, S) = g[S] /\ SumFunctionOnSet(f, T) = h[T]
  BY SumIs
<1> HIDE DEF g, h
<1>4. g[T] = h[T]
  BY <1>1, <1>2, SumUnique
<1>5. g[S] = SumStep(f, g, S)
  BY <1>2 DEF IsSum
<1>6. SumStep(f, g, S) = f[Chosen(S)] + g[S \ {Chosen(S)}]
  BY DEF SumStep
<1> QED BY <1>3, <1>4, <1>5, <1>6

LEMMA SumEmpty ==
    ASSUME NEW f
    PROVE  SumFunctionOnSet(f, {}) = 0
<1> DEFINE g == CHOOSE g : IsSum(f, {}, g)
<1>1. IsSum(f, {}, g)
  BY SumExists, FS_EmptySet
<1>2. SumFunctionOnSet(f, {}) = g[{}]
  BY SumIs
<1> HIDE DEF g
<1> QED BY <1>1, <1>2 DEF IsSum, SumStep

LEMMA SumNat ==
    ASSUME NEW f, NEW S, IsFiniteSet(S), \A x \in S : f[x] \in Nat
    PROVE  SumFunctionOnSet(f, S) \in Nat
<1> DEFINE Bad == {T \in SUBSET S : SumFunctionOnSet(f, T) \notin Nat}
<1>1. SUFFICES ASSUME Bad # {} PROVE FALSE
  OBVIOUS
<1>2. \A T \in Bad : IsFiniteSet(T)
  BY FS_Subset
<1>3. PICK T \in Bad : \A U \in Bad : Cardinality(T) <= Cardinality(U)
  BY <1>1, <1>2, SmallestSet, Zenon
<1>4. T # {}
  BY SumEmpty
<1> DEFINE U == T \ {Chosen(T)}
<1>5. Chosen(T) \in T /\ IsFiniteSet(T)
  BY <1>2, <1>4, AnyIn
<1>6. SumFunctionOnSet(f, T) = f[Chosen(T)] + SumFunctionOnSet(f, U)
  BY <1>4, <1>5, SumChosen
<1>7. Cardinality(U) < Cardinality(T) /\ IsFiniteSet(U) /\ Cardinality(T) \in Nat
  BY <1>5, SetWithout
<1>8. Cardinality(U) \in Nat
  BY <1>7, FS_CardinalityType
<1>9. U \notin Bad
  BY <1>3, <1>7, <1>8
<1>10. SumFunctionOnSet(f, U) \in Nat /\ f[Chosen(T)] \in Nat
  BY <1>5, <1>9
<1> QED BY <1>6, <1>10

(* One more element. *)
LEMMA SumAdd ==
    ASSUME NEW f, NEW S, IsFiniteSet(S), NEW x, x \notin S, \A y \in S \cup {x} : f[y] \in Nat
    PROVE  SumFunctionOnSet(f, S \cup {x}) = f[x] + SumFunctionOnSet(f, S)
<1> DEFINE V == S \cup {x}
           Sum(T) == SumFunctionOnSet(f, T)
           Bad == {T \in SUBSET V : \E y \in T : Sum(T) # f[y] + Sum(T \ {y})}
<1>1. IsFiniteSet(V)
  BY FS_AddElement
<1>2. \A T \in SUBSET V : IsFiniteSet(T) /\ Sum(T) \in Nat
  BY <1>1, FS_Subset, SumNat
<1>3. Bad = {}
  <2>1. SUFFICES ASSUME Bad # {} PROVE FALSE
    OBVIOUS
  <2>2. \A T \in Bad : IsFiniteSet(T)
    BY <1>2
  <2>3. PICK T \in Bad : \A U \in Bad : Cardinality(T) <= Cardinality(U)
    BY <2>1, <2>2, SmallestSet, Zenon
  <2>4. PICK y \in T : Sum(T) # f[y] + Sum(T \ {y})
    BY <2>3
  <2> DEFINE z == Chosen(T)
  <2>5. z \in T /\ IsFiniteSet(T)
    BY <2>2, <2>4, AnyIn
  <2>6. Sum(T) = f[z] + Sum(T \ {z})
    BY <2>4, <2>5, SumChosen
  <2> HIDE DEF z
  <2>7. y # z
    BY <2>4, <2>6
  <2>8. \A u \in T : Cardinality(T \ {u}) < Cardinality(T) /\ Cardinality(T \ {u}) \in Nat
                      /\ Cardinality(T) \in Nat
    BY <2>5, SetWithout, FS_CardinalityType
  <2>9. \A u \in T : T \ {u} \notin Bad
    BY <2>3, <2>8
  <2>10. Sum(T \ {z}) = f[y] + Sum((T \ {z}) \ {y})
    BY <2>5, <2>7, <2>9
  <2>11. Sum(T \ {y}) = f[z] + Sum((T \ {y}) \ {z})
    BY <2>5, <2>7, <2>9
  <2>12. (T \ {z}) \ {y} = (T \ {y}) \ {z}
    OBVIOUS
  <2>13. Sum((T \ {y}) \ {z}) \in Nat /\ f[y] \in Nat /\ f[z] \in Nat
    BY <1>2, <2>5
  <2> DEFINE w == Sum((T \ {y}) \ {z})
  <2> HIDE DEF Sum, w
  <2>14. Sum(T) = f[z] + (f[y] + w)
    BY <2>6, <2>10, <2>12 DEF w
  <2>15. f[y] + Sum(T \ {y}) = f[y] + (f[z] + w)
    BY <2>11 DEF w
  <2>16. f[z] + (f[y] + w) = f[y] + (f[z] + w)
    BY <2>13 DEF w
  <2> QED BY <2>4, <2>14, <2>15, <2>16
<1>4. V \notin Bad /\ x \in V /\ V \ {x} = S
  BY <1>3
<1> HIDE DEF Sum
<1>5. Sum(V) = f[x] + Sum(S)
  BY <1>4
<1> QED BY <1>5 DEF Sum

(* Two disjoint sets. *)
LEMMA SumDisjoint ==
    ASSUME NEW f, NEW A, NEW B, IsFiniteSet(A), IsFiniteSet(B), A \cap B = {},
           \A y \in A \cup B : f[y] \in Nat
    PROVE  SumFunctionOnSet(f, A \cup B) = SumFunctionOnSet(f, A) + SumFunctionOnSet(f, B)
<1> DEFINE Sum(T) == SumFunctionOnSet(f, T)
           Bad == {T \in SUBSET B : Sum(A \cup T) # Sum(A) + Sum(T)}
<1>1. SUFFICES ASSUME Bad # {} PROVE FALSE
  OBVIOUS
<1>2. \A T \in SUBSET B : IsFiniteSet(T) /\ Sum(T) \in Nat
  BY FS_Subset, SumNat
<1>3. Sum(A) \in Nat
  BY SumNat
<1>4. PICK T \in Bad : \A U \in Bad : Cardinality(T) <= Cardinality(U)
  BY <1>1, <1>2, SmallestSet, Zenon
<1>5. T # {}
  <2>1. ASSUME T = {} PROVE FALSE
    <3>1. A \cup T = A
      BY <2>1
    <3>2. Sum(A \cup T) = Sum(A)
      BY <3>1
    <3>3. Sum(T) = 0
      BY <2>1, SumEmpty
    <3> HIDE DEF Sum
    <3> QED BY <1>3, <1>4, <3>2, <3>3
  <2> QED BY <2>1
<1>6. PICK z \in T : TRUE
  BY <1>5
<1> DEFINE U == T \ {z}
<1>7. Cardinality(U) < Cardinality(T) /\ IsFiniteSet(U) /\ Cardinality(T) \in Nat
  BY <1>2, <1>6, SetWithout
<1>8. Cardinality(U) \in Nat
  BY <1>7, FS_CardinalityType
<1>9. U \notin Bad
  BY <1>4, <1>7, <1>8
<1>10. Sum(A \cup U) = Sum(A) + Sum(U)
  BY <1>9
<1>11. Sum(T) = f[z] + Sum(U)
  <2>1. T = U \cup {z} /\ z \notin U
    BY <1>6
  <2>2. \A y \in U \cup {z} : f[y] \in Nat
    BY <1>6
  <2> HIDE DEF U
  <2> QED BY <1>7, <2>1, <2>2, SumAdd
<1>12. Sum(A \cup T) = f[z] + Sum(A \cup U)
  <2>1. A \cup T = (A \cup U) \cup {z} /\ z \notin A \cup U
    BY <1>6
  <2>2. \A y \in (A \cup U) \cup {z} : f[y] \in Nat
    BY <1>6
  <2>3. IsFiniteSet(A \cup U)
    BY <1>7, FS_Union
  <2> HIDE DEF U
  <2> QED BY <2>1, <2>2, <2>3, SumAdd
<1>13. f[z] \in Nat /\ Sum(U) \in Nat
  BY <1>2, <1>6
<1> HIDE DEF Sum
<1>14. Sum(A \cup T) = Sum(A) + Sum(T)
  BY <1>3, <1>10, <1>11, <1>12, <1>13
<1> QED BY <1>4, <1>14

-----------------------------------------------------------------------------
(* Sequences of blocks                                                     *)

LEMMA InSet ==
    ASSUME NEW S, NEW s \in Seq(S)
    PROVE  /\ ToSet(s) \subseteq S /\ ToSet(s) = {s[i] : i \in 1..Len(s)} /\ Len(s) \in Nat
           /\ DOMAIN s = 1..Len(s)
<1>1. DOMAIN s = 1..Len(s) /\ Len(s) \in Nat
  BY LenProperties
<1>2. \A i \in 1..Len(s) : s[i] \in S
  BY ElementOfSeq
<1> QED BY <1>1, <1>2 DEF ToSet

LEMMA AppendSet ==
    ASSUME NEW S, NEW s \in Seq(S), NEW x \in S
    PROVE  Append(s, x) \in Seq(S) /\ ToSet(Append(s, x)) = ToSet(s) \cup {x}
<1> DEFINE a == Append(s, x)
<1>1. /\ a \in Seq(S) /\ Len(a) = Len(s) + 1 /\ Len(s) \in Nat
      /\ \A i \in 1..Len(s) : a[i] = s[i]
      /\ a[Len(s) + 1] = x
  BY AppendProperties, LenProperties
<1> HIDE DEF a
<1>2. 1..Len(a) = (1..Len(s)) \cup {Len(s) + 1}
  BY <1>1
<1>3. ToSet(a) = {a[i] : i \in 1..Len(a)} /\ ToSet(s) = {s[i] : i \in 1..Len(s)}
  BY <1>1, InSet
<1>4. ToSet(a) = ToSet(s) \cup {x}
  BY <1>1, <1>2, <1>3
<1> QED BY <1>1, <1>4 DEF a

(* The first of a sequence and the rest. *)
LEMMA HeadSet ==
    ASSUME NEW S, NEW s \in Seq(S), s # <<>>
    PROVE  /\ Head(s) \in S /\ Head(s) \in ToSet(s) /\ Tail(s) \in Seq(S)
           /\ ToSet(s) = ToSet(Tail(s)) \cup {Head(s)}
<1> DEFINE t == Tail(s)
<1>1. /\ Head(s) = s[1] /\ Head(s) \in S /\ t \in Seq(S) /\ Len(t) = Len(s) - 1
      /\ \A i \in 1..Len(t) : t[i] = s[i + 1]
  BY HeadTailProperties
<1>2. Len(s) \in Nat /\ Len(s) # 0
  BY LenProperties, EmptySeq
<1> HIDE DEF t
<1>3. ToSet(t) = {t[i] : i \in 1..Len(t)} /\ ToSet(s) = {s[i] : i \in 1..Len(s)}
  BY <1>1, InSet
<1>4. \A i \in 1..Len(s) : i = 1 \/ (i - 1 \in 1..Len(t) /\ i - 1 + 1 = i)
  BY <1>1, <1>2
<1>5. \A i \in 1..Len(s) : i = 1 \/ (i - 1 \in 1..Len(t) /\ t[i - 1] = s[i])
  BY <1>1, <1>4
<1>6. \A i \in 1..Len(t) : i + 1 \in 1..Len(s)
  BY <1>1, <1>2
<1>7. 1 \in 1..Len(s)
  BY <1>2
<1>8. ToSet(s) \subseteq ToSet(t) \cup {s[1]}
  BY <1>3, <1>5
<1>9. ToSet(t) \cup {s[1]} \subseteq ToSet(s)
  BY <1>1, <1>3, <1>6, <1>7
<1> QED BY <1>1, <1>3, <1>7, <1>8, <1>9 DEF t

LEMMA RemoveAtFacts ==
    ASSUME NEW S, NEW q \in Seq(S), NEW i \in 1..Len(q)
    PROVE  /\ RemoveAt(q, i) \in Seq(S)
           /\ Len(RemoveAt(q, i)) = Len(q) - 1
           /\ \A j \in 1..(Len(q) - 1) :
                RemoveAt(q, i)[j] = IF j < i THEN q[j] ELSE q[j + 1]
<1> DEFINE s == SubSeq(q, 1, i - 1)
           t == SubSeq(q, i + 1, Len(q))
<1>1. /\ Len(q) \in Nat
      /\ \A j \in 1..Len(q) : q[j] \in S
  BY LenProperties, ElementOfSeq
<1>2. /\ s \in Seq(S)
      /\ Len(s) = i - 1
      /\ \A j \in 1..(i - 1) : s[j] = q[j]
  <2>1. \A j \in 1..(i - 1) : q[j] \in S
    BY <1>1
  <2>2. /\ s \in Seq(S)
        /\ Len(s) = IF 1 <= i - 1 THEN (i - 1) - 1 + 1 ELSE 0
        /\ \A j \in 1..((i - 1) - 1 + 1) : s[j] = q[1 + j - 1]
    BY <1>1, <2>1, SubSeqProperties
  <2> QED BY <1>1, <2>2
<1>3. /\ t \in Seq(S)
      /\ Len(t) = Len(q) - i
      /\ \A j \in 1..(Len(q) - i) : t[j] = q[i + j]
  <2>1. \A j \in (i + 1)..Len(q) : q[j] \in S
    BY <1>1
  <2>2. /\ t \in Seq(S)
        /\ Len(t) = IF i + 1 <= Len(q) THEN Len(q) - (i + 1) + 1 ELSE 0
        /\ \A j \in 1..(Len(q) - (i + 1) + 1) : t[j] = q[(i + 1) + j - 1]
    BY <1>1, <2>1, SubSeqProperties
  <2> QED BY <1>1, <2>2
<1>4. /\ s \o t \in Seq(S)
      /\ Len(s \o t) = Len(s) + Len(t)
      /\ \A j \in 1..(Len(s) + Len(t)) :
           (s \o t)[j] = IF j <= Len(s) THEN s[j] ELSE t[j - Len(s)]
  BY <1>2, <1>3, ConcatProperties
<1>5. RemoveAt(q, i) = s \o t
  BY DEF RemoveAt
<1> HIDE DEF s, t
<1>6. Len(s) + Len(t) = Len(q) - 1
  BY <1>1, <1>2, <1>3
<1>7. \A j \in 1..(Len(q) - 1) : (s \o t)[j] = IF j < i THEN q[j] ELSE q[j + 1]
  <2> TAKE j \in 1..(Len(q) - 1)
  <2>1. (s \o t)[j] = IF j <= Len(s) THEN s[j] ELSE t[j - Len(s)]
    BY <1>4, <1>6
  <2>2. CASE j < i
    BY <1>1, <1>2, <2>1, <2>2
  <2>3. CASE ~(j < i)
    <3>1. j - (i - 1) \in 1..(Len(q) - i)
      BY <1>1, <2>3
    <3>2. t[j - (i - 1)] = q[i + (j - (i - 1))]
      BY <1>3, <3>1
    <3>3. i + (j - (i - 1)) = j + 1 /\ ~(j <= i - 1)
      BY <1>1, <2>3
    <3> QED BY <1>2, <2>1, <2>3, <3>2, <3>3
  <2> QED BY <2>2, <2>3
<1> QED BY <1>4, <1>5, <1>6, <1>7

(* Removing h leaves every other block. *)
LEMMA WithoutFacts ==
    ASSUME NEW S, NEW s \in Seq(S), NEW h
    PROVE  /\ Without(s, h) \in Seq(S) /\ Len(Without(s, h)) <= Len(s)
           /\ ToSet(s) \ {h} \subseteq ToSet(Without(s, h))
           /\ ToSet(Without(s, h)) \subseteq ToSet(s)
<1>1. Len(s) \in Nat /\ ToSet(s) = {s[i] : i \in 1..Len(s)} /\ \A i \in 1..Len(s) : s[i] \in S
  BY InSet, ElementOfSeq
<1>2. CASE ~\E i \in 1..Len(s) : s[i] = h
  BY <1>1, <1>2 DEF Without, RemoveFirst
<1>3. CASE \E i \in 1..Len(s) : s[i] = h
  <2> DEFINE I == {i \in 1..Len(s) : s[i] = h}
  <2>1. I # {} /\ I \in SUBSET Nat
    BY <1>1, <1>3
  <2>2. Min(I) \in I
    <3>1. \E x \in I : \A y \in I : x <= y
      BY <2>1, Smallest
    <3> QED BY <3>1 DEF Min
  <2>3. Without(s, h) = RemoveAt(s, Min(I))
    BY <1>3 DEF Without, RemoveFirst, SelectInSeq
  <2> DEFINE k == Min(I)
             w == RemoveAt(s, k)
  <2>4. k \in 1..Len(s) /\ s[k] = h
    BY <2>2
  <2> HIDE DEF k, I
  <2>5. /\ w \in Seq(S) /\ Len(w) = Len(s) - 1
        /\ \A j \in 1..(Len(s) - 1) : w[j] = IF j < k THEN s[j] ELSE s[j + 1]
    BY <2>4, RemoveAtFacts
  <2> HIDE DEF w
  <2>6. ToSet(w) = {w[j] : j \in 1..(Len(s) - 1)}
    BY <2>5, InSet
  <2>7. \A j \in 1..(Len(s) - 1) : j \in 1..Len(s) /\ j + 1 \in 1..Len(s)
    BY <1>1
  <2>8. ToSet(w) \subseteq ToSet(s)
    BY <1>1, <2>5, <2>6, <2>7
  <2>9. ASSUME NEW i \in 1..Len(s), s[i] # h PROVE s[i] \in ToSet(w)
    <3>1. CASE i < k
      <4>1. i \in 1..(Len(s) - 1)
        BY <1>1, <2>4, <3>1
      <4> QED BY <2>5, <2>6, <3>1, <4>1
    <3>2. CASE i > k
      <4>1. i - 1 \in 1..(Len(s) - 1) /\ ~(i - 1 < k) /\ i - 1 + 1 = i
        BY <1>1, <2>4, <3>2
      <4>2. w[i - 1] = s[i]
        BY <2>5, <4>1
      <4> QED BY <2>6, <4>1, <4>2
    <3>3. i < k \/ i > k
      BY <1>1, <2>4, <2>9
    <3> QED BY <3>1, <3>2, <3>3
  <2>10. ToSet(s) \ {h} \subseteq ToSet(w)
    BY <1>1, <2>9
  <2>11. Without(s, h) = w
    BY <2>3 DEF w, k, I
  <2> QED BY <1>1, <2>5, <2>8, <2>10, <2>11
<1> QED BY <1>2, <1>3

LEMMA TouchedFacts ==
    ASSUME NEW S, NEW s \in Seq(S), NEW h
    PROVE  Touched(s, h) \in Seq(S) /\ ToSet(Touched(s, h)) = ToSet(s)
<1>1. CASE h \notin ToSet(s)
  BY <1>1 DEF Touched
<1>2. CASE h \in ToSet(s)
  <2>1. h \in S
    BY <1>2, InSet
  <2>2. /\ Without(s, h) \in Seq(S)
        /\ ToSet(s) \ {h} \subseteq ToSet(Without(s, h)) /\ ToSet(Without(s, h)) \subseteq ToSet(s)
    BY WithoutFacts
  <2>3. /\ Append(Without(s, h), h) \in Seq(S)
        /\ ToSet(Append(Without(s, h), h)) = ToSet(Without(s, h)) \cup {h}
    BY <2>1, <2>2, AppendSet
  <2> QED BY <1>2, <2>2, <2>3 DEF Touched
<1> QED BY <1>1, <1>2

LEMMA RescheduledType ==
    ASSUME NEW S, NEW res \in Seq(S), NEW q \in Seq(S), NEW h
    PROVE  Rescheduled(res, q, h) \in Seq(S)
<1>1. h \in ToSet(q) => h \in S
  BY InSet
<1> QED BY <1>1, AppendSet DEF Rescheduled

-----------------------------------------------------------------------------
(* Gossiped chains                                                         *)

LEMMA Parents ==
    /\ Genesis \notin Payloads /\ ParentHash \in [Payloads -> Blocks]
    /\ Gossiped \subseteq Payloads /\ Served \subseteq Payloads
    /\ BlockNumber \in [Payloads -> Nat] /\ PayloadSize \in [Payloads -> Nat] /\ MaxSize \in Nat
    /\ QuarantineSize \in Nat \ {0}
  BY UnsafeSyncAssumption, PayloadsQueueAssumption DEF Blocks

LEMMA NumberType ==
    ASSUME NEW b \in Payloads
    PROVE  Number(b) = BlockNumber[b] /\ Number(b) \in Nat /\ Number(b) \in Numbers
  BY Parents DEF Number, Numbers

LEMMA AncestorFacts ==
    ASSUME NEW g \in Blocks
    PROVE  /\ Ancestors[g] \subseteq Blocks /\ g \in Ancestors[g]
           /\ \A a \in Ancestors[g] \ {Genesis} : ParentHash[a] \in Ancestors[g]
<1> DEFINE Closed(S) == \A b \in S \ {Genesis} : ParentHash[b] \in S
<1>1. Ancestors[g] = {a \in Blocks : \A S \in SUBSET Blocks : g \in S /\ Closed(S) => a \in S}
  BY DEF Ancestors
<1>2. ASSUME NEW a \in Ancestors[g] \ {Genesis}
      PROVE  ParentHash[a] \in Ancestors[g]
  <2>1. a \in Payloads
    BY <1>1 DEF Blocks
  <2>2. ParentHash[a] \in Blocks
    BY <2>1, Parents
  <2>3. ASSUME NEW S \in SUBSET Blocks, g \in S, Closed(S) PROVE ParentHash[a] \in S
    <3>1. a \in S
      BY <1>1, <2>3
    <3> QED BY <2>3, <3>1
  <2> QED BY <1>1, <2>2, <2>3
<1> QED BY <1>1, <1>2

(* What was gossiped is in it, and so is the parent of what is in it. *)
LEMMA ChainFacts ==
    ASSUME heard \subseteq Payloads
    PROVE  /\ heard \subseteq GossipedChain
           /\ \A b \in Payloads \cap GossipedChain : ParentHash[b] \in GossipedChain
<1>1. heard \subseteq Blocks
  BY DEF Blocks
<1>2. ASSUME NEW b \in Payloads \cap GossipedChain
      PROVE  ParentHash[b] \in GossipedChain
  <2>1. PICK g \in heard : b \in Ancestors[g]
    BY DEF GossipedChain
  <2>2. b # Genesis
    BY Parents
  <2>3. ParentHash[b] \in Ancestors[g]
    BY <1>1, <2>1, <2>2, AncestorFacts
  <2> QED BY <2>3 DEF GossipedChain
<1> QED BY <1>1, <1>2, AncestorFacts DEF GossipedChain

LEMMA ChainGrows ==
    ASSUME heard \subseteq heard'
    PROVE  GossipedChain \subseteq GossipedChain'
  BY DEF GossipedChain

-----------------------------------------------------------------------------
(* The loop of onRangeRequest                                              *)

(* A state of the loop that trusts T. *)
LoopState(s, T) ==
    /\ DOMAIN s = {"trusted", "lru", "inFlight", "reqs", "results", "stop"}
    /\ s.trusted = T
    /\ s.lru \in Seq(Payloads) /\ ToSet(s.lru) = ToSet(quarantine)
    /\ s.results \in Seq(Payloads)

LEMMA TurnKeeps ==
    ASSUME NEW T, NEW s, LoopState(s, T), NEW n
    PROVE  LoopState(RequestNumber(s, n), T)
<1> DEFINE h == quarantineByNum[n]
           used == RequestIds(s.reqs, n)
           id == CHOOSE i \in 0..Cardinality(used) : i \notin used
           res == Rescheduled(s.results, s.lru, h)
           lru == Touched(s.lru, h)
           promoted == [s EXCEPT !.results = Rescheduled(@, s.lru, h), !.lru = Touched(@, h)]
           full == [s EXCEPT !.stop = TRUE]
           requested == [s EXCEPT !.reqs = Append(@, [num |-> n, id |-> id]),
                                  !.inFlight[n] = [id |-> id, complete |-> FALSE]]
<1>1. RequestNumber(s, n) \in {s, promoted, full, requested}
  BY Zenon DEF RequestNumber
<1>2. res \in Seq(Payloads) /\ lru \in Seq(Payloads) /\ ToSet(lru) = ToSet(s.lru)
  BY RescheduledType, TouchedFacts DEF LoopState
<1>3. LoopState(promoted, T)
  <2>1. /\ promoted.results = res /\ promoted.lru = lru /\ promoted.trusted = s.trusted
        /\ DOMAIN promoted = DOMAIN s
    BY DEF LoopState
  <2> HIDE DEF promoted, res, lru
  <2> QED BY <1>2, <2>1 DEF LoopState
<1>4. LoopState(full, T)
  BY DEF LoopState
<1>5. LoopState(requested, T)
  <2>1. /\ requested.results = s.results /\ requested.lru = s.lru /\ requested.trusted = s.trusted
        /\ DOMAIN requested = DOMAIN s
    BY DEF LoopState
  <2> HIDE DEF requested
  <2> QED BY <2>1 DEF LoopState
<1> HIDE DEF promoted, full, requested
<1> QED BY <1>1, <1>3, <1>4, <1>5

LEMMA MaxOf ==
    ASSUME NEW n \in Nat, NEW S \in SUBSET (1..n), S # {}
    PROVE  Max(S) \in S
<1> DEFINE U == {n - x : x \in S}
<1>1. U \in SUBSET Nat /\ U # {}
  <2>1. \A x \in S : x \in 1..n
    OBVIOUS
  <2>2. \A x \in S : n - x \in Nat
    BY <2>1
  <2>3. PICK x \in S : TRUE
    OBVIOUS
  <2>4. n - x \in U
    BY <2>3
  <2> QED BY <2>2, <2>4
<1>2. PICK u \in U : \A y \in U : u <= y
  BY <1>1, Smallest
<1>3. PICK x \in S : u = n - x
  BY <1>2
<1>4. \A y \in S : n - y \in U
  OBVIOUS
<1> HIDE DEF U
<1>5. \A y \in S : x >= y
  BY <1>2, <1>3, <1>4
<1> QED BY <1>5 DEF Max

(* What FoldLeft is defined by, over the set of turns made. *)
LoopStep(base, down, g, s) ==
    IF s = {} THEN base ELSE RequestNumber(g[s \ {Max(s)}], down[Max(s)])

IsLoop(base, down, g) == g = [s \in SUBSET DOMAIN down |-> LoopStep(base, down, g, s)]

LEMMA LoopIs ==
    ASSUME NEW base, NEW down
    PROVE  FoldLeft(RequestNumber, base, down) = (CHOOSE g : IsLoop(base, down, g))[DOMAIN down]
  BY DEF FoldLeft, MapThenFoldSet, IsLoop, LoopStep

LoopUpTo(base, down, k, g) ==
    /\ g = [s \in SUBSET DOMAIN down |-> g[s]]
    /\ \A s \in SUBSET DOMAIN down : Cardinality(s) <= k => g[s] = LoopStep(base, down, g, s)

LEMMA LoopUpToNext ==
    ASSUME NEW base, NEW down, NEW n \in Nat, DOMAIN down = 1..n,
           NEW k \in Nat, NEW g, LoopUpTo(base, down, k, g)
    PROVE  LoopUpTo(base, down, k + 1, [s \in SUBSET DOMAIN down |-> LoopStep(base, down, g, s)])
<1> DEFINE D == DOMAIN down
           h == [s \in SUBSET D |-> LoopStep(base, down, g, s)]
<1>1. h = [s \in SUBSET D |-> h[s]]
  OBVIOUS
<1>2. ASSUME NEW s \in SUBSET D, Cardinality(s) <= k + 1
      PROVE  h[s] = LoopStep(base, down, h, s)
  <2>1. CASE s = {}
    BY <2>1 DEF LoopStep
  <2>2. CASE s # {}
    <3> DEFINE t == s \ {Max(s)}
    <3>1. Max(s) \in s /\ t \in SUBSET D
      BY <2>2, MaxOf
    <3>2. Cardinality(t) <= k
      <4>1. IsFiniteSet(1..n)
        BY FS_Interval
      <4>2. IsFiniteSet(s)
        BY <4>1, FS_Subset
      <4> QED BY <1>2, <3>1, <4>2, SetWithout
    <3>3. h[t] = g[t]
      BY <3>1, <3>2 DEF LoopUpTo
    <3> QED BY <2>2, <3>3 DEF LoopStep
  <2> QED BY <2>1, <2>2
<1> HIDE DEF h
<1> QED BY <1>1, <1>2 DEF LoopUpTo, h

LEMMA LoopExists ==
    ASSUME NEW base, NEW down, NEW n \in Nat, DOMAIN down = 1..n
    PROVE  \E g : IsLoop(base, down, g)
<1> DEFINE Bad == {k \in Nat : \A g : ~LoopUpTo(base, down, k, g)}
           D == DOMAIN down
<1>0. IsFiniteSet(D)
  BY FS_Interval
<1>1. 0 \notin Bad
  <2> DEFINE g == [s \in SUBSET D |-> base]
  <2>1. \A s \in SUBSET D : Cardinality(s) <= 0 => s = {}
    BY <1>0, FS_Subset, FS_EmptySet, FS_CardinalityType
  <2>2. LoopUpTo(base, down, 0, g)
    BY <2>1 DEF LoopUpTo, LoopStep
  <2> QED BY <2>2
<1>2. \A k \in Nat : k \notin Bad => k + 1 \notin Bad
  BY LoopUpToNext
<1>3. Bad = {}
  <2>1. SUFFICES ASSUME Bad # {} PROVE FALSE
    OBVIOUS
  <2> Bad \in SUBSET Nat
    OBVIOUS
  <2> HIDE DEF Bad
  <2>2. PICK k \in Bad : \A j \in Bad : k <= j
    BY <2>1, Smallest
  <2>3. k \in Nat /\ k # 0
    BY <1>1, <2>2
  <2>4. k - 1 \in Nat /\ ~(k <= k - 1) /\ k - 1 + 1 = k
    BY <2>3
  <2>5. k - 1 \notin Bad
    BY <2>2, <2>4
  <2> QED BY <1>2, <2>2, <2>4, <2>5
<1>4. Cardinality(D) \in Nat
  BY <1>0, FS_CardinalityType
<1>5. PICK g : LoopUpTo(base, down, Cardinality(D), g)
  BY <1>3, <1>4
<1>6. \A s \in SUBSET D : Cardinality(s) <= Cardinality(D)
  BY <1>0, FS_Subset
<1>7. IsLoop(base, down, g)
  BY <1>5, <1>6 DEF LoopUpTo, IsLoop
<1> QED BY <1>7

(* Every turn keeps it, so the loop does. *)
LEMMA LoopKeeps ==
    ASSUME NEW T, NEW base, LoopState(base, T), NEW down, NEW n \in Nat, DOMAIN down = 1..n
    PROVE  LoopState(FoldLeft(RequestNumber, base, down), T)
<1> DEFINE D == DOMAIN down
           g == CHOOSE g : IsLoop(base, down, g)
           Bad == {s \in SUBSET D : ~LoopState(g[s], T)}
<1>1. IsLoop(base, down, g)
  BY LoopExists
<1>2. FoldLeft(RequestNumber, base, down) = g[D]
  BY LoopIs
<1> HIDE DEF g
<1>3. Bad = {}
  <2>1. SUFFICES ASSUME Bad # {} PROVE FALSE
    OBVIOUS
  <2>2. \A s \in SUBSET D : IsFiniteSet(s)
    BY FS_Interval, FS_Subset
  <2>3. PICK s \in Bad : \A t \in Bad : Cardinality(s) <= Cardinality(t)
    BY <2>1, <2>2, SmallestSet, Zenon
  <2>4. g[s] = LoopStep(base, down, g, s)
    BY <1>1 DEF IsLoop
  <2>5. s # {}
    BY <2>4 DEF LoopStep
  <2> DEFINE t == s \ {Max(s)}
  <2>6. Max(s) \in s /\ IsFiniteSet(s)
    BY <2>2, <2>5, MaxOf
  <2>7. Cardinality(t) < Cardinality(s) /\ IsFiniteSet(t) /\ Cardinality(s) \in Nat
    BY <2>6, SetWithout
  <2>8. Cardinality(t) \in Nat
    BY <2>7, FS_CardinalityType
  <2>9. t \notin Bad
    BY <2>3, <2>7, <2>8
  <2>10. LoopState(g[t], T)
    BY <2>9
  <2>11. g[s] = RequestNumber(g[t], down[Max(s)])
    BY <2>4, <2>5 DEF LoopStep
  <2>12. LoopState(g[s], T)
    BY <2>10, <2>11, TurnKeeps
  <2> QED BY <2>12
<1>4. LoopState(g[D], T)
  BY <1>3
<1> QED BY <1>2, <1>4

(* A range request leaves the same blocks in quarantine, and trusts the    *)
(* target and its parent.                                                  *)
LEMMA RangeKeeps ==
    ASSUME heard \subseteq Payloads, TrustInv, Indexed(quarantine, quarantineByNum),
           NEW start \in Nat, NEW end \in Payloads \cap GossipedChain, OnRangeRequest(start, end)
    PROVE  /\ results' \in Seq(Payloads) /\ trusted' \subseteq GossipedChain
           /\ Indexed(quarantine', quarantineByNum') /\ promoting' = promoting
<1> DEFINE T == trusted \cup {end, ParentHash[end]}
           base == [trusted |-> T, lru |-> quarantine, inFlight |-> CleanedUp(inFlight),
                    reqs |-> peerRequests, results |-> results, stop |-> FALSE]
           down == [i \in 1..(Number(end) - 1 - start) |-> Number(end) - i]
           s == FoldLeft(RequestNumber, base, down)
<1>1. LoopState(base, T)
  BY DEF LoopState, TrustInv, Indexed
<1>2. PICK n \in Nat : DOMAIN down = 1..n
  <2> DEFINE d == Number(end) - 1 - start
  <2>1. d \in Int
    BY NumberType
  <2> HIDE DEF d
  <2>2. CASE d \in Nat
    BY <2>2 DEF d
  <2>3. CASE d \notin Nat
    <3>1. 1..d = {} /\ 1..0 = {}
      BY <2>1, <2>3
    <3> QED BY <3>1 DEF d
  <2> QED BY <2>2, <2>3
<1>3. /\ trusted' = s.trusted /\ quarantine' = s.lru /\ results' = s.results
      /\ quarantineByNum' = quarantineByNum /\ promoting' = promoting
  BY DEF OnRangeRequest
<1> HIDE DEF base, down
<1>4. LoopState(s, T)
  BY <1>1, <1>2, LoopKeeps
<1>5. T \subseteq GossipedChain
  BY ChainFacts DEF TrustInv
<1> HIDE DEF s, T
<1>6. /\ results' \in Seq(Payloads) /\ trusted' \subseteq GossipedChain
      /\ quarantine' \in Seq(Payloads) /\ ToSet(quarantine') = ToSet(quarantine)
  BY <1>3, <1>4, <1>5 DEF LoopState
<1> QED BY <1>3, <1>6 DEF Indexed

-----------------------------------------------------------------------------
(* The quarantine and its index                                            *)

(* A block leaves both. *)
LEMMA UnindexedFacts ==
    ASSUME NEW q, NEW index, Indexed(q, index), NEW b \in Payloads
    PROVE  Indexed(Without(q, b), Unindexed(index, b))
<1>1. /\ Without(q, b) \in Seq(Payloads)
      /\ ToSet(q) \ {b} \subseteq ToSet(Without(q, b))
  BY WithoutFacts DEF Indexed
<1>2. Unindexed(index, b) \in [Numbers -> Payloads \cup {None}]
  BY DEF Unindexed, Indexed
<1>3. ASSUME NEW n \in Numbers, Unindexed(index, b)[n] # None
      PROVE  /\ Unindexed(index, b)[n] = index[n] /\ index[n] # None
             /\ BlockNumber[index[n]] = n /\ index[n] \in ToSet(q) /\ index[n] # b
  <2>1. n # Number(b) /\ Unindexed(index, b)[n] = index[n]
    BY <1>3 DEF Unindexed, Indexed
  <2> QED BY <1>3, <2>1, NumberType DEF Indexed
<1> QED BY <1>1, <1>2, <1>3 DEF Indexed

LEMMA TouchedIndexed ==
    ASSUME NEW q, NEW index, Indexed(q, index), NEW h
    PROVE  Indexed(Touched(q, h), index)
  BY TouchedFacts DEF Indexed

(* A block enters both; what it evicts leaves both. *)
LEMMA AddedFacts ==
    ASSUME NEW q, NEW index, Indexed(q, index), NEW h \in Payloads
    PROVE  Indexed(Added(q, index, h)[1], Added(q, index, h)[2])
<1> DEFINE w == Without(q, h)
           lru == Append(w, h)
           e == Head(lru)
           t == Tail(lru)
           i1 == [index EXCEPT ![Number(h)] = h]
           i2 == [Unindexed(index, e) EXCEPT ![Number(h)] = h]
<1>1. w \in Seq(Payloads) /\ ToSet(q) \ {h} \subseteq ToSet(w)
  BY WithoutFacts DEF Indexed
<1>2. lru \in Seq(Payloads) /\ ToSet(lru) = ToSet(w) \cup {h}
  BY <1>1, AppendSet
<1>3. Len(lru) \in Nat /\ Len(lru) >= 1 /\ lru[Len(lru)] = h
  BY <1>1, AppendProperties, LenProperties
<1>4. Number(h) \in Numbers /\ BlockNumber[h] = Number(h)
  BY NumberType
<1>5. Added(q, index, h) = IF Len(lru) > QuarantineSize THEN <<t, i2>> ELSE <<lru, i1>>
  BY DEF Added
<1>6. Indexed(lru, i1)
  <2>1. i1 \in [Numbers -> Payloads \cup {None}]
    BY DEF Indexed
  <2>2. \A n \in Numbers : i1[n] = IF n = Number(h) THEN h ELSE index[n]
    BY DEF Indexed
  <2> HIDE DEF lru, w, i1
  <2> QED BY <1>1, <1>2, <1>4, <2>1, <2>2 DEF Indexed
<1>7. ASSUME Len(lru) > QuarantineSize PROVE Indexed(t, i2)
  <2> HIDE DEF lru, w
  <2>1. Len(lru) > 1 /\ lru # <<>>
    BY <1>3, <1>7, Parents
  <2>2. /\ e \in Payloads /\ t \in Seq(Payloads) /\ ToSet(lru) = ToSet(t) \cup {e}
    BY <1>2, <2>1, HeadSet
  <2>3. h \in ToSet(t)
    <3>1. Len(t) = Len(lru) - 1 /\ \A i \in 1..Len(t) : t[i] = lru[i + 1]
      BY <1>2, <2>1, HeadTailProperties
    <3>2. Len(t) \in 1..Len(t) /\ t[Len(t)] = h
      BY <1>3, <2>1, <3>1
    <3>3. ToSet(t) = {t[i] : i \in 1..Len(t)}
      BY <2>2, InSet
    <3> HIDE DEF t
    <3> QED BY <3>2, <3>3
  <2> HIDE DEF t, e
  <2>4. Unindexed(index, e) \in [Numbers -> Payloads \cup {None}]
    BY DEF Unindexed, Indexed
  <2>5. i2 \in [Numbers -> Payloads \cup {None}]
    BY <2>4
  <2>6. \A n \in Numbers : i2[n] = IF n = Number(h) THEN h ELSE Unindexed(index, e)[n]
    BY <2>4
  <2>7. \A n \in Numbers : Unindexed(index, e)[n] = IF n = Number(e) THEN None ELSE index[n]
    BY DEF Unindexed, Indexed
  <2>8. Number(e) = BlockNumber[e]
    BY <2>2, NumberType
  <2> HIDE DEF i2
  <2>9. ASSUME NEW n \in Numbers, i2[n] # None
        PROVE  BlockNumber[i2[n]] = n /\ i2[n] \in ToSet(t)
    <3>1. CASE n = Number(h)
      BY <1>4, <2>3, <2>6, <3>1
    <3>2. CASE n # Number(h)
      <4>1. i2[n] = index[n] /\ n # Number(e)
        BY <2>6, <2>7, <2>9, <3>2
      <4>2. BlockNumber[index[n]] = n /\ index[n] \in ToSet(q)
        BY <2>9, <4>1 DEF Indexed
      <4>3. index[n] # e
        BY <2>8, <4>1, <4>2
      <4>4. index[n] \in ToSet(lru)
        BY <1>1, <1>2, <4>2
      <4> QED BY <2>2, <4>1, <4>2, <4>3, <4>4
    <3> QED BY <3>1, <3>2
  <2> QED BY <2>2, <2>5, <2>9 DEF Indexed
<1> HIDE DEF lru, t, i1, i2
<1>8. CASE Len(lru) > QuarantineSize
  <2>1. Added(q, index, h)[1] = t /\ Added(q, index, h)[2] = i2
    BY <1>5, <1>8
  <2> QED BY <1>7, <1>8, <2>1
<1>9. CASE ~(Len(lru) > QuarantineSize)
  <2>1. Added(q, index, h)[1] = lru /\ Added(q, index, h)[2] = i1
    BY <1>5, <1>9
  <2> QED BY <1>6, <2>1
<1> QED BY <1>8, <1>9

(* The rest of promote. *)
LEMMA PromotedFacts ==
    ASSUME heard \subseteq Payloads, trusted \subseteq GossipedChain,
           NEW b \in Payloads \cap GossipedChain, NEW q, NEW index, Indexed(q, index),
           NEW res \in Seq(Payloads), Promoted(b, q, index, res)
    PROVE  /\ results' \in Seq(Payloads) /\ trusted' \subseteq GossipedChain
           /\ Indexed(quarantine', quarantineByNum')
<1> DEFINE q1 == Without(q, b)
           index1 == Unindexed(index, b)
           parent == ParentHash[b]
           below == IF Number(b) - 1 \in Numbers THEN index1[Number(b) - 1] ELSE None
           touched == Touched(q1, parent)
<1>1. /\ trusted' = trusted \cup {b, parent}
      /\ results' = Rescheduled(res, q1, parent)
      /\ quarantine' = IF below = None THEN touched ELSE Without(touched, below)
      /\ quarantineByNum' = IF below = None THEN index1 ELSE Unindexed(index1, below)
  BY DEF Promoted
<1>2. trusted' \subseteq GossipedChain
  BY <1>1, ChainFacts
<1>3. Indexed(q1, index1)
  BY UnindexedFacts
<1>4. Indexed(touched, index1)
  BY <1>3, TouchedIndexed
<1>5. results' \in Seq(Payloads)
  BY <1>1, <1>3, RescheduledType DEF Indexed
<1>6. below # None => below \in Payloads
  BY <1>3 DEF Indexed
<1> HIDE DEF q1, index1, below, touched
<1>7. below # None => Indexed(Without(touched, below), Unindexed(index1, below))
  BY <1>4, <1>6, UnindexedFacts
<1>8. Indexed(quarantine', quarantineByNum')
  <2>1. CASE below = None
    BY <1>1, <1>4, <2>1
  <2>2. CASE below # None
    BY <1>1, <1>7, <2>2
  <2> QED BY <2>1, <2>2
<1> QED BY <1>2, <1>5, <1>8

-----------------------------------------------------------------------------
(* The payloads queue                                                      *)

LEMMA SizeNat ==
    ASSUME NEW S \in SUBSET Payloads, IsFiniteSet(S)
    PROVE  SizeOf(S) \in Nat
<1>1. \A x \in S : PayloadSize[x] \in Nat
  BY Parents
<1> QED BY <1>1, SumNat DEF SizeOf

(* What part of a set takes, the rest does not. *)
LEMMA SizeSplit ==
    ASSUME NEW S \in SUBSET Payloads, IsFiniteSet(S), NEW T \in SUBSET S
    PROVE  SizeOf(S \ T) = SizeOf(S) - SizeOf(T)
<1>1. IsFiniteSet(T) /\ IsFiniteSet(S \ T)
  BY FS_Subset
<1>2. (S \ T) \cap T = {} /\ (S \ T) \cup T = S
  OBVIOUS
<1>3. \A x \in (S \ T) \cup T : PayloadSize[x] \in Nat
  BY Parents
<1>4. SumFunctionOnSet(PayloadSize, (S \ T) \cup T)
        = SumFunctionOnSet(PayloadSize, S \ T) + SumFunctionOnSet(PayloadSize, T)
  BY <1>1, <1>2, <1>3, SumDisjoint
<1>5. SizeOf(S) = SizeOf(S \ T) + SizeOf(T)
  BY <1>2, <1>4 DEF SizeOf
<1>6. SizeOf(S \ T) \in Nat /\ SizeOf(T) \in Nat
  BY <1>1, SizeNat
<1> QED BY <1>5, <1>6

LEMMA SizeAdd ==
    ASSUME NEW S \in SUBSET Payloads, IsFiniteSet(S), NEW p \in Payloads \ S
    PROVE  SizeOf(S \cup {p}) = SizeOf(S) + PayloadSize[p]
<1>1. \A y \in S \cup {p} : PayloadSize[y] \in Nat
  BY Parents
<1>2. SizeOf(S \cup {p}) = PayloadSize[p] + SizeOf(S)
  BY <1>1, SumAdd DEF SizeOf
<1>3. SizeOf(S) \in Nat /\ PayloadSize[p] \in Nat
  BY <1>1, SizeNat
<1> QED BY <1>2, <1>3

(* What KeepsHighest says of a step. *)
KeepsHighestStep ==
    \A p \in Payloads :
        p \in blockHashes' \ blockHashes =>
            LET lost == (pq \cup {p}) \ pq'
            IN  /\ Lowest(lost, pq \cup {p})
                /\ \E q \in lost \cup {p} : lost = {} \/ SizeOf(pq' \cup {q}) > MaxSize

LEMMA PushFacts ==
    ASSUME QueueInv, pq \subseteq Payloads, NEW p \in Payloads, Push(p)
    PROVE  QueueInv' /\ pq' \subseteq pq \cup {p} /\ KeepsHighestStep
<1> DEFINE Q == pq \cup {p}
<1>1. PICK E \in Evicted(Q, currentSize + PayloadSize[p]) :
        /\ pq' = Q \ E
        /\ currentSize' = currentSize + PayloadSize[p] - SizeOf(E)
        /\ blockHashes' = (blockHashes \ E) \cup {p}
  BY DEF Push
<1>2. p \notin blockHashes /\ p \notin pq /\ pq \subseteq blockHashes
  BY DEF Push, QueueInv
<1>3. Q \in SUBSET Payloads /\ IsFiniteSet(Q)
  BY FS_AddElement DEF QueueInv
<1>4. SizeOf(Q) = currentSize + PayloadSize[p]
  BY <1>2, SizeAdd DEF QueueInv, MemoryAccounted
<1>5. /\ E \in SUBSET Q /\ Lowest(E, Q)
      /\ E = {} \/ \E q \in E : SizeOf(Q) - SizeOf(E \ {q}) > MaxSize
  BY <1>1, <1>4 DEF Evicted
<1>6. QueueInv'
  <2>1. IsFiniteSet(Q \ E)
    BY <1>3, FS_Subset
  <2>2. Q \ E \subseteq (blockHashes \ E) \cup {p}
    BY <1>2
  <2>3. SizeOf(Q \ E) = SizeOf(Q) - SizeOf(E)
    BY <1>3, <1>5, SizeSplit
  <2>4. IsFiniteSet(pq') /\ pq' \subseteq blockHashes'
    BY <1>1, <2>1, <2>2
  <2>5. currentSize' = SizeOf(Q) - SizeOf(E)
    <3>1. currentSize \in Nat /\ PayloadSize[p] \in Nat
      BY SizeNat, Parents DEF QueueInv, MemoryAccounted
    <3>2. SizeOf(E) \in Nat
      BY <1>3, <1>5, FS_Subset, SizeNat
    <3> HIDE DEF Q
    <3> QED BY <1>1, <1>4, <3>1, <3>2
  <2> HIDE DEF Q
  <2>6. currentSize' = SizeOf(pq')
    BY <1>1, <2>3, <2>5
  <2>7. currentSize' <= MaxSize
    BY <1>1, <1>4, <2>5 DEF Evicted
  <2> QED BY <2>4, <2>6, <2>7 DEF QueueInv, MemoryAccounted
<1>7. ASSUME NEW r \in Payloads, r \in blockHashes' \ blockHashes
      PROVE  LET lost == (pq \cup {r}) \ pq'
             IN  /\ Lowest(lost, pq \cup {r})
                 /\ \E q \in lost \cup {r} : lost = {} \/ SizeOf(pq' \cup {q}) > MaxSize
  <2>1. r = p /\ pq \cup {r} = Q
    BY <1>1, <1>7
  <2>2. Q \ pq' = E
    BY <1>1, <1>5
  <2>3. \E q \in E \cup {p} : E = {} \/ SizeOf(pq' \cup {q}) > MaxSize
    <3>1. CASE E = {}
      BY <3>1
    <3>2. CASE E # {}
      <4>1. PICK q \in E : SizeOf(Q) - SizeOf(E \ {q}) > MaxSize
        BY <1>5, <3>2
      <4>2. E \ {q} \in SUBSET Q /\ Q \ (E \ {q}) = pq' \cup {q}
        BY <1>1, <1>5, <4>1
      <4>3. SizeOf(Q \ (E \ {q})) = SizeOf(Q) - SizeOf(E \ {q})
        BY <1>3, <4>2, SizeSplit
      <4>4. SizeOf(pq' \cup {q}) > MaxSize
        BY <4>1, <4>2, <4>3
      <4> QED BY <4>1, <4>4
    <3> QED BY <3>1, <3>2
  <2> HIDE DEF Q
  <2> QED BY <1>5, <2>1, <2>2, <2>3
<1>8. pq' \subseteq pq \cup {p}
  BY <1>1
<1> QED BY <1>6, <1>7, <1>8 DEF KeepsHighestStep

LEMMA PopFacts ==
    ASSUME QueueInv, pq \subseteq Payloads, NEW p, Pop(p)
    PROVE  QueueInv' /\ p \in pq /\ pq' \subseteq pq /\ KeepsHighestStep
<1>1. /\ p \in pq /\ pq' = pq \ {p} /\ currentSize' = currentSize - PayloadSize[p]
      /\ blockHashes' = blockHashes \ {p}
  BY DEF Pop, Peek
<1>2. SizeOf(pq \ {p}) = SizeOf(pq) - PayloadSize[p]
  <2>1. {p} \in SUBSET pq /\ pq \in SUBSET Payloads /\ IsFiniteSet(pq) /\ p \in Payloads
    BY <1>1 DEF QueueInv
  <2>2. SizeOf(pq \ {p}) = SizeOf(pq) - SizeOf({p})
    BY <2>1, SizeSplit
  <2>3. SizeOf({} \cup {p}) = SizeOf({}) + PayloadSize[p]
    BY <2>1, SizeAdd, FS_EmptySet
  <2>4. {} \cup {p} = {p} /\ SizeOf({}) = 0
    BY SumEmpty DEF SizeOf
  <2>5. PayloadSize[p] \in Nat
    BY <2>1, Parents
  <2> QED BY <2>2, <2>3, <2>4, <2>5
<1>3. IsFiniteSet(pq \ {p})
  BY FS_Subset DEF QueueInv
<1>4. QueueInv'
  <2>1. IsFiniteSet(pq') /\ pq' \subseteq blockHashes'
    BY <1>1, <1>3 DEF QueueInv
  <2>2. currentSize' = SizeOf(pq')
    BY <1>1, <1>2 DEF QueueInv, MemoryAccounted
  <2>3. currentSize \in Nat /\ PayloadSize[p] \in Nat /\ MaxSize \in Nat
    BY <1>1, SizeNat, Parents DEF QueueInv, MemoryAccounted
  <2>4. currentSize' <= MaxSize
    BY <1>1, <2>3 DEF QueueInv, MemoryAccounted
  <2> QED BY <2>1, <2>2, <2>4 DEF QueueInv, MemoryAccounted
<1>5. KeepsHighestStep
  BY <1>1 DEF KeepsHighestStep
<1> QED BY <1>1, <1>4, <1>5

-----------------------------------------------------------------------------
(* Every step keeps the invariant                                          *)

LEMMA InitIInv == SyncInit => IInv
<1> SUFFICES ASSUME SyncInit PROVE IInv
  OBVIOUS
<1>1. ToSet(<<>>) = {}
  BY DEF ToSet
<1>2. DriverInv
  BY <1>1 DEF SyncInit, Init, DriverInv
<1>3. TrustInv
  BY DEF SyncInit, TrustInv
<1>4. Indexed(quarantine, quarantineByNum)
  BY DEF SyncInit, Indexed
<1>5. QueueInv
  <2>1. SizeOf({}) = 0
    BY SumEmpty DEF SizeOf
  <2> QED BY <2>1, FS_EmptySet, Parents DEF SyncInit, Init, QueueInv, MemoryAccounted
<1> QED BY <1>2, <1>3, <1>4, <1>5 DEF IInv

(* The parts of the invariant depend on these variables only. *)
LEMMA DriverSame ==
    ASSUME DriverInv, UNCHANGED <<heard, unsafeL2Payloads, pq, unsafeHead, requesting>>
    PROVE  DriverInv'
<1>1. GossipedChain' = GossipedChain
  BY DEF GossipedChain
<1> QED BY <1>1 DEF DriverInv

LEMMA TrustSame ==
    ASSUME TrustInv, UNCHANGED <<heard, results, trusted, promoting>>
    PROVE  TrustInv'
<1>1. GossipedChain' = GossipedChain
  BY DEF GossipedChain
<1> QED BY <1>1 DEF TrustInv

LEMMA QueueSame ==
    ASSUME QueueInv, UNCHANGED pqVars
    PROVE  QueueInv' /\ KeepsHighestStep
<1>1. QueueInv'
  BY DEF QueueInv, MemoryAccounted, pqVars
<1>2. KeepsHighestStep
  BY DEF KeepsHighestStep, pqVars
<1> QED BY <1>1, <1>2

LEMMA IndexSame ==
    ASSUME Indexed(quarantine, quarantineByNum), UNCHANGED <<quarantine, quarantineByNum>>
    PROVE  Indexed(quarantine', quarantineByNum')
  OBVIOUS

(* A step of what the driver, the sync client and gossip do. *)
Kept == DriverInv' /\ TrustInv' /\ Indexed(quarantine', quarantineByNum') /\ QueueInv'
        /\ KeepsHighestStep

LEMMA GossipKeeps ==
    ASSUME IInv, NEW p \in Gossiped, Gossip(p)
    PROVE  Kept
<1>1. /\ heard' = heard \cup {p} /\ UNCHANGED <<driverVars, clientVars, results>>
      /\ unsafeL2Payloads' \in {unsafeL2Payloads, Append(unsafeL2Payloads, p)}
  BY DEF Gossip
<1>2. GossipedChain \subseteq GossipedChain'
  BY <1>1, ChainGrows
<1>3. p \in Payloads /\ p \in Blocks
  BY Parents DEF Blocks
<1>4. p \in GossipedChain'
  <2>1. p \in Ancestors[p] /\ p \in heard'
    BY <1>1, <1>3, AncestorFacts
  <2> QED BY <2>1 DEF GossipedChain
<1>5. DriverInv'
  <2>1. unsafeL2Payloads' \in Seq(Payloads) /\ ToSet(unsafeL2Payloads') \subseteq GossipedChain'
    <3>1. unsafeL2Payloads \in Seq(Payloads) /\ ToSet(unsafeL2Payloads) \subseteq GossipedChain
      BY DEF IInv, DriverInv
    <3>2. /\ Append(unsafeL2Payloads, p) \in Seq(Payloads)
          /\ ToSet(Append(unsafeL2Payloads, p)) = ToSet(unsafeL2Payloads) \cup {p}
      BY <1>3, <3>1, AppendSet
    <3>3. CASE unsafeL2Payloads' = unsafeL2Payloads
      BY <1>2, <3>1, <3>3
    <3>4. CASE unsafeL2Payloads' = Append(unsafeL2Payloads, p)
      BY <1>2, <1>4, <3>1, <3>2, <3>4
    <3> QED BY <1>1, <3>3, <3>4
  <2> QED BY <1>1, <1>2, <2>1 DEF IInv, DriverInv, driverVars
<1>6. TrustInv'
  BY <1>1, <1>2 DEF IInv, TrustInv, clientVars
<1>7. QueueInv' /\ KeepsHighestStep
  BY <1>1, QueueSame DEF IInv, driverVars, pqVars
<1>8. Indexed(quarantine', quarantineByNum')
  BY <1>1, IndexSame DEF IInv, clientVars
<1> QED BY <1>5, <1>6, <1>7, <1>8 DEF Kept

LEMMA AddKeeps ==
    ASSUME IInv, AddUnsafePayload
    PROVE  Kept
<1> DEFINE p == Head(unsafeL2Payloads)
<1>1. /\ unsafeL2Payloads # <<>> /\ unsafeL2Payloads' = Tail(unsafeL2Payloads)
      /\ Push(p) \/ UNCHANGED pqVars
      /\ UNCHANGED <<unsafeHead, requesting, heard, clientVars, results>>
  BY DEF AddUnsafePayload
<1>2. GossipedChain' = GossipedChain
  BY <1>1 DEF GossipedChain
<1>3. /\ p \in Payloads /\ p \in GossipedChain
      /\ unsafeL2Payloads' \in Seq(Payloads) /\ ToSet(unsafeL2Payloads') \subseteq GossipedChain
  BY <1>1, HeadSet DEF IInv, DriverInv
<1> HIDE DEF p
<1>4. QueueInv' /\ pq' \subseteq pq \cup {p} /\ KeepsHighestStep
  <2>1. CASE Push(p)
    BY <1>3, <2>1, PushFacts DEF IInv, DriverInv
  <2>2. CASE UNCHANGED pqVars
    BY <2>2, QueueSame DEF IInv, pqVars
  <2> QED BY <1>1, <2>1, <2>2
<1>5. DriverInv'
  BY <1>1, <1>2, <1>3, <1>4 DEF IInv, DriverInv
<1>6. TrustInv'
  BY <1>1, TrustSame DEF IInv, clientVars
<1>7. Indexed(quarantine', quarantineByNum')
  BY <1>1, IndexSame DEF IInv, clientVars
<1> QED BY <1>4, <1>5, <1>6, <1>7 DEF Kept

LEMMA TryNextKeeps ==
    ASSUME IInv, TryNextUnsafePayload
    PROVE  Kept
<1>1. PICK p : Pop(p) /\ unsafeHead' \in {unsafeHead, p}
  BY DEF TryNextUnsafePayload
<1>2. UNCHANGED <<requesting, heard, unsafeL2Payloads, clientVars, results>>
  BY DEF TryNextUnsafePayload
<1>3. GossipedChain' = GossipedChain
  BY <1>2 DEF GossipedChain
<1>4. QueueInv' /\ p \in pq /\ pq' \subseteq pq /\ KeepsHighestStep
  BY <1>1, PopFacts DEF IInv, DriverInv
<1>5. DriverInv'
  BY <1>1, <1>2, <1>3, <1>4 DEF IInv, DriverInv
<1>6. TrustInv'
  BY <1>2, TrustSame DEF IInv, clientVars
<1>7. Indexed(quarantine', quarantineByNum')
  BY <1>2, IndexSame DEF IInv, clientVars
<1> QED BY <1>4, <1>5, <1>6, <1>7 DEF Kept

LEMMA CheckForGapKeeps ==
    ASSUME IInv, CheckForGap
    PROVE  Kept
<1>1. PICK p \in Peek :
        \/ /\ OnRangeRequest(Number(unsafeHead), p)
           /\ UNCHANGED requesting
        \/ /\ requesting' = [start |-> Number(unsafeHead), end |-> p]
           /\ UNCHANGED <<clientVars, peerRequests, results>>
  BY DEF CheckForGap
<1>2. UNCHANGED <<pqVars, unsafeHead, heard, unsafeL2Payloads>>
  BY DEF CheckForGap
<1>3. GossipedChain' = GossipedChain
  BY <1>2 DEF GossipedChain
<1>4. p \in Payloads \cap GossipedChain
  BY DEF IInv, DriverInv, Peek
<1>5. Number(unsafeHead) \in Nat
  BY NumberType DEF IInv, DriverInv, Number
<1>6. QueueInv' /\ KeepsHighestStep
  BY <1>2, QueueSame DEF IInv
<1>7. heard \subseteq Payloads
  BY Parents DEF IInv, DriverInv
<1>8. CASE OnRangeRequest(Number(unsafeHead), p) /\ UNCHANGED requesting
  <2>1. /\ results' \in Seq(Payloads) /\ trusted' \subseteq GossipedChain
        /\ Indexed(quarantine', quarantineByNum') /\ promoting' = promoting
    BY <1>4, <1>5, <1>7, <1>8, RangeKeeps DEF IInv
  <2>2. DriverInv'
    BY <1>2, <1>8, DriverSame DEF IInv, pqVars
  <2>3. TrustInv'
    BY <1>3, <2>1 DEF IInv, TrustInv
  <2> QED BY <1>6, <2>1, <2>2, <2>3 DEF Kept
<1>9. CASE /\ requesting' = [start |-> Number(unsafeHead), end |-> p]
           /\ UNCHANGED <<clientVars, peerRequests, results>>
  <2>1. DriverInv'
    BY <1>2, <1>3, <1>4, <1>5, <1>9 DEF IInv, DriverInv, pqVars
  <2>2. TrustInv'
    BY <1>2, <1>9, TrustSame DEF IInv, clientVars
  <2>3. Indexed(quarantine', quarantineByNum')
    BY <1>9, IndexSame DEF IInv, clientVars
  <2> QED BY <1>6, <2>1, <2>2, <2>3 DEF Kept
<1> QED BY <1>1, <1>8, <1>9

LEMMA TakeRangeKeeps ==
    ASSUME IInv, TakeRange
    PROVE  Kept
<1>1. /\ requesting # None /\ requesting' = None
      /\ OnRangeRequest(requesting.start, requesting.end)
      /\ UNCHANGED <<pqVars, unsafeHead, heard, unsafeL2Payloads>>
  BY DEF TakeRange
<1>2. GossipedChain' = GossipedChain
  BY <1>1 DEF GossipedChain
<1>3. heard \subseteq Payloads
  BY Parents DEF IInv, DriverInv
<1>4. requesting.start \in Nat /\ requesting.end \in Payloads \cap GossipedChain
  BY <1>1 DEF IInv, DriverInv
<1>5. /\ results' \in Seq(Payloads) /\ trusted' \subseteq GossipedChain
      /\ Indexed(quarantine', quarantineByNum') /\ promoting' = promoting
  BY <1>1, <1>3, <1>4, RangeKeeps DEF IInv
<1>6. DriverInv'
  BY <1>1, <1>2 DEF IInv, DriverInv, pqVars
<1>7. TrustInv'
  BY <1>2, <1>5 DEF IInv, TrustInv
<1>8. QueueInv' /\ KeepsHighestStep
  BY <1>1, QueueSame DEF IInv
<1> QED BY <1>5, <1>6, <1>7, <1>8 DEF Kept

LEMMA OnResultKeeps ==
    ASSUME IInv, OnResult
    PROVE  Kept
<1> DEFINE b == Head(results)
           a == Added(quarantine, quarantineByNum, b)
<1>1. /\ results # <<>>
      /\ \/ /\ Trusts(b)
            /\ unsafeL2Payloads' = Append(unsafeL2Payloads, b)
            /\ Promoted(b, a[1], a[2], Tail(results))
            /\ UNCHANGED promoting
         \/ /\ Trusts(b) /\ promoting' = b
            /\ quarantine' = a[1] /\ quarantineByNum' = a[2]
            /\ results' = Tail(results)
            /\ UNCHANGED <<trusted, unsafeL2Payloads>>
         \/ /\ quarantine' = a[1] /\ quarantineByNum' = a[2]
            /\ results' = Tail(results)
            /\ UNCHANGED <<trusted, unsafeL2Payloads, promoting>>
  BY DEF OnResult
<1>2. UNCHANGED <<driverVars, heard>>
  BY DEF OnResult
<1>3. GossipedChain' = GossipedChain
  BY <1>2 DEF GossipedChain
<1>4. b \in Payloads /\ Tail(results) \in Seq(Payloads)
  BY <1>1, HeadSet DEF IInv, TrustInv
<1>5. Indexed(a[1], a[2])
  BY <1>4, AddedFacts DEF IInv
<1>6. Trusts(b) => b \in GossipedChain
  BY DEF Trusts, IInv, TrustInv
<1>7. heard \subseteq Payloads
  BY Parents DEF IInv, DriverInv
<1>8. QueueInv' /\ KeepsHighestStep
  BY <1>2, QueueSame DEF IInv, driverVars, pqVars
<1> HIDE DEF b, a
<1>9. CASE /\ Trusts(b)
           /\ unsafeL2Payloads' = Append(unsafeL2Payloads, b)
           /\ Promoted(b, a[1], a[2], Tail(results))
           /\ UNCHANGED promoting
  <2>1. trusted \subseteq GossipedChain
    BY DEF IInv, TrustInv
  <2>2. /\ results' \in Seq(Payloads) /\ trusted' \subseteq GossipedChain
        /\ Indexed(quarantine', quarantineByNum')
    BY <1>4, <1>5, <1>6, <1>7, <1>9, <2>1, PromotedFacts
  <2>3. unsafeL2Payloads' \in Seq(Payloads) /\ ToSet(unsafeL2Payloads') \subseteq GossipedChain
    BY <1>4, <1>6, <1>9, AppendSet DEF IInv, DriverInv
  <2>4. DriverInv'
    BY <1>2, <1>3, <2>3 DEF IInv, DriverInv, driverVars
  <2>5. TrustInv'
    BY <1>3, <1>9, <2>2 DEF IInv, TrustInv
  <2> QED BY <1>8, <2>2, <2>4, <2>5 DEF Kept
<1>10. ASSUME /\ quarantine' = a[1] /\ quarantineByNum' = a[2]
              /\ results' = Tail(results)
              /\ UNCHANGED <<trusted, unsafeL2Payloads>>,
              (Trusts(b) /\ promoting' = b) \/ promoting' = promoting
       PROVE  Kept
  <2>1. DriverInv'
    BY <1>2, <1>10, DriverSame DEF IInv, driverVars
  <2>2. promoting' # None => promoting' \in Payloads \cap GossipedChain
    BY <1>4, <1>6, <1>10 DEF IInv, TrustInv
  <2>3. TrustInv'
    BY <1>3, <1>4, <1>10, <2>2 DEF IInv, TrustInv
  <2>4. Indexed(quarantine', quarantineByNum')
    BY <1>5, <1>10
  <2> QED BY <1>8, <2>1, <2>3, <2>4 DEF Kept
<1> QED BY <1>1, <1>9, <1>10

LEMMA ReceiveKeeps ==
    ASSUME IInv, ReceivePayloadEnds
    PROVE  Kept
<1>1. /\ promoting # None /\ promoting' = None
      /\ unsafeL2Payloads' \in {unsafeL2Payloads, Append(unsafeL2Payloads, promoting)}
      /\ Promoted(promoting, quarantine, quarantineByNum, results)
      /\ UNCHANGED <<driverVars, heard>>
  BY DEF ReceivePayloadEnds
<1>2. GossipedChain' = GossipedChain
  BY <1>1 DEF GossipedChain
<1>3. promoting \in Payloads \cap GossipedChain /\ trusted \subseteq GossipedChain
  BY <1>1 DEF IInv, TrustInv
<1>4. heard \subseteq Payloads
  BY Parents DEF IInv, DriverInv
<1>5. /\ results' \in Seq(Payloads) /\ trusted' \subseteq GossipedChain
      /\ Indexed(quarantine', quarantineByNum')
  BY <1>1, <1>3, <1>4, PromotedFacts DEF IInv, TrustInv
<1>6. unsafeL2Payloads' \in Seq(Payloads) /\ ToSet(unsafeL2Payloads') \subseteq GossipedChain
  <2>1. unsafeL2Payloads \in Seq(Payloads) /\ ToSet(unsafeL2Payloads) \subseteq GossipedChain
    BY DEF IInv, DriverInv
  <2>2. /\ Append(unsafeL2Payloads, promoting) \in Seq(Payloads)
        /\ ToSet(Append(unsafeL2Payloads, promoting)) = ToSet(unsafeL2Payloads) \cup {promoting}
    BY <1>3, <2>1, AppendSet
  <2>3. CASE unsafeL2Payloads' = unsafeL2Payloads
    BY <2>1, <2>3
  <2>4. CASE unsafeL2Payloads' = Append(unsafeL2Payloads, promoting)
    BY <1>3, <2>1, <2>2, <2>4
  <2> QED BY <1>1, <2>3, <2>4
<1>7. DriverInv'
  BY <1>1, <1>2, <1>6 DEF IInv, DriverInv, driverVars
<1>8. TrustInv'
  BY <1>1, <1>2, <1>5 DEF TrustInv
<1>9. QueueInv' /\ KeepsHighestStep
  BY <1>1, QueueSame DEF IInv, driverVars, pqVars
<1> QED BY <1>5, <1>7, <1>8, <1>9 DEF Kept

(* The other steps touch requests, their peers and their answers only. *)
LEMMA OthersKeep ==
    ASSUME IInv, UNCHANGED <<pqVars, unsafeHead, heard, unsafeL2Payloads>>,
           UNCHANGED <<trusted, quarantine, quarantineByNum, promoting>>,
           requesting' \in {requesting, None}, results' \in Seq(Payloads)
    PROVE  Kept
<1>1. GossipedChain' = GossipedChain
  BY DEF GossipedChain
<1>2. DriverInv'
  BY <1>1 DEF IInv, DriverInv, pqVars
<1>3. TrustInv'
  BY <1>1 DEF IInv, TrustInv
<1>4. QueueInv' /\ KeepsHighestStep
  BY QueueSame DEF IInv
<1>5. Indexed(quarantine', quarantineByNum')
  BY IndexSame DEF IInv
<1> QED BY <1>2, <1>3, <1>4, <1>5 DEF Kept

LEMMA StepKeeps ==
    ASSUME IInv, [SyncNext]_vars
    PROVE  Kept
<1>1. ASSUME NEW p \in Gossiped, Gossip(p) PROVE Kept
  BY <1>1, GossipKeeps
<1>2. CASE Driver
  <2>1. CASE RequestTimeout
    <3>1. results \in Seq(Payloads)
      BY DEF IInv, TrustInv
    <3> QED BY <2>1, <3>1, OthersKeep DEF RequestTimeout, clientVars
  <2> QED BY <1>2, <2>1, AddKeeps, TryNextKeeps, CheckForGapKeeps DEF Driver
<1>3. CASE MainLoop
  BY <1>3, TakeRangeKeeps, OnResultKeeps, ReceiveKeeps DEF MainLoop
<1>4. results \in Seq(Payloads)
  BY DEF IInv, TrustInv
<1>5. ASSUME NEW p \in Peers, AddPeer(p) \/ RemovePeer(p) PROVE Kept
  BY <1>4, <1>5, OthersKeep DEF AddPeer, RemovePeer, driverVars, clientVars, pqVars
<1>6. ASSUME NEW l \in Loops, PeerLoop(l) PROVE Kept
  <2>1. CASE TakeRequest(l) \/ PeerLoopExit(l)
    BY <1>4, <2>1, OthersKeep DEF TakeRequest, PeerLoopExit, driverVars, clientVars, pqVars
  <2>2. CASE FailRequest(l)
    BY <1>4, <2>2, OthersKeep DEF FailRequest, driverVars, pqVars
  <2>3. ASSUME NEW b \in Served, Respond(l, b) PROVE Kept
    <3>1. results' \in Seq(Payloads)
      BY <1>4, <2>3, Parents, AppendSet DEF Respond
    <3> QED BY <2>3, <3>1, OthersKeep DEF Respond, driverVars, clientVars, pqVars
  <2> QED BY <1>6, <2>1, <2>2, <2>3 DEF PeerLoop
<1>7. CASE UNCHANGED vars
  BY <1>4, <1>7, OthersKeep DEF vars, driverVars, clientVars, pqVars
<1> QED BY <1>1, <1>2, <1>3, <1>5, <1>6, <1>7 DEF SyncNext

LEMMA StepIInv == IInv /\ [SyncNext]_vars => IInv'
  BY StepKeeps DEF Kept, IInv

LEMMA Invariance == SyncSpec => []IInv
<1> QED BY InitIInv, StepIInv, PTL DEF SyncSpec

-----------------------------------------------------------------------------
(* The quarantine and the index by number are two structures that adding,  *)
(* evicting and promoting a block change one after the other: whatever the *)
(* order, no number stays indexed to a block that left the quarantine, as  *)
(* it would then never be fetched again.                                   *)
THEOREM IndexMatchesQuarantine == SyncSpec => []IndexedIsQuarantined
<1>1. IInv => IndexedIsQuarantined
  BY DEF IInv, Indexed, IndexedIsQuarantined
<1> QED BY <1>1, Invariance, PTL

(* Whatever peers answer with, the sync client hands to the driver only    *)
(* blocks of the chain of a payload that came by gossip: promote trusts a  *)
(* parent only below a block that is trusted.                              *)
THEOREM SyncsOnlyGossipedChain == SyncSpec => []OnlyGossipedChain
<1>1. IInv => OnlyGossipedChain
  BY DEF IInv, DriverInv, OnlyGossipedChain
<1> QED BY <1>1, Invariance, PTL

(* A Push that runs over the memory limit of the payloads queue gives up   *)
(* the payloads of the lowest numbers, and no more of them than it has to. *)
THEOREM PushKeepsHighest == SyncSpec => KeepsHighest
<1>1. IInv /\ [SyncNext]_vars => [KeepsHighestStep]_pqVars
  BY StepKeeps DEF Kept
<1>2. SyncSpec => [][KeepsHighestStep]_pqVars
  BY <1>1, Invariance, PTL DEF SyncSpec
<1> QED BY <1>2 DEF KeepsHighest, KeepsHighestStep

(* The counter of the payloads queue never drifts from what the heap holds *)
(* and never exceeds the limit, through evictions inside Push, duplicates  *)
(* that are refused, and payloads that leave the queue for any reason.     *)
THEOREM MemoryStaysAccounted == SyncSpec => []MemoryAccounted
<1>1. IInv => MemoryAccounted
  BY DEF IInv, QueueInv
<1> QED BY <1>1, Invariance, PTL

(* To the payloads queue, the driver with its sync client and its peers is *)
(* an arbitrary user of Push and Pop: the composition implements Spec of   *)
(* PayloadsQueue.                                                          *)
THEOREM UsesPayloadsQueue == SyncSpec => Spec
<1>1. SyncInit => Init
  BY DEF SyncInit
<1>2. ASSUME IInv, [SyncNext]_vars PROVE [Next]_pqVars
  <2>1. CASE AddUnsafePayload
    <3>1. Head(unsafeL2Payloads) \in Payloads
      BY <1>2, <2>1, HeadSet DEF AddUnsafePayload, IInv, DriverInv
    <3> QED BY <2>1, <3>1 DEF AddUnsafePayload, Next
  <2>2. CASE TryNextUnsafePayload
    <3>1. PICK p \in Peek : Pop(p)
      BY <2>2 DEF TryNextUnsafePayload
    <3>2. p \in Payloads
      BY <1>2 DEF IInv, DriverInv, Peek
    <3> QED BY <3>1, <3>2 DEF Next
  <2>3. CASE CheckForGap \/ RequestTimeout \/ MainLoop
    BY <2>3 DEF CheckForGap, RequestTimeout, MainLoop, TakeRange, OnResult, ReceivePayloadEnds,
                driverVars, pqVars
  <2>4. CASE \E p \in Peers : AddPeer(p) \/ RemovePeer(p)
    BY <2>4 DEF AddPeer, RemovePeer, driverVars, pqVars
  <2>5. CASE \E l \in Loops : PeerLoop(l)
    BY <2>5 DEF PeerLoop, TakeRequest, Respond, FailRequest, PeerLoopExit, driverVars, pqVars
  <2>6. CASE (\E p \in Gossiped : Gossip(p)) \/ UNCHANGED vars
    BY <2>6 DEF Gossip, vars, driverVars, pqVars
  <2> QED BY <1>2, <2>1, <2>2, <2>3, <2>4, <2>5, <2>6 DEF SyncNext, Driver
<1> QED BY <1>1, <1>2, Invariance, PTL DEF SyncSpec, Spec
=============================================================================
