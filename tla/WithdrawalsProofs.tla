-------------------------- MODULE WithdrawalsProofs --------------------------
(***************************************************************************)
(* Proofs about Withdrawals, for any messages, batches, values, periods,   *)
(* and any nesting of targets in one another.                              *)
(***************************************************************************)
EXTENDS Withdrawals, FiniteSetTheorems, SequenceTheorems, WellFoundedInduction, TLAPS

-----------------------------------------------------------------------------
(* The inductive invariant                                                 *)

Roots == [number : Nat \ {0}, sent : SUBSET Messages]

ProvenEntries == [root : Roots, timestamp : Nat, index : Nat]

Contracts ==
    [proven : [Messages -> ProvenEntries \cup {None}], finalized : SUBSET Messages, held : Nat,
     failed : SUBSET Messages, successful : SUBSET Messages, executed : [Messages -> Nat]]

Frames == [message : Messages, caller : {"portal", "anyone"}, saved : Contracts]

(* The state of the contracts that a target may change and undo. *)
Current ==
    [proven |-> proven, finalized |-> finalized, held |-> held, failed |-> failed,
     successful |-> successful, executed |-> executed]

ChainsTyped ==
    /\ now \in Nat \ {0} /\ lastCall \in 0..now /\ reorgs \in 0..MaxReorgs
    /\ l2 \in Seq([sent : SUBSET Messages, l1 : Nat])

ProposerTyped ==
    /\ next \in (Nat \ {0}) \cup {None} /\ faults \in 0..MaxFaults
    /\ pending \subseteq [root : Roots, l1 : Nat, canonical : BOOLEAN]
    /\ outputs \in Seq([root : Roots, timestamp : Nat])

ContractsTyped ==
    paused \in BOOLEAN /\ Current \in Contracts /\ stack \in Seq(Frames)

TypeOK == ChainsTyped /\ ProposerTyped /\ ContractsTyped

(* L2 blocks are derived from L1 blocks that exist, in order, and each     *)
(* commits to all that was sent before.                                    *)
L2Ordered ==
    /\ \A i \in 1..Len(l2) : l2[i].l1 < now
    /\ \A i, j \in 1..Len(l2) : i <= j => l2[i].l1 <= l2[j].l1 /\ l2[i].sent \subseteq l2[j].sent

(* The root of an L2 block derived by time t. *)
Derived(root, t) ==
    root.number <= Len(l2) /\ root = Root(root.number) /\ l2[root.number].l1 <= t

(* A proposal whose L1 block is canonical has the root of the L2 chain.    *)
PendingInv == \A p \in pending : p.canonical => p.l1 < now /\ Derived(p.root, p.l1)

(* How old a wrong output may get before it is deleted.                    *)
WrongUntil == ChallengePeriod + reorgs * (FinalityDepth - 1)

(* An output was right when it was recorded, became right while it could   *)
(* still be deleted, or can still be deleted.                              *)
OutputInv(o) ==
    /\ o.timestamp <= lastCall
    /\ \/ Derived(o.root, o.timestamp)
       \/ faults > 0 /\ ~Wrong(o.root) /\ l2[o.root.number].l1 + 1 - o.timestamp < WrongUntil
       \/ faults > 0 /\ Wrong(o.root) /\ now - o.timestamp < WrongUntil

OutputsInv == \A i \in 1..Len(outputs) : OutputInv(outputs[i])

(* The messages sent in L2 blocks that no reorganisation drops any more,   *)
(* given the contracts' last transaction.                                  *)
Settled == {m \in Messages : \E n \in 1..Len(l2) : m \in l2[n].sent /\ l2[n].l1 <= lastCall}

(* The messages of the first i targets on the stack st. *)
Running(st, i) == {st[j].message : j \in 1..i}

(* What holds of the contracts while the targets of the messages in run    *)
(* are running and those in sent are settled.  What was proven is in its   *)
(* root, and what was finalized was sent; what the portal finalized by     *)
(* way of the messenger is not lost; what was executed or runs cannot be   *)
(* started again.                                                          *)
Proven(s, sent) ==
    /\ \A m \in Messages : s.proven[m] # None => m \in s.proven[m].root.sent
    /\ s.finalized \subseteq sent

NotLost(s, run) ==
    /\ s.finalized \ Direct \subseteq s.failed \cup s.successful \cup run
    /\ s.failed \cap Direct = {}

Once(s, run) ==
    /\ \A m \in run : IF m \in Direct THEN m \in s.finalized ELSE m \notin s.successful
    /\ \A m \in Messages :
           \/ s.executed[m] = 0
           \/ /\ s.executed[m] = 1 /\ m \notin run
              /\ IF m \in Direct THEN m \in s.finalized ELSE m \in s.successful

Consistent(s, run, sent) == Proven(s, sent) /\ NotLost(s, run) /\ Once(s, run)

(* It holds of the current state and of each that a target may return to;  *)
(* a message runs once on the stack.                                       *)
ContractsInv ==
    /\ Consistent(Current, Running(stack, Len(stack)), Settled)
    /\ \A i \in 1..Len(stack) : Consistent(stack[i].saved, Running(stack, i), Settled)
    /\ \A i, j \in 1..Len(stack) : i # j => stack[i].message # stack[j].message

IInv == TypeOK /\ L2Ordered /\ PendingInv /\ OutputsInv /\ ContractsInv

(* What TargetFails returns to when the target of frame f fails.           *)
Undone(f) == [f.saved EXCEPT !.failed = @ \cup ({f.message} \ Direct)]

(* While the targets of the messages in run are running, their value is    *)
(* with them: the messenger holds that of the others that failed.  The     *)
(* messenger knows of no message that the portal has not finalized.        *)
Solvent(s, run) ==
    /\ IsFiniteSet(s.failed)
    /\ s.failed \cup s.successful \cup run \subseteq s.finalized
    /\ s.held = SumOf((s.failed \ s.successful) \ run)

(* That holds of the current state and of each that may be returned to.    *)
SolvencyInv ==
    /\ Solvent(Current, Running(stack, Len(stack)))
    /\ \A i \in 1..Len(stack) : Solvent(Undone(stack[i]), Running(stack, i - 1))

-----------------------------------------------------------------------------
(* Sums over finite sets                                                   *)

LEMMA NatLess == \A x, y \in Nat : y < x => <<y, x>> \in OpToRel(<, Nat)
  BY DEF OpToRel

LEMMA NatMinimal ==
    ASSUME NEW R, IsWellFoundedOn(R, Nat), \A x, y \in Nat : y < x => <<y, x>> \in R,
           NEW S \in SUBSET Nat, S # {}
    PROVE  \E x \in S : \A y \in S : x <= y
<1>1. PICK x \in S : \A y \in S : ~(<<y, x>> \in R)
  BY WFMin
<1>2. \A y \in S : ~(y < x)
  BY <1>1
<1>3. \A y \in S : x <= y
  BY <1>2
<1> QED BY <1>3

LEMMA Smallest ==
    ASSUME NEW S \in SUBSET Nat, S # {}
    PROVE  \E x \in S : \A y \in S : x <= y
  BY NatLess, NatLessThanWellFounded, NatMinimal, Zenon

(* A family of finite sets that is not empty has a smallest one. *)
LEMMA SmallestSet ==
    ASSUME NEW F, F # {}, \A S \in F : IsFiniteSet(S)
    PROVE  \E S \in F : \A T \in F : Cardinality(S) <= Cardinality(T)
<1> DEFINE C == {Cardinality(S) : S \in F}
<1>1. C \in SUBSET Nat /\ C # {}
  BY FS_CardinalityType
<1>2. PICK n \in C : \A m \in C : n <= m
  BY <1>1, Smallest
<1> QED BY <1>2

LEMMA SetWithout ==
    ASSUME NEW S, IsFiniteSet(S), NEW x \in S
    PROVE  IsFiniteSet(S \ {x}) /\ Cardinality(S \ {x}) < Cardinality(S)
           /\ Cardinality(S \ {x}) = Cardinality(S) - 1 /\ Cardinality(S) \in Nat
<1>1. IsFiniteSet(S \ {x}) /\ Cardinality(S \ {x}) = Cardinality(S) - 1
  BY FS_RemoveElement
<1>2. Cardinality(S) \in Nat
  BY FS_CardinalityType
<1> QED BY <1>1, <1>2

(* What SumFunctionOnSet is defined by. *)
Chosen(S) == CHOOSE x \in S : TRUE

SumStep(f, g, s) == IF s = {} THEN 0 ELSE f[Chosen(s)] + g[s \ {Chosen(s)}]

IsSum(f, S, g) == g = [s \in SUBSET S |-> SumStep(f, g, s)]

LEMMA SumIs ==
    ASSUME NEW f, NEW S
    PROVE  SumFunctionOnSet(f, S) = (CHOOSE g : IsSum(f, S, g))[S]
  BY DEF SumFunctionOnSet, FoldFunctionOnSet, MapThenFoldSet, IsSum, SumStep, Chosen

LEMMA AnyIn ==
    ASSUME NEW S, S # {}
    PROVE  Chosen(S) \in S
  BY DEF Chosen

(* The sums of the subsets of at most k elements. *)
SumUpTo(f, S, k, g) ==
    /\ g = [s \in SUBSET S |-> g[s]]
    /\ \A s \in SUBSET S : Cardinality(s) <= k => g[s] = SumStep(f, g, s)

LEMMA SumUpToNext ==
    ASSUME NEW f, NEW S, IsFiniteSet(S), NEW k \in Nat, NEW g, SumUpTo(f, S, k, g)
    PROVE  SumUpTo(f, S, k + 1, [s \in SUBSET S |-> SumStep(f, g, s)])
<1> DEFINE h == [s \in SUBSET S |-> SumStep(f, g, s)]
<1>1. h = [s \in SUBSET S |-> h[s]]
  OBVIOUS
<1>2. ASSUME NEW s \in SUBSET S, Cardinality(s) <= k + 1
      PROVE  h[s] = SumStep(f, h, s)
  <2>1. CASE s = {}
    BY <2>1 DEF SumStep
  <2>2. CASE s # {}
    <3> DEFINE t == s \ {Chosen(s)}
    <3>1. Chosen(s) \in s /\ t \in SUBSET S
      BY <2>2, AnyIn
    <3>2. Cardinality(t) <= k
      <4>1. IsFiniteSet(s)
        BY FS_Subset
      <4> QED BY <1>2, <3>1, <4>1, SetWithout
    <3>3. h[t] = g[t]
      BY <3>1, <3>2 DEF SumUpTo
    <3> QED BY <2>2, <3>3 DEF SumStep
  <2> QED BY <2>1, <2>2
<1> HIDE DEF h
<1> QED BY <1>1, <1>2 DEF SumUpTo, h

LEMMA SumExists ==
    ASSUME NEW f, NEW S, IsFiniteSet(S)
    PROVE  \E g : IsSum(f, S, g)
<1> DEFINE Bad == {k \in Nat : \A g : ~SumUpTo(f, S, k, g)}
<1>1. 0 \notin Bad
  <2> DEFINE g == [s \in SUBSET S |-> 0]
  <2>1. \A s \in SUBSET S : Cardinality(s) <= 0 => s = {}
    BY FS_Subset, FS_EmptySet, FS_CardinalityType
  <2>2. SumUpTo(f, S, 0, g)
    BY <2>1 DEF SumUpTo, SumStep
  <2> QED BY <2>2
<1>2. \A k \in Nat : k \notin Bad => k + 1 \notin Bad
  BY SumUpToNext
<1>3. Bad = {}
  <2>1. SUFFICES ASSUME Bad # {} PROVE FALSE
    OBVIOUS
  <2> Bad \in SUBSET Nat
    OBVIOUS
  <2> HIDE DEF Bad
  <2>2. PICK k \in Bad : \A j \in Bad : k <= j
    BY <2>1, Smallest
  <2>3. k \in Nat /\ k # 0
    BY <1>1, <2>2
  <2>4. k - 1 \in Nat /\ ~(k <= k - 1) /\ k - 1 + 1 = k
    BY <2>3
  <2>5. k - 1 \notin Bad
    BY <2>2, <2>4
  <2> QED BY <1>2, <2>2, <2>4, <2>5
<1>4. Cardinality(S) \in Nat
  BY FS_CardinalityType
<1>5. PICK g : SumUpTo(f, S, Cardinality(S), g)
  BY <1>3, <1>4
<1>6. \A s \in SUBSET S : Cardinality(s) <= Cardinality(S)
  BY FS_Subset
<1>7. IsSum(f, S, g)
  BY <1>5, <1>6 DEF SumUpTo, IsSum
<1> QED BY <1>7

(* Two such functions agree where what they sum agrees. *)
LEMMA SumUnique ==
    ASSUME NEW e, NEW f, NEW S, NEW T, NEW g, NEW h, IsSum(e, S, g), IsSum(f, T, h),
           NEW U, IsFiniteSet(U), U \subseteq S, U \subseteq T, \A x \in U : e[x] = f[x]
    PROVE  g[U] = h[U]
<1> DEFINE Bad == {V \in SUBSET U : g[V] # h[V]}
<1>1. SUFFICES ASSUME Bad # {} PROVE FALSE
  OBVIOUS
<1>2. \A V \in Bad : IsFiniteSet(V)
  BY FS_Subset
<1>3. PICK V \in Bad : \A W \in Bad : Cardinality(V) <= Cardinality(W)
  BY <1>1, <1>2, SmallestSet, Zenon
<1>4. g[V] = SumStep(e, g, V) /\ h[V] = SumStep(f, h, V)
  BY DEF IsSum
<1>5. V # {}
  BY <1>4 DEF SumStep
<1> DEFINE W == V \ {Chosen(V)}
<1>6. Chosen(V) \in V /\ IsFiniteSet(V)
  BY <1>2, <1>5, AnyIn
<1>7. Cardinality(W) < Cardinality(V) /\ IsFiniteSet(W) /\ Cardinality(V) \in Nat
  BY <1>6, SetWithout
<1>8. Cardinality(W) \in Nat
  BY <1>7, FS_CardinalityType
<1>9. W \notin Bad
  BY <1>3, <1>7, <1>8
<1>10. g[W] = h[W]
  BY <1>9
<1>11. e[Chosen(V)] = f[Chosen(V)]
  BY <1>6
<1> QED BY <1>4, <1>5, <1>10, <1>11 DEF SumStep

LEMMA SumSame ==
    ASSUME NEW e, NEW f, NEW S, IsFiniteSet(S), \A x \in S : e[x] = f[x]
    PROVE  SumFunctionOnSet(e, S) = SumFunctionOnSet(f, S)
<1> DEFINE g == CHOOSE g : IsSum(e, S, g)
           h == CHOOSE h : IsSum(f, S, h)
<1>1. IsSum(e, S, g) /\ IsSum(f, S, h)
  BY SumExists
<1> HIDE DEF g, h
<1>2. g[S] = h[S]
  BY <1>1, SumUnique
<1> QED BY <1>2, SumIs DEF g, h

LEMMA SumChosen ==
    ASSUME NEW f, NEW S, IsFiniteSet(S), S # {}
    PROVE  SumFunctionOnSet(f, S) = f[Chosen(S)] + SumFunctionOnSet(f, S \ {Chosen(S)})
<1> DEFINE T == S \ {Chosen(S)}
           g == CHOOSE g : IsSum(f, S, g)
           h == CHOOSE h : IsSum(f, T, h)
<1>1. IsFiniteSet(T)
  BY FS_Subset
<1>2. IsSum(f, S, g) /\ IsSum(f, T, h)
  BY <1>1, SumExists
<1>3. SumFunctionOnSet(f, S) = g[S] /\ SumFunctionOnSet(f, T) = h[T]
  BY SumIs
<1> HIDE DEF g, h
<1>4. g[T] = h[T]
  BY <1>1, <1>2, SumUnique
<1>5. g[S] = SumStep(f, g, S)
  BY <1>2 DEF IsSum
<1>6. SumStep(f, g, S) = f[Chosen(S)] + g[S \ {Chosen(S)}]
  BY DEF SumStep
<1> QED BY <1>3, <1>4, <1>5, <1>6

LEMMA SumEmpty ==
    ASSUME NEW f
    PROVE  SumFunctionOnSet(f, {}) = 0
<1> DEFINE g == CHOOSE g : IsSum(f, {}, g)
<1>1. IsSum(f, {}, g)
  BY SumExists, FS_EmptySet
<1>2. SumFunctionOnSet(f, {}) = g[{}]
  BY SumIs
<1> HIDE DEF g
<1> QED BY <1>1, <1>2 DEF IsSum, SumStep

LEMMA SumNat ==
    ASSUME NEW f, NEW S, IsFiniteSet(S), \A x \in S : f[x] \in Nat
    PROVE  SumFunctionOnSet(f, S) \in Nat
<1> DEFINE Bad == {T \in SUBSET S : SumFunctionOnSet(f, T) \notin Nat}
<1>1. SUFFICES ASSUME Bad # {} PROVE FALSE
  OBVIOUS
<1>2. \A T \in Bad : IsFiniteSet(T)
  BY FS_Subset
<1>3. PICK T \in Bad : \A U \in Bad : Cardinality(T) <= Cardinality(U)
  BY <1>1, <1>2, SmallestSet, Zenon
<1>4. T # {}
  BY SumEmpty
<1> DEFINE U == T \ {Chosen(T)}
<1>5. Chosen(T) \in T /\ IsFiniteSet(T)
  BY <1>2, <1>4, AnyIn
<1>6. SumFunctionOnSet(f, T) = f[Chosen(T)] + SumFunctionOnSet(f, U)
  BY <1>4, <1>5, SumChosen
<1>7. Cardinality(U) < Cardinality(T) /\ IsFiniteSet(U) /\ Cardinality(T) \in Nat
  BY <1>5, SetWithout
<1>8. Cardinality(U) \in Nat
  BY <1>7, FS_CardinalityType
<1>9. U \notin Bad
  BY <1>3, <1>7, <1>8
<1>10. SumFunctionOnSet(f, U) \in Nat /\ f[Chosen(T)] \in Nat
  BY <1>5, <1>9
<1> QED BY <1>6, <1>10

(* One more element. *)
LEMMA SumAdd ==
    ASSUME NEW f, NEW S, IsFiniteSet(S), NEW x, x \notin S, \A y \in S \cup {x} : f[y] \in Nat
    PROVE  SumFunctionOnSet(f, S \cup {x}) = f[x] + SumFunctionOnSet(f, S)
<1> DEFINE V == S \cup {x}
           Sum(T) == SumFunctionOnSet(f, T)
           Bad == {T \in SUBSET V : \E y \in T : Sum(T) # f[y] + Sum(T \ {y})}
<1>1. IsFiniteSet(V)
  BY FS_AddElement
<1>2. \A T \in SUBSET V : IsFiniteSet(T) /\ Sum(T) \in Nat
  BY <1>1, FS_Subset, SumNat
<1>3. Bad = {}
  <2>1. SUFFICES ASSUME Bad # {} PROVE FALSE
    OBVIOUS
  <2>2. \A T \in Bad : IsFiniteSet(T)
    BY <1>2
  <2>3. PICK T \in Bad : \A U \in Bad : Cardinality(T) <= Cardinality(U)
    BY <2>1, <2>2, SmallestSet, Zenon
  <2>4. PICK y \in T : Sum(T) # f[y] + Sum(T \ {y})
    BY <2>3
  <2> DEFINE z == Chosen(T)
  <2>5. z \in T /\ IsFiniteSet(T)
    BY <2>2, <2>4, AnyIn
  <2>6. Sum(T) = f[z] + Sum(T \ {z})
    BY <2>4, <2>5, SumChosen
  <2> HIDE DEF z
  <2>7. y # z
    BY <2>4, <2>6
  <2>8. \A u \in T : Cardinality(T \ {u}) < Cardinality(T) /\ Cardinality(T \ {u}) \in Nat
                      /\ Cardinality(T) \in Nat
    BY <2>5, SetWithout, FS_CardinalityType
  <2>9. \A u \in T : T \ {u} \notin Bad
    BY <2>3, <2>8
  <2>10. Sum(T \ {z}) = f[y] + Sum((T \ {z}) \ {y})
    BY <2>5, <2>7, <2>9
  <2>11. Sum(T \ {y}) = f[z] + Sum((T \ {y}) \ {z})
    BY <2>5, <2>7, <2>9
  <2>12. (T \ {z}) \ {y} = (T \ {y}) \ {z}
    OBVIOUS
  <2>13. Sum((T \ {y}) \ {z}) \in Nat /\ f[y] \in Nat /\ f[z] \in Nat
    BY <1>2, <2>5
  <2> DEFINE w == Sum((T \ {y}) \ {z})
  <2> HIDE DEF Sum, w
  <2>14. Sum(T) = f[z] + (f[y] + w)
    BY <2>6, <2>10, <2>12 DEF w
  <2>15. f[y] + Sum(T \ {y}) = f[y] + (f[z] + w)
    BY <2>11 DEF w
  <2>16. f[z] + (f[y] + w) = f[y] + (f[z] + w)
    BY <2>13 DEF w
  <2> QED BY <2>4, <2>14, <2>15, <2>16
<1>4. V \notin Bad /\ x \in V /\ V \ {x} = S
  BY <1>3
<1> HIDE DEF Sum
<1>5. Sum(V) = f[x] + Sum(S)
  BY <1>4
<1> QED BY <1>5 DEF Sum

-----------------------------------------------------------------------------
(* Sequences                                                               *)

LEMMA PrefixFacts ==
    ASSUME NEW S, NEW s \in Seq(S), NEW n \in 0..Len(s)
    PROVE  /\ SubSeq(s, 1, n) \in Seq(S)
           /\ Len(SubSeq(s, 1, n)) = n
           /\ \A i \in 1..n : SubSeq(s, 1, n)[i] = s[i]
<1>1. Len(s) \in Nat
  BY LenProperties
<1>2. \A i \in 1..n : s[i] \in S
  BY <1>1, ElementOfSeq
<1>3. /\ SubSeq(s, 1, n) \in Seq(S)
      /\ Len(SubSeq(s, 1, n)) = IF 1 <= n THEN n - 1 + 1 ELSE 0
      /\ \A i \in 1..(n - 1 + 1) : SubSeq(s, 1, n)[i] = s[1 + i - 1]
  BY <1>1, <1>2, SubSeqProperties
<1> QED BY <1>1, <1>3

LEMMA LastFacts ==
    ASSUME NEW S, NEW s \in Seq(S), s # <<>>
    PROVE  /\ Len(s) \in Nat \ {0} /\ Last(s) = s[Len(s)] /\ Last(s) \in S
           /\ Front(s) \in Seq(S) /\ Len(Front(s)) = Len(s) - 1
           /\ \A i \in 1..(Len(s) - 1) : Front(s)[i] = s[i]
<1>1. Len(s) \in Nat \ {0}
  BY EmptySeq
<1>2. Last(s) = s[Len(s)] /\ Last(s) \in S
  BY <1>1, ElementOfSeq DEF Last
<1>3. Len(s) - 1 \in 0..Len(s)
  BY <1>1
<1>4. /\ SubSeq(s, 1, Len(s) - 1) \in Seq(S)
      /\ Len(SubSeq(s, 1, Len(s) - 1)) = Len(s) - 1
      /\ \A i \in 1..(Len(s) - 1) : SubSeq(s, 1, Len(s) - 1)[i] = s[i]
  BY <1>3, PrefixFacts
<1> QED BY <1>1, <1>2, <1>4 DEF Front

-----------------------------------------------------------------------------
(* Types                                                                   *)

LEMMA Numbers ==
    /\ SubmissionInterval \in Nat \ {0} /\ L2BlockTime \in Nat \ {0}
    /\ FinalizationPeriod \in Nat \ {0} /\ FinalityDepth \in Nat \ {0}
    /\ ChallengePeriod \in Nat \ {0} /\ MaxReorgs \in Nat /\ MaxFaults \in Nat
BY BridgeAssumption

(* The number of the block that the proposer reads is positive. *)
LEMMA NextBlockNumberType ==
    ASSUME TypeOK
    PROVE  NextBlockNumber \in Nat \ {0}
<1>1. CASE outputs = <<>>
  BY <1>1, BridgeAssumption DEF NextBlockNumber, LatestBlockNumber
<1>2. CASE outputs # <<>>
  <2>1. Last(outputs) \in [root : Roots, timestamp : Nat]
    BY <1>2, LastFacts DEF TypeOK, ProposerTyped
  <2>2. Last(outputs).root.number \in Nat
    BY <2>1 DEF Roots
  <2> QED BY <1>2, <2>2, Numbers DEF NextBlockNumber, LatestBlockNumber
<1> QED BY <1>1, <1>2

(* Both heads that a proposer may follow are blocks of the L2 chain. *)
LEMMA ProposableHeadBound ==
    ASSUME TypeOK
    PROVE  ProposableHead \in 0..Len(l2)
<1> DEFINE S == {n \in DOMAIN l2 : l2[n].l1 + FinalityDepth < now}
<1>1. Len(l2) \in Nat /\ DOMAIN l2 = 1..Len(l2)
  BY DEF TypeOK, ChainsTyped
<1>2. IsFiniteSet(1..Len(l2)) /\ Cardinality(1..Len(l2)) = Len(l2)
  <2>1. 1 \in Int /\ Len(l2) \in Int
    BY <1>1
  <2>2. /\ IsFiniteSet(1..Len(l2))
        /\ Cardinality(1..Len(l2)) = IF 1 > Len(l2) THEN 0 ELSE Len(l2) - 1 + 1
    BY <2>1, FS_Interval, Zenon
  <2> QED BY <1>1, <2>2
<1>3. S \subseteq 1..Len(l2)
  BY <1>1
<1>4. Cardinality(S) \in Nat /\ Cardinality(S) <= Len(l2)
  BY <1>2, <1>3, FS_Subset, FS_CardinalityType
<1> QED BY <1>1, <1>4 DEF ProposableHead, FinalizedL2

LEMMA RootType ==
    ASSUME TypeOK, NEW n \in 1..Len(l2)
    PROVE  Root(n) \in Roots
<1>1. l2[n] \in [sent : SUBSET Messages, l1 : Nat]
  BY ElementOfSeq DEF TypeOK, ChainsTyped
<1>2. n \in Nat \ {0}
  BY LenProperties DEF TypeOK, ChainsTyped
<1> QED BY <1>1, <1>2 DEF Root, Roots

(* A step that leaves the contracts and the targets alone. *)
LEMMA ContractsUntouched ==
    ASSUME ContractsTyped, UNCHANGED <<paused, portal, messenger, stack>>
    PROVE  ContractsTyped' /\ Current' = Current
BY DEF ContractsTyped, portal, messenger, Current

(* The chains' own steps. *)
LEMMA ChainStepTyped ==
    ASSUME TypeOK,
           NewL1Block \/ (\E ms \in Batches : InitiateWithdrawals(ms)) \/ \E t \in 0..MaxTime : Reorg(t)
    PROVE  TypeOK'
<1> DEFINE Block == [sent : SUBSET Messages, l1 : Nat]
<1> USE DEF TypeOK
<1>1. CASE NewL1Block
  <2>1. ContractsTyped'
    BY <1>1, ContractsUntouched DEF NewL1Block
  <2>2. ChainsTyped'
    BY <1>1 DEF NewL1Block, ChainsTyped
  <2>3. ProposerTyped'
    BY <1>1 DEF NewL1Block, ProposerTyped, proposer
  <2> QED BY <2>1, <2>2, <2>3
<1>2. ASSUME NEW ms \in Batches, InitiateWithdrawals(ms)
      PROVE  TypeOK'
  <2>1. ContractsTyped'
    BY <1>2, ContractsUntouched DEF InitiateWithdrawals
  <2>2. ChainsTyped'
    <3>1. SentBy(Len(l2)) \in SUBSET Messages
      <4>1. CASE Len(l2) = 0
        BY <4>1 DEF SentBy
      <4>2. CASE Len(l2) # 0
        <5>1. Len(l2) \in 1..Len(l2)
          BY <4>2, LenProperties DEF ChainsTyped
        <5>2. l2[Len(l2)] \in Block
          BY <5>1, ElementOfSeq DEF ChainsTyped
        <5> QED BY <4>2, <5>2 DEF SentBy
      <4> QED BY <4>1, <4>2
    <3>2. [sent |-> SentBy(Len(l2)) \cup ms, l1 |-> now - 1] \in Block
      <4>1. ms \subseteq Messages
        BY BridgeAssumption
      <4>2. now - 1 \in Nat
        BY DEF ChainsTyped
      <4> QED BY <3>1, <4>1, <4>2
    <3>3. l2' \in Seq(Block)
      BY <1>2, <3>2 DEF InitiateWithdrawals, ChainsTyped
    <3> QED BY <1>2, <3>3 DEF InitiateWithdrawals, ChainsTyped
  <2>3. ProposerTyped'
    BY <1>2 DEF InitiateWithdrawals, ProposerTyped, proposer
  <2> QED BY <2>1, <2>2, <2>3
<1>3. ASSUME NEW t \in 0..MaxTime, Reorg(t)
      PROVE  TypeOK'
  <2>1. ContractsTyped'
    BY <1>3, ContractsUntouched DEF Reorg
  <2>2. ChainsTyped'
    <3>1. PICK n \in 0..Len(l2) : l2' = SubSeq(l2, 1, n)
      BY <1>3 DEF Reorg
    <3>2. l2' \in Seq(Block)
      BY <3>1, PrefixFacts DEF ChainsTyped
    <3>3. reorgs < MaxReorgs /\ reorgs' = reorgs + 1 /\ now' = now /\ lastCall' = lastCall
      BY <1>3 DEF Reorg
    <3>4. reorgs' \in 0..MaxReorgs
      BY <3>3, Numbers DEF ChainsTyped
    <3> QED BY <3>2, <3>3, <3>4 DEF ChainsTyped
  <2>3. ProposerTyped'
    <3>1. \A p \in pending : p.root \in Roots /\ p.l1 \in Nat
      BY DEF ProposerTyped
    <3>2. \A p \in pending' : p \in [root : Roots, l1 : Nat, canonical : BOOLEAN]
      <4> TAKE p \in pending'
      <4>1. PICK q \in pending :
               p = [root |-> q.root, l1 |-> q.l1, canonical |-> q.canonical /\ q.l1 <= t]
        BY <1>3, Zenon DEF Reorg
      <4>2. (q.canonical /\ q.l1 <= t) \in BOOLEAN
        BY Zenon
      <4> QED BY <3>1, <4>1, <4>2, Zenon
    <3> QED BY <1>3, <3>2 DEF Reorg, ProposerTyped
  <2> QED BY <2>1, <2>2, <2>3
<1> QED BY <1>1, <1>2, <1>3

(* The proposer, the oracle and the guardian. *)
LEMMA OracleStepTyped ==
    ASSUME TypeOK,
           \/ ReadNextBlock \/ FetchOutput \/ NothingToPropose
           \/ \E p \in pending : IncludeProposal(p)
           \/ ProposeWrong
           \/ \E i \in DOMAIN outputs : DeleteL2Outputs(i)
           \/ SetPaused
    PROVE  TypeOK'
<1> DEFINE Output == [root : Roots, timestamp : Nat]
<1> USE DEF TypeOK
<1>1. CASE ReadNextBlock
  <2>1. ContractsTyped'
    BY <1>1, ContractsUntouched DEF ReadNextBlock
  <2>2. ChainsTyped' /\ ProposerTyped'
    BY <1>1, NextBlockNumberType DEF ReadNextBlock, chains, ChainsTyped, ProposerTyped
  <2> QED BY <2>1, <2>2
<1>2. CASE FetchOutput
  <2>1. ContractsTyped'
    BY <1>2, ContractsUntouched DEF FetchOutput
  <2>2. ChainsTyped'
    BY <1>2 DEF FetchOutput, chains, ChainsTyped
  <2>3. next \in 1..Len(l2)
    BY <1>2, ProposableHeadBound DEF FetchOutput, ProposerTyped
  <2>4. Root(next) \in Roots /\ now - 1 \in Nat
    BY <2>3, RootType DEF ChainsTyped
  <2>5. ProposerTyped'
    <3> DEFINE p == [root |-> Root(next), l1 |-> now - 1, canonical |-> TRUE]
    <3>1. p \in [root : Roots, l1 : Nat, canonical : BOOLEAN]
      BY <2>4
    <3>2. pending' = pending \cup {p} /\ next' = None /\ UNCHANGED <<faults, outputs>>
      BY <1>2 DEF FetchOutput
    <3> HIDE DEF p
    <3> QED BY <3>1, <3>2 DEF ProposerTyped
  <2> QED BY <2>1, <2>2, <2>5
<1>3. CASE NothingToPropose
  <2>1. ContractsTyped'
    BY <1>3, ContractsUntouched DEF NothingToPropose
  <2>2. ChainsTyped' /\ ProposerTyped'
    BY <1>3 DEF NothingToPropose, chains, ChainsTyped, ProposerTyped
  <2> QED BY <2>1, <2>2
<1>4. ASSUME NEW p \in pending, IncludeProposal(p)
      PROVE  TypeOK'
  <2>1. ContractsTyped'
    BY <1>4, ContractsUntouched DEF IncludeProposal
  <2>2. p.root \in Roots /\ now \in Nat /\ outputs \in Seq(Output)
    BY DEF ProposerTyped, ChainsTyped
  <2>3. outputs' \in Seq(Output) /\ lastCall' \in 0..now
    <3>1. CASE Proposable(p)
      <4>1. [root |-> p.root, timestamp |-> now] \in Output
        BY <2>2
      <4>2. outputs' = Append(outputs, [root |-> p.root, timestamp |-> now]) /\ lastCall' = now
        BY <1>4, <3>1 DEF IncludeProposal, Record
      <4> QED BY <2>2, <4>1, <4>2
    <3>2. CASE ~Proposable(p)
      BY <1>4, <2>2, <3>2 DEF IncludeProposal, ChainsTyped
    <3> QED BY <3>1, <3>2
  <2>4. ChainsTyped' /\ ProposerTyped'
    BY <1>4, <2>3 DEF IncludeProposal, ChainsTyped, ProposerTyped
  <2> QED BY <2>1, <2>4
<1>5. CASE ProposeWrong
  <2>1. ContractsTyped'
    BY <1>5, ContractsUntouched DEF ProposeWrong
  <2>2. [number |-> NextBlockNumber, sent |-> Messages] \in Roots
    BY NextBlockNumberType DEF Roots
  <2>3. outputs' \in Seq(Output) /\ lastCall' \in 0..now
    BY <1>5, <2>2 DEF ProposeWrong, Record, ChainsTyped, ProposerTyped
  <2>4. faults' \in 0..MaxFaults
    BY <1>5, Numbers DEF ProposeWrong, ProposerTyped
  <2>5. ChainsTyped' /\ ProposerTyped'
    BY <1>5, <2>3, <2>4 DEF ProposeWrong, ChainsTyped, ProposerTyped
  <2> QED BY <2>1, <2>5
<1>6. ASSUME NEW i \in DOMAIN outputs, DeleteL2Outputs(i)
      PROVE  TypeOK'
  <2>1. ContractsTyped'
    BY <1>6, ContractsUntouched DEF DeleteL2Outputs
  <2>2. i - 1 \in 0..Len(outputs)
    BY LenProperties DEF ProposerTyped
  <2>3. outputs' \in Seq(Output)
    BY <1>6, <2>2, PrefixFacts DEF DeleteL2Outputs, ProposerTyped
  <2>4. ChainsTyped' /\ ProposerTyped'
    <3>1. ProposerTyped'
      BY <1>6, <2>3 DEF DeleteL2Outputs, proposer, ProposerTyped
    <3>2. ChainsTyped'
      BY <1>6 DEF DeleteL2Outputs, ChainsTyped
    <3> QED BY <3>1, <3>2
  <2> QED BY <2>1, <2>4
<1>7. CASE SetPaused
  BY <1>7 DEF SetPaused, chains, proposer, portal, messenger, Current,
              ChainsTyped, ProposerTyped, ContractsTyped
<1> QED BY <1>1, <1>2, <1>3, <1>4, <1>5, <1>6, <1>7

LEMMA FrameType ==
    ASSUME ContractsTyped, NEW m \in Messages, NEW caller \in {"portal", "anyone"},
           NEW h \in Nat, NEW fin \in SUBSET Messages
    PROVE  Frame(m, caller, h, fin) \in Frames
BY DEF ContractsTyped, Current, Contracts, Frame, Frames

(* A relay, by the portal or as a replay. *)
LEMMA RelayTyped ==
    ASSUME TypeOK, NEW m \in Messages, NEW caller \in {"portal", "anyone"},
           NEW h \in Nat, NEW fin \in SUBSET Messages, RelayMessage(m, caller, fin, h)
    PROVE  TypeOK'
<1> USE DEF TypeOK
<1>1. ChainsTyped' /\ ProposerTyped'
  BY DEF RelayMessage, proposer, ChainsTyped, ProposerTyped
<1>2. UNCHANGED <<paused, proven, successful, executed>> /\ finalized' = fin
  BY DEF RelayMessage
<1>3. /\ failed' \in SUBSET Messages /\ held' \in Nat
      /\ stack' \in Seq(Frames)
  <2>1. CASE failed' = failed \cup {m} /\ held' = h /\ UNCHANGED stack
    BY <2>1 DEF ContractsTyped, Current, Contracts
  <2>2. CASE /\ Value[m] <= h /\ held' = h - Value[m] /\ UNCHANGED failed
             /\ stack' = Append(stack, Frame(m, caller, h, fin))
    <3>1. Value[m] \in Nat
      BY BridgeAssumption
    <3>2. failed' \in SUBSET Messages /\ held' \in Nat
      BY <2>2, <3>1 DEF ContractsTyped, Current, Contracts
    <3>3. Frame(m, caller, h, fin) \in Frames
      BY FrameType
    <3>4. stack' \in Seq(Frames)
      BY <2>2, <3>3 DEF ContractsTyped
    <3> QED BY <3>2, <3>4
  <2> QED BY <2>1, <2>2 DEF RelayMessage
<1>4. ContractsTyped'
  BY <1>2, <1>3 DEF ContractsTyped, Current, Contracts
<1> QED BY <1>1, <1>4

(* The contracts' own steps. *)
LEMMA ContractStepTyped ==
    ASSUME TypeOK,
           \/ \E m \in Messages : \/ \E i \in DOMAIN outputs : ProveWithdrawal(m, i)
                                  \/ FinalizeByMessenger(m)
                                  \/ FinalizeDirect(m)
                                  \/ Replay(m)
           \/ TargetReturns \/ TargetFails
    PROVE  TypeOK'
<1> USE DEF TypeOK
<1>0. /\ held \in Nat /\ finalized \in SUBSET Messages /\ failed \in SUBSET Messages
      /\ successful \in SUBSET Messages /\ executed \in [Messages -> Nat]
      /\ proven \in [Messages -> ProvenEntries \cup {None}]
  BY DEF ContractsTyped, Current, Contracts
<1>1. ASSUME NEW m \in Messages, NEW i \in DOMAIN outputs, ProveWithdrawal(m, i)
      PROVE  TypeOK'
  <2>1. ChainsTyped' /\ ProposerTyped'
    BY <1>1 DEF ProveWithdrawal, proposer, ChainsTyped, ProposerTyped
  <2> DEFINE e == [root |-> outputs[i].root, timestamp |-> now, index |-> i]
  <2>2. e \in ProvenEntries
    <3>1. i \in 1..Len(outputs) /\ i \in Nat
      BY LenProperties DEF ProposerTyped
    <3>2. outputs[i] \in [root : Roots, timestamp : Nat]
      BY <3>1, ElementOfSeq DEF ProposerTyped
    <3> QED BY <3>1, <3>2 DEF ProvenEntries, ChainsTyped
  <2>3. proven' = [proven EXCEPT ![m] = e]
        /\ UNCHANGED <<paused, finalized, messenger, stack>>
    BY <1>1 DEF ProveWithdrawal
  <2> HIDE DEF e
  <2>4. proven' \in [Messages -> ProvenEntries \cup {None}]
    BY <1>0, <2>2, <2>3
  <2>5. ContractsTyped'
    BY <1>0, <2>3, <2>4 DEF ContractsTyped, Current, Contracts, messenger
  <2> QED BY <2>1, <2>5
<1>2. ASSUME NEW m \in Messages, FinalizeByMessenger(m)
      PROVE  TypeOK'
  <2>1. held + Value[m] \in Nat /\ finalized \cup {m} \in SUBSET Messages
    BY <1>0, BridgeAssumption
  <2> QED BY <1>2, <2>1, RelayTyped DEF FinalizeByMessenger
<1>3. ASSUME NEW m \in Messages, FinalizeDirect(m)
      PROVE  TypeOK'
  <2>1. ChainsTyped' /\ ProposerTyped'
    BY <1>3 DEF FinalizeDirect, proposer, ChainsTyped, ProposerTyped
  <2>2. finalized \cup {m} \in SUBSET Messages
    BY <1>0
  <2>3. Frame(m, "portal", held, finalized \cup {m}) \in Frames
    BY <1>0, <2>2, FrameType
  <2>4. stack' \in Seq(Frames)
    BY <1>3, <2>3 DEF FinalizeDirect, ContractsTyped
  <2>5. finalized' \in SUBSET Messages /\ UNCHANGED <<paused, proven, messenger>>
    BY <1>3, <2>2 DEF FinalizeDirect
  <2>6. ContractsTyped'
    BY <1>0, <2>4, <2>5 DEF ContractsTyped, Current, Contracts, messenger
  <2> QED BY <2>1, <2>6
<1>4. ASSUME NEW m \in Messages, Replay(m)
      PROVE  TypeOK'
  BY <1>0, <1>4, RelayTyped DEF Replay
<1>5. CASE TargetReturns
  <2>1. ChainsTyped' /\ ProposerTyped'
    BY <1>5 DEF TargetReturns, chains, proposer, ChainsTyped, ProposerTyped
  <2>2. Last(stack) \in Frames /\ Front(stack) \in Seq(Frames)
    BY <1>5, LastFacts DEF TargetReturns, Idle, ContractsTyped
  <2>3. Last(stack).message \in Messages
    BY <2>2 DEF Frames
  <2>4. executed' \in [Messages -> Nat]
    BY <1>5, <1>0, <2>3 DEF TargetReturns
  <2>5. successful' \in SUBSET Messages
    BY <1>5, <1>0, <2>3 DEF TargetReturns
  <2>6. stack' \in Seq(Frames) /\ UNCHANGED <<paused, portal, held, failed>>
    BY <1>5, <2>2 DEF TargetReturns
  <2>7. ContractsTyped'
    BY <1>0, <2>4, <2>5, <2>6 DEF ContractsTyped, Current, Contracts, portal
  <2> QED BY <2>1, <2>7
<1>6. CASE TargetFails
  <2>1. ChainsTyped' /\ ProposerTyped'
    BY <1>6 DEF TargetFails, chains, proposer, ChainsTyped, ProposerTyped
  <2> DEFINE f == Last(stack)
  <2>2. f \in Frames /\ Front(stack) \in Seq(Frames)
    BY <1>6, LastFacts DEF TargetFails, Idle, ContractsTyped
  <2>3. /\ proven' = f.saved.proven /\ finalized' = f.saved.finalized
        /\ held' = f.saved.held /\ failed' = f.saved.failed \cup ({f.message} \ Direct)
        /\ successful' = f.saved.successful /\ executed' = f.saved.executed
        /\ stack' = Front(stack) /\ UNCHANGED paused
    BY <1>6 DEF TargetFails
  <2> HIDE DEF f
  <2>4. f.saved \in Contracts /\ f.message \in Messages
    BY <2>2 DEF Frames
  <2>5. ContractsTyped'
    BY <2>2, <2>3, <2>4 DEF ContractsTyped, Current, Contracts
  <2> QED BY <2>1, <2>5
<1> QED BY <1>1, <1>2, <1>3, <1>4, <1>5, <1>6

-----------------------------------------------------------------------------
(* The chains, the proposals and the outputs                               *)

Output == [root : Roots, timestamp : Nat]

(* Blocks derived from L1 blocks up to t survive a step. *)
KeepsL2(t) ==
    \A n \in 1..Len(l2) : l2[n].l1 <= t => n \in 1..Len(l2') /\ l2'[n] = l2[n]

LEMMA BlockType ==
    ASSUME TypeOK, NEW n \in 1..Len(l2)
    PROVE  n \in Nat \ {0} /\ l2[n].sent \in SUBSET Messages /\ l2[n].l1 \in Nat
<1>1. l2[n] \in [sent : SUBSET Messages, l1 : Nat]
  BY ElementOfSeq DEF TypeOK, ChainsTyped
<1>2. n \in Nat \ {0}
  BY LenProperties DEF TypeOK, ChainsTyped
<1> QED BY <1>1, <1>2

LEMMA DerivedKept ==
    ASSUME TypeOK, NEW root \in Roots, NEW t \in Nat, Derived(root, t), KeepsL2(t)
    PROVE  Derived(root, t)'
<1>1. root.number \in Nat \ {0} /\ Len(l2) \in Nat
  BY LenProperties DEF Roots, TypeOK, ChainsTyped
<1>2. root.number \in 1..Len(l2) /\ l2[root.number].l1 <= t /\ root = Root(root.number)
  BY <1>1 DEF Derived
<1>3. root.number \in 1..Len(l2') /\ l2'[root.number] = l2[root.number]
  BY <1>2 DEF KeepsL2
<1>4. Root(root.number)' = Root(root.number)
  BY <1>3 DEF Root
<1> QED BY <1>1, <1>2, <1>3, <1>4 DEF Derived

LEMMA DerivedIsRight ==
    ASSUME NEW root, NEW t, Derived(root, t)
    PROVE  ~Wrong(root)
BY DEF Derived, Wrong

(* What was right and is still there is right. *)
LEMMA RightKept ==
    ASSUME TypeOK, NEW root \in Roots, ~Wrong(root), KeepsL2(l2[root.number].l1)
    PROVE  ~Wrong(root)' /\ l2'[root.number] = l2[root.number]
<1>1. root.number \in Nat \ {0} /\ Len(l2) \in Nat
  BY LenProperties DEF Roots, TypeOK, ChainsTyped
<1>2. root.number \in 1..Len(l2) /\ root = Root(root.number)
  BY <1>1 DEF Wrong
<1>3. l2[root.number].l1 <= l2[root.number].l1
  BY <1>2, BlockType
<1>4. root.number \in 1..Len(l2') /\ l2'[root.number] = l2[root.number]
  BY <1>2, <1>3 DEF KeepsL2
<1> QED BY <1>1, <1>2, <1>4 DEF Wrong, Root

LEMMA OutputType ==
    ASSUME TypeOK, NEW i \in 1..Len(outputs)
    PROVE  outputs[i] \in Output
BY ElementOfSeq DEF TypeOK, ProposerTyped, Output

LEMMA Product ==
    ASSUME NEW a \in Nat, NEW b \in Nat, NEW c \in Nat, a <= b
    PROVE  a * c \in Nat /\ a * c <= b * c /\ (a + 1) * c = a * c + c
<1>1. (a + 1) * c = a * c + c /\ a * c \in Nat
  OBVIOUS
<1>2. (b - a) * c >= 0
  OBVIOUS
<1>3. (b - a) * c = b * c - a * c
  OBVIOUS
<1> QED BY <1>1, <1>2, <1>3

(* Every reorganisation adds to the age that a wrong output may reach, but *)
(* it stays within the finalization period.                                *)
LEMMA WrongUntilFacts ==
    ASSUME TypeOK
    PROVE  /\ WrongUntil \in Nat \ {0}
           /\ ChallengePeriod <= WrongUntil /\ WrongUntil <= FinalizationPeriod
           /\ reorgs' = reorgs + 1 => WrongUntil' = WrongUntil + FinalityDepth - 1
<1> DEFINE d == FinalityDepth - 1
<1>1. d \in Nat /\ reorgs \in Nat /\ MaxReorgs \in Nat /\ reorgs <= MaxReorgs
  BY Numbers DEF TypeOK, ChainsTyped
<1>2. WrongUntil = ChallengePeriod + reorgs * d /\ WrongUntil' = ChallengePeriod + reorgs' * d
      /\ ChallengePeriod + MaxReorgs * d <= FinalizationPeriod
  BY ChallengeMargin DEF WrongUntil
<1>3. FinalityDepth = d + 1
  BY Numbers
<1> HIDE DEF d
<1>4. /\ reorgs * d \in Nat /\ reorgs * d <= MaxReorgs * d /\ (reorgs + 1) * d = reorgs * d + d
      /\ MaxReorgs * d \in Nat
  BY <1>1, Product
<1>5. WrongUntil \in Nat \ {0} /\ ChallengePeriod <= WrongUntil /\ WrongUntil <= FinalizationPeriod
  BY <1>2, <1>4, Numbers
<1>6. ASSUME reorgs' = reorgs + 1
      PROVE  WrongUntil' = WrongUntil + FinalityDepth - 1
  BY <1>1, <1>2, <1>3, <1>4, <1>6, Numbers
<1> QED BY <1>5, <1>6

(* Steps that leave the chains alone keep what holds of an output. *)
LEMMA OutputStable ==
    ASSUME TypeOK, TypeOK', NEW o \in Output, OutputInv(o), UNCHANGED <<now, reorgs, l2>>,
           lastCall <= lastCall', faults <= faults'
    PROVE  OutputInv(o)'
<1>1. lastCall \in Nat /\ lastCall' \in Nat /\ faults \in Nat /\ faults' \in Nat /\ o.timestamp \in Nat
  BY Numbers DEF TypeOK, ChainsTyped, ProposerTyped, Output
<1>2. /\ Derived(o.root, o.timestamp) = Derived(o.root, o.timestamp)'
      /\ Wrong(o.root) = Wrong(o.root)' /\ WrongUntil' = WrongUntil
  BY DEF Derived, Wrong, Root, WrongUntil
<1>3. o.timestamp <= lastCall'
  BY <1>1 DEF OutputInv
<1>4. faults > 0 => faults' > 0
  BY <1>1
<1>5. CASE Derived(o.root, o.timestamp)
  BY <1>2, <1>3, <1>5 DEF OutputInv
<1>6. CASE faults > 0 /\ ~Wrong(o.root) /\ l2[o.root.number].l1 + 1 - o.timestamp < WrongUntil
  BY <1>2, <1>3, <1>4, <1>6 DEF OutputInv
<1>7. CASE faults > 0 /\ Wrong(o.root) /\ now - o.timestamp < WrongUntil
  BY <1>2, <1>3, <1>4, <1>7 DEF OutputInv
<1> QED BY <1>5, <1>6, <1>7 DEF OutputInv

OracleInv == L2Ordered /\ PendingInv /\ OutputsInv

(* Time passes, and the challenger is in time. *)
LEMMA NewL1BlockOracle ==
    ASSUME TypeOK, OracleInv, NewL1Block
    PROVE  OracleInv'
<1>1. /\ now' = now + 1 /\ now \in Nat /\ UNCHANGED <<lastCall, reorgs, faults, l2, pending, outputs>>
      /\ \A i \in DOMAIN outputs :
            Wrong(outputs[i].root) => now + 1 - outputs[i].timestamp < ChallengePeriod
  BY DEF NewL1Block, proposer, TypeOK, ChainsTyped
<1>2. \A root, t : Derived(root, t)' = Derived(root, t) /\ Wrong(root)' = Wrong(root)
  BY <1>1 DEF Derived, Wrong, Root
<1>3. L2Ordered'
  <2>1. \A i \in 1..Len(l2) : l2[i].l1 < now + 1
    BY <1>1, BlockType DEF OracleInv, L2Ordered
  <2> QED BY <1>1, <2>1 DEF OracleInv, L2Ordered
<1>4. PendingInv'
  <2>1. \A p \in pending : p.l1 \in Nat
    BY DEF TypeOK, ProposerTyped
  <2> QED BY <1>1, <1>2, <2>1 DEF OracleInv, PendingInv
<1>5. ASSUME NEW i \in 1..Len(outputs)
      PROVE  OutputInv(outputs[i])'
  <2> DEFINE o == outputs[i]
  <2>1. o \in Output /\ OutputInv(o) /\ i \in DOMAIN outputs
    BY OutputType, LenProperties DEF OracleInv, OutputsInv, TypeOK, ProposerTyped
  <2>2. o' = o /\ WrongUntil' = WrongUntil
    BY <1>1 DEF WrongUntil
  <2>3. Wrong(o.root) => now + 1 - o.timestamp < ChallengePeriod
    BY <1>1, <2>1
  <2> HIDE DEF o
  <2>4. o.timestamp \in Nat /\ o.root \in Roots
    BY <2>1 DEF Output
  <2>5. Wrong(o.root) => now' - o.timestamp < WrongUntil'
    BY <1>1, <2>2, <2>3, <2>4, WrongUntilFacts, Numbers
  <2>6. OutputInv(o)'
    BY <1>1, <1>2, <2>1, <2>2, <2>5 DEF OutputInv
  <2> QED BY <2>6 DEF o
<1> QED BY <1>1, <1>3, <1>4, <1>5 DEF OracleInv, OutputsInv

(* A new L2 block may make a wrong output right. *)
LEMMA InitiateOracle ==
    ASSUME TypeOK, TypeOK', OracleInv, NEW ms \in Batches, InitiateWithdrawals(ms)
    PROVE  OracleInv'
<1> DEFINE n == Len(l2)
           b == [sent |-> SentBy(n) \cup ms, l1 |-> now - 1]
<1>1. /\ l2' = Append(l2, b)
      /\ UNCHANGED <<now, lastCall, reorgs, faults, pending, outputs>>
  BY DEF InitiateWithdrawals, proposer
<1>2. n \in Nat /\ l2 \in Seq([sent : SUBSET Messages, l1 : Nat]) /\ now \in Nat \ {0}
  BY DEF TypeOK, ChainsTyped
<1>3. /\ Len(l2') = n + 1 /\ l2'[n + 1] = b
      /\ \A i \in 1..n : l2'[i] = l2[i]
  BY <1>1, <1>2
<1>4. \A i \in 1..n : l2[i].l1 <= b.l1 /\ l2[i].sent \subseteq b.sent
  <2> TAKE i \in 1..n
  <2>1. l2[i].l1 < now /\ l2[i].l1 \in Nat
    BY BlockType DEF OracleInv, L2Ordered
  <2>2. l2[i].sent \subseteq l2[n].sent
    BY <1>2 DEF OracleInv, L2Ordered
  <2>3. SentBy(n) = l2[n].sent
    BY <1>2 DEF SentBy
  <2> QED BY <1>2, <2>1, <2>2, <2>3
<1>5. b.l1 = now - 1
  OBVIOUS
<1> HIDE DEF b, n
<1>6. L2Ordered'
  <2>1. \A i \in 1..Len(l2') : l2'[i].l1 < now
    <3> TAKE i \in 1..Len(l2')
    <3>1. CASE i = n + 1
      BY <1>2, <1>3, <1>5, <3>1
    <3>2. CASE i # n + 1
      BY <1>2, <1>3, <3>2 DEF OracleInv, L2Ordered, n
    <3> QED BY <3>1, <3>2
  <2>2. ASSUME NEW i \in 1..Len(l2'), NEW j \in 1..Len(l2'), i <= j
        PROVE  l2'[i].l1 <= l2'[j].l1 /\ l2'[i].sent \subseteq l2'[j].sent
    <3>1. CASE j # n + 1
      <4>1. i \in 1..n /\ j \in 1..n
        BY <1>2, <1>3, <2>2, <3>1
      <4> QED BY <1>3, <2>2, <4>1 DEF OracleInv, L2Ordered, n
    <3>2. CASE j = n + 1 /\ i # n + 1
      <4>1. i \in 1..n
        BY <1>2, <1>3, <3>2
      <4> QED BY <1>3, <1>4, <3>2, <4>1
    <3>3. CASE j = n + 1 /\ i = n + 1
      <4>1. l2'[i] = b /\ l2'[j] = b
        BY <1>3, <3>3
      <4>2. now - 1 <= now - 1
        BY <1>2
      <4> QED BY <1>5, <4>1, <4>2
    <3> QED BY <3>1, <3>2, <3>3
  <2> QED BY <1>1, <2>1, <2>2 DEF L2Ordered
<1>7. \A t : KeepsL2(t)
  BY <1>2, <1>3 DEF KeepsL2, n
<1>8. PendingInv'
  <2> SUFFICES ASSUME NEW p \in pending, p.canonical
               PROVE  p.l1 < now /\ Derived(p.root, p.l1)'
    BY <1>1 DEF PendingInv
  <2>1. p.root \in Roots /\ p.l1 \in Nat
    BY DEF TypeOK, ProposerTyped
  <2>2. p.l1 < now /\ Derived(p.root, p.l1)
    BY DEF OracleInv, PendingInv
  <2> QED BY <1>7, <2>1, <2>2, DerivedKept
<1>9. ASSUME NEW o \in Output, OutputInv(o)
      PROVE  OutputInv(o)'
  <2>1. o.root \in Roots /\ o.timestamp \in Nat /\ o.root.number \in Nat \ {0}
    BY DEF Output, Roots
  <2>2. o.timestamp <= lastCall' /\ WrongUntil' = WrongUntil /\ faults' = faults /\ now' = now
    BY <1>1, <1>9 DEF OutputInv, WrongUntil
  <2>3. CASE Derived(o.root, o.timestamp)
    BY <1>7, <2>1, <2>2, <2>3, DerivedKept DEF OutputInv
  <2>4. CASE faults > 0 /\ ~Wrong(o.root) /\ l2[o.root.number].l1 + 1 - o.timestamp < WrongUntil
    BY <1>7, <2>1, <2>2, <2>4, RightKept DEF OutputInv
  <2>5. CASE faults > 0 /\ Wrong(o.root) /\ now - o.timestamp < WrongUntil
    <3>1. CASE Wrong(o.root)'
      BY <2>2, <2>5, <3>1 DEF OutputInv
    <3>2. CASE ~Wrong(o.root)'
      <4>1. o.root.number = n + 1
        <5>1. o.root.number <= Len(l2') /\ o.root = Root(o.root.number)'
          BY <3>2 DEF Wrong
        <5>2. CASE o.root.number <= n
          <6>1. Root(o.root.number)' = Root(o.root.number)
            BY <1>2, <1>3, <2>1, <5>2 DEF Root
          <6> QED BY <2>5, <5>1, <5>2, <6>1 DEF Wrong, n
        <5> QED BY <1>2, <1>3, <2>1, <5>1, <5>2
      <4> DEFINE u == l2'[o.root.number].l1
      <4>2. u = now - 1
        BY <1>2, <1>3, <1>5, <4>1
      <4> HIDE DEF u
      <4>3. u + 1 - o.timestamp < WrongUntil'
        BY <1>2, <2>1, <2>2, <2>5, <4>2, WrongUntilFacts
      <4>4. faults' > 0
        BY <2>2, <2>5
      <4> QED BY <2>2, <3>2, <4>3, <4>4 DEF OutputInv, u
    <3> QED BY <3>1, <3>2
  <2> QED BY <1>9, <2>3, <2>4, <2>5 DEF OutputInv
<1>10. OutputsInv'
  <2>1. \A i \in 1..Len(outputs) : outputs[i] \in Output /\ OutputInv(outputs[i])
    BY OutputType DEF OracleInv, OutputsInv
  <2>2. \A i \in 1..Len(outputs) : OutputInv(outputs[i])'
    <3> TAKE i \in 1..Len(outputs)
    <3> DEFINE o == outputs[i]
    <3>1. o \in Output /\ OutputInv(o) /\ o' = o
      BY <1>1, <2>1
    <3> HIDE DEF o
    <3>2. OutputInv(o)'
      BY <1>9, <3>1 DEF OutputInv
    <3> QED BY <3>2 DEF o
  <2> QED BY <1>1, <2>2 DEF OutputsInv
<1> QED BY <1>6, <1>8, <1>10 DEF OracleInv

(* A reorganisation drops no block that an output was right about when it  *)
(* was recorded; an output that became right later may be wrong again.     *)
LEMMA ReorgOracle ==
    ASSUME TypeOK, TypeOK', OracleInv, NEW t \in 0..MaxTime, Reorg(t)
    PROVE  OracleInv'
<1>1. /\ lastCall <= t /\ now <= t + 1 + FinalityDepth /\ reorgs' = reorgs + 1
      /\ UNCHANGED <<now, lastCall, faults, outputs>>
  BY DEF Reorg
<1>2. PICK n \in 0..Len(l2) : /\ \A i \in 1..Len(l2) : l2[i].l1 <= t <=> i <= n
                              /\ l2' = SubSeq(l2, 1, n)
  BY DEF Reorg
<1>3. n \in Nat /\ Len(l2) \in Nat /\ t \in Nat /\ now \in Nat /\ lastCall \in Nat
  BY LenProperties, BridgeAssumption DEF TypeOK, ChainsTyped
<1>4. Len(l2') = n /\ \A i \in 1..n : l2'[i] = l2[i]
  BY <1>2, PrefixFacts DEF TypeOK, ChainsTyped
<1>5. \A i \in 1..n : i \in 1..Len(l2)
  BY <1>3
<1>6. L2Ordered'
  BY <1>1, <1>4, <1>5 DEF OracleInv, L2Ordered
<1>7. ASSUME NEW u \in Nat, u <= t
      PROVE  KeepsL2(u)
  <2> SUFFICES ASSUME NEW i \in 1..Len(l2), l2[i].l1 <= u
               PROVE  i \in 1..Len(l2') /\ l2'[i] = l2[i]
    BY DEF KeepsL2
  <2>1. l2[i].l1 <= t
    BY <1>3, <1>7, BlockType
  <2>2. i \in 1..n
    BY <1>2, <1>3, <2>1
  <2> QED BY <1>4, <2>2
<1>8. PendingInv'
  <2> SUFFICES ASSUME NEW p \in pending', p.canonical
               PROVE  p.l1 < now /\ Derived(p.root, p.l1)'
    BY <1>1 DEF PendingInv
  <2>1. PICK q \in pending :
           p = [root |-> q.root, l1 |-> q.l1, canonical |-> q.canonical /\ q.l1 <= t]
    BY Zenon DEF Reorg
  <2>2. p.root = q.root /\ p.l1 = q.l1 /\ q.canonical /\ q.l1 <= t
    BY <2>1
  <2>3. q.root \in Roots /\ q.l1 \in Nat
    BY DEF TypeOK, ProposerTyped
  <2>4. q.l1 < now /\ Derived(q.root, q.l1)
    BY <2>2 DEF OracleInv, PendingInv
  <2>5. Derived(q.root, q.l1)'
    BY <1>7, <2>2, <2>3, <2>4, DerivedKept
  <2> QED BY <2>2, <2>4, <2>5
<1>9. ASSUME NEW o \in Output, OutputInv(o)
      PROVE  OutputInv(o)'
  <2>1. o.root \in Roots /\ o.timestamp \in Nat /\ o.root.number \in Nat \ {0}
    BY DEF Output, Roots
  <2>2. o.timestamp <= lastCall' /\ faults' = faults /\ now' = now
    BY <1>1, <1>9 DEF OutputInv
  <2>3. WrongUntil' = WrongUntil + FinalityDepth - 1 /\ WrongUntil \in Nat /\ FinalityDepth \in Nat \ {0}
    BY <1>1, WrongUntilFacts, Numbers
  <2>4. CASE Derived(o.root, o.timestamp)
    <3>1. o.timestamp <= t
      BY <1>1, <1>3, <1>9, <2>1 DEF OutputInv
    <3> QED BY <1>7, <2>1, <2>2, <2>4, <3>1, DerivedKept DEF OutputInv
  <2>5. CASE faults > 0 /\ ~Wrong(o.root) /\ l2[o.root.number].l1 + 1 - o.timestamp < WrongUntil
    <3> DEFINE u == l2[o.root.number].l1
    <3>1. o.root.number \in 1..Len(l2)
      BY <1>3, <2>1, <2>5 DEF Wrong
    <3>2. u \in Nat
      BY <3>1, BlockType
    <3>3. CASE u <= t
      <4>1. KeepsL2(u)
        BY <1>7, <3>2, <3>3
      <4>2. ~Wrong(o.root)' /\ l2'[o.root.number] = l2[o.root.number]
        BY <2>1, <2>5, <4>1, RightKept
      <4>3. l2'[o.root.number].l1 + 1 - o.timestamp < WrongUntil'
        BY <2>1, <2>3, <2>5, <3>2, <4>2
      <4> QED BY <2>2, <2>5, <4>2, <4>3 DEF OutputInv
    <3>4. CASE u > t
      <4>1. ~(o.root.number <= n)
        BY <1>2, <1>3, <3>1, <3>2, <3>4
      <4>2. Wrong(o.root)'
        BY <1>3, <1>4, <2>1, <4>1 DEF Wrong
      <4>3. u + 1 - o.timestamp < WrongUntil
        BY <2>5
      <4> HIDE DEF u
      <4>4. now <= u + FinalityDepth
        <5>1. t + 1 <= u
          BY <1>3, <3>2, <3>4
        <5>2. now <= t + 1 + FinalityDepth
          BY <1>1
        <5> QED BY <1>3, <2>3, <3>2, <5>1, <5>2
      <4>5. now - o.timestamp < WrongUntil + FinalityDepth - 1
        BY <1>3, <2>1, <2>3, <3>2, <4>3, <4>4
      <4>6. now' - o.timestamp < WrongUntil'
        BY <2>2, <2>3, <4>5
      <4> QED BY <2>2, <2>5, <4>2, <4>6 DEF OutputInv
    <3> QED BY <1>3, <3>2, <3>3, <3>4
  <2>6. CASE faults > 0 /\ Wrong(o.root) /\ now - o.timestamp < WrongUntil
    <3>1. Wrong(o.root)'
      <4>1. CASE o.root.number <= n
        <5>1. o.root.number \in 1..n /\ o.root.number \in 1..Len(l2)
          BY <1>3, <2>1, <4>1
        <5>2. Root(o.root.number)' = Root(o.root.number) /\ o.root.number <= Len(l2)
          BY <1>3, <1>4, <5>1 DEF Root
        <5> QED BY <2>6, <5>2 DEF Wrong
      <4>2. CASE ~(o.root.number <= n)
        BY <1>4, <4>2 DEF Wrong
      <4> QED BY <4>1, <4>2
    <3>2. now' - o.timestamp < WrongUntil'
      BY <1>3, <2>1, <2>2, <2>3, <2>6
    <3> QED BY <2>2, <2>6, <3>1, <3>2 DEF OutputInv
  <2> QED BY <1>9, <2>4, <2>5, <2>6 DEF OutputInv
<1>10. OutputsInv'
  <2> SUFFICES ASSUME NEW i \in 1..Len(outputs) PROVE OutputInv(outputs[i])'
    BY <1>1 DEF OutputsInv
  <2> DEFINE o == outputs[i]
  <2>1. o \in Output /\ OutputInv(o) /\ o' = o
    BY <1>1, OutputType DEF OracleInv, OutputsInv
  <2> HIDE DEF o
  <2>2. OutputInv(o)'
    BY <1>9, <2>1 DEF OutputInv
  <2> QED BY <2>2 DEF o
<1> QED BY <1>6, <1>8, <1>10 DEF OracleInv

(* A step of the contracts leaves the chains and the oracle alone. *)
LEMMA CallOracle ==
    ASSUME TypeOK, TypeOK', OracleInv, UNCHANGED <<now, reorgs, l2, proposer, outputs>>,
           lastCall <= lastCall'
    PROVE  OracleInv'
<1>1. UNCHANGED <<now, reorgs, l2, pending, faults, outputs>> /\ faults \in Nat
  BY Numbers DEF proposer, TypeOK, ProposerTyped
<1>2. L2Ordered'
  BY <1>1 DEF OracleInv, L2Ordered
<1>3. PendingInv'
  BY <1>1 DEF OracleInv, PendingInv, Derived, Root
<1>4. ASSUME NEW i \in 1..Len(outputs) PROVE OutputInv(outputs[i])'
  <2> DEFINE o == outputs[i]
  <2>1. o \in Output /\ OutputInv(o) /\ o' = o
    BY <1>1, OutputType DEF OracleInv, OutputsInv
  <2> HIDE DEF o
  <2>2. faults <= faults'
    BY <1>1
  <2>3. OutputInv(o)'
    BY <1>1, <2>1, <2>2, OutputStable DEF OutputInv
  <2> QED BY <2>3 DEF o
<1> QED BY <1>1, <1>2, <1>3, <1>4 DEF OracleInv, OutputsInv

(* An output is recorded that is right, or by a faulty proposer. *)
LEMMA RecordOutputs ==
    ASSUME TypeOK, TypeOK', OracleInv, NEW root \in Roots, Record(root),
           UNCHANGED <<now, reorgs, l2>>, faults <= faults',
           \/ Derived(root, now)
           \/ faults' > 0 /\ Wrong(root)
    PROVE  OutputsInv'
<1> DEFINE o == [root |-> root, timestamp |-> now]
<1>1. outputs' = Append(outputs, o) /\ lastCall' = now /\ lastCall <= now /\ now \in Nat
      /\ outputs \in Seq(Output) /\ lastCall \in Nat
  BY DEF Record, TypeOK, ChainsTyped, ProposerTyped, Output
<1>2. o \in Output /\ o.root = root /\ o.timestamp = now
  BY <1>1 DEF Output
<1>3. OutputInv(o)'
  <2>1. now <= lastCall'
    BY <1>1
  <2>2. CASE Derived(root, now)
    BY <2>1, <2>2 DEF OutputInv, Derived, Root
  <2>3. CASE faults' > 0 /\ Wrong(root)
    <3>1. now - now < WrongUntil
      BY <1>1, WrongUntilFacts
    <3>2. Wrong(root)' /\ WrongUntil' = WrongUntil
      BY <2>3 DEF Wrong, Root, WrongUntil
    <3> QED BY <2>1, <2>3, <3>1, <3>2 DEF OutputInv
  <2> QED BY <2>2, <2>3
<1> HIDE DEF o
<1>4. /\ Len(outputs') = Len(outputs) + 1 /\ Len(outputs) \in Nat
      /\ outputs'[Len(outputs) + 1] = o
      /\ \A i \in 1..Len(outputs) : outputs'[i] = outputs[i]
  BY <1>1, <1>2
<1>5. ASSUME NEW i \in 1..Len(outputs')
      PROVE  OutputInv(outputs[i])'
  <2>1. CASE i \in 1..Len(outputs)
    <3> DEFINE q == outputs[i]
    <3>1. q \in Output /\ OutputInv(q) /\ q' = q
      BY <1>4, <2>1, OutputType DEF OracleInv, OutputsInv
    <3> HIDE DEF q
    <3>2. OutputInv(q)'
      BY <1>1, <3>1, OutputStable DEF OutputInv
    <3> QED BY <3>2 DEF q
  <2>2. CASE i = Len(outputs) + 1
    <3>1. outputs[i]' = o
      BY <1>4, <2>2
    <3>2. o' = o
      BY DEF o
    <3> QED BY <1>3, <3>1, <3>2 DEF OutputInv
  <2> QED BY <1>4, <2>1, <2>2
<1> QED BY <1>5 DEF OutputsInv

(* The steps of the proposer and the oracle. *)
LEMMA OracleStepOracle ==
    ASSUME TypeOK, TypeOK', OracleInv,
           \/ ReadNextBlock \/ FetchOutput \/ NothingToPropose
           \/ \E p \in pending : IncludeProposal(p)
           \/ ProposeWrong
           \/ \E i \in DOMAIN outputs : DeleteL2Outputs(i)
           \/ SetPaused
    PROVE  OracleInv'
<1>0. /\ now \in Nat \ {0} /\ lastCall \in Nat /\ lastCall <= now /\ faults \in Nat
      /\ lastCall <= lastCall /\ faults <= faults
  BY Numbers DEF TypeOK, ChainsTyped, ProposerTyped
<1>a. ASSUME UNCHANGED <<now, l2>>
      PROVE  L2Ordered'
  BY <1>a DEF OracleInv, L2Ordered
<1>b. ASSUME UNCHANGED <<now, l2>>, pending' \subseteq pending
      PROVE  PendingInv'
  BY <1>b DEF OracleInv, PendingInv, Derived, Root
<1>c. ASSUME UNCHANGED <<now, l2, reorgs, lastCall, faults, outputs>>
      PROVE  OutputsInv'
  <2>1. ASSUME NEW i \in 1..Len(outputs) PROVE OutputInv(outputs[i])'
    <3> DEFINE o == outputs[i]
    <3>1. o \in Output /\ OutputInv(o) /\ o' = o
      BY <1>c, OutputType DEF OracleInv, OutputsInv
    <3> HIDE DEF o
    <3>2. OutputInv(o)'
      BY <1>0, <1>c, <3>1, OutputStable DEF OutputInv
    <3> QED BY <3>2 DEF o
  <2> QED BY <1>c, <2>1 DEF OutputsInv
<1>1. CASE ReadNextBlock \/ NothingToPropose \/ SetPaused
  <2>1. UNCHANGED <<now, l2, reorgs, lastCall, faults, outputs, pending>>
    BY <1>1 DEF ReadNextBlock, NothingToPropose, SetPaused, chains, proposer
  <2> QED BY <2>1, <1>a, <1>b, <1>c DEF OracleInv
<1>2. CASE FetchOutput
  <2> DEFINE p == [root |-> Root(next), l1 |-> now - 1, canonical |-> TRUE]
  <2>1. /\ UNCHANGED <<now, l2, reorgs, lastCall, faults, outputs>>
        /\ pending' = pending \cup {p}
    BY <1>2 DEF FetchOutput, chains
  <2>2. next \in 1..Len(l2)
    BY <1>2, ProposableHeadBound DEF FetchOutput, TypeOK, ProposerTyped
  <2>3. p.root = Root(next) /\ p.root.number = next /\ p.l1 = now - 1
    BY DEF Root
  <2>4. l2[next].l1 < now /\ l2[next].l1 \in Nat /\ next \in Nat /\ next <= Len(l2)
    BY <2>2, BlockType, LenProperties DEF OracleInv, L2Ordered, TypeOK, ChainsTyped
  <2>5. p.l1 < now /\ Derived(p.root, p.l1)
    BY <1>0, <2>3, <2>4 DEF Derived
  <2> HIDE DEF p
  <2>6. \A q \in pending' : q.canonical => q.l1 < now /\ Derived(q.root, q.l1)
    BY <2>1, <2>5 DEF OracleInv, PendingInv
  <2>7. PendingInv'
    BY <2>1, <2>6 DEF PendingInv, Derived, Root
  <2> QED BY <2>1, <2>7, <1>a, <1>c DEF OracleInv
<1>3. ASSUME NEW p \in pending, IncludeProposal(p)
      PROVE  OracleInv'
  <2>1. UNCHANGED <<now, l2, reorgs, faults>> /\ pending' \subseteq pending
    BY <1>3 DEF IncludeProposal
  <2>2. OutputsInv'
    <3>1. CASE Proposable(p)
      <4>1. p.root \in Roots /\ p.l1 \in Nat
        BY DEF TypeOK, ProposerTyped
      <4>2. p.l1 < now /\ Derived(p.root, p.l1)
        BY <3>1 DEF Proposable, OracleInv, PendingInv
      <4>3. Derived(p.root, now)
        <5>1. p.root.number \in 1..Len(l2)
          BY <4>1, <4>2, LenProperties DEF Derived, Roots, TypeOK, ChainsTyped
        <5>2. l2[p.root.number].l1 \in Nat
          BY <5>1, BlockType
        <5> QED BY <1>0, <4>1, <4>2, <5>2 DEF Derived
      <4>4. Record(p.root)
        BY <1>3, <3>1 DEF IncludeProposal
      <4> QED BY <1>0, <2>1, <4>1, <4>3, <4>4, RecordOutputs
    <3>2. CASE ~Proposable(p)
      BY <1>3, <2>1, <3>2, <1>c DEF IncludeProposal
    <3> QED BY <3>1, <3>2
  <2> QED BY <2>1, <2>2, <1>a, <1>b DEF OracleInv
<1>4. CASE ProposeWrong
  <2> DEFINE root == [number |-> NextBlockNumber, sent |-> Messages]
  <2>1. UNCHANGED <<now, l2, reorgs, pending>> /\ faults' = faults + 1 /\ Record(root) /\ Wrong(root)
    BY <1>4 DEF ProposeWrong
  <2>2. root \in Roots
    BY NextBlockNumberType DEF Roots
  <2> HIDE DEF root
  <2>3. faults <= faults' /\ faults' > 0
    BY <1>0, <2>1
  <2>4. OutputsInv'
    BY <2>1, <2>2, <2>3, RecordOutputs
  <2> QED BY <2>1, <2>4, <1>a, <1>b DEF OracleInv
<1>5. ASSUME NEW k \in DOMAIN outputs, DeleteL2Outputs(k)
      PROVE  OracleInv'
  <2>1. /\ UNCHANGED <<now, l2, reorgs, pending, faults>> /\ lastCall' = now
        /\ outputs' = SubSeq(outputs, 1, k - 1)
    BY <1>5 DEF DeleteL2Outputs, proposer
  <2>2. k - 1 \in 0..Len(outputs) /\ outputs \in Seq(Output) /\ k \in Nat /\ Len(outputs) \in Nat
    BY LenProperties DEF TypeOK, ProposerTyped, Output
  <2>3. Len(outputs') = k - 1 /\ \A i \in 1..(k - 1) : outputs'[i] = outputs[i]
    BY <2>1, <2>2, PrefixFacts
  <2>4. ASSUME NEW i \in 1..Len(outputs') PROVE OutputInv(outputs[i])'
    <3> DEFINE o == outputs[i]
    <3>1. i \in 1..Len(outputs) /\ o' = o
      BY <2>2, <2>3
    <3>2. o \in Output /\ OutputInv(o)
      BY <3>1, OutputType DEF OracleInv, OutputsInv
    <3> HIDE DEF o
    <3>3. OutputInv(o)'
      BY <1>0, <2>1, <3>1, <3>2, OutputStable DEF OutputInv
    <3> QED BY <3>3 DEF o
  <2>5. OutputsInv'
    BY <2>4 DEF OutputsInv
  <2> QED BY <2>1, <2>5, <1>a, <1>b DEF OracleInv
<1> QED BY <1>1, <1>2, <1>3, <1>4, <1>5

-----------------------------------------------------------------------------
(* The portal, the messenger and the targets                               *)

(* More messages are settled. *)
LEMMA ConsistentMonotonic ==
    ASSUME NEW s, NEW run, NEW sent, NEW more, Consistent(s, run, sent), sent \subseteq more
    PROVE  Consistent(s, run, more)
BY DEF Consistent, Proven

(* The target of m starts, from s to t. *)
LEMMA TargetStarts ==
    ASSUME NEW s, NEW t, NEW run, NEW sent, NEW m \in Messages, Consistent(s, run, sent),
           t.proven = s.proven, t.failed = s.failed,
           t.successful = s.successful, t.executed = s.executed,
           s.finalized \subseteq t.finalized, t.finalized \subseteq s.finalized \cup {m},
           t.finalized \subseteq sent,
           m \in Direct => m \notin s.finalized /\ m \in t.finalized,
           m \notin Direct => m \notin s.successful
    PROVE  Consistent(t, run \cup {m}, sent)
<1>1. Proven(t, sent)
  BY DEF Consistent, Proven
<1>2. NotLost(t, run \cup {m})
  BY DEF Consistent, NotLost
<1>3. Once(t, run \cup {m})
  BY DEF Consistent, Once
<1> QED BY <1>1, <1>2, <1>3 DEF Consistent

(* The target of m returns: m is done and cannot be started again. *)
LEMMA TargetDone ==
    ASSUME NEW s, NEW t, NEW run, NEW sent, NEW m \in Messages,
           s.executed \in [Messages -> Nat],
           Consistent(s, run \cup {m}, sent), m \notin run,
           t.proven = s.proven, t.finalized = s.finalized, t.failed = s.failed,
           t.successful = s.successful \cup ({m} \ Direct),
           t.executed = [s.executed EXCEPT ![m] = @ + 1]
    PROVE  Consistent(t, run, sent)
<1>1. Proven(t, sent)
  BY DEF Consistent, Proven
<1>2. NotLost(t, run)
  BY DEF Consistent, NotLost
<1>3. s.executed[m] = 0
  BY DEF Consistent, Once
<1>4. Once(t, run)
  <2>1. \A x \in run : IF x \in Direct THEN x \in t.finalized ELSE x \notin t.successful
    BY DEF Consistent, Once
  <2>2. ASSUME NEW x \in Messages
        PROVE  \/ t.executed[x] = 0
               \/ /\ t.executed[x] = 1 /\ x \notin run
                  /\ IF x \in Direct THEN x \in t.finalized ELSE x \in t.successful
    <3>1. CASE x = m
      <4>1. t.executed[x] = 1
        BY <1>3, <3>1
      <4>2. IF x \in Direct THEN x \in t.finalized ELSE x \in t.successful
        BY <3>1 DEF Consistent, Once
      <4> QED BY <3>1, <4>1, <4>2
    <3>2. CASE x # m
      <4>1. t.executed[x] = s.executed[x]
        BY <3>2
      <4> QED BY <3>2, <4>1 DEF Consistent, Once
    <3> QED BY <3>1, <3>2
  <2> QED BY <2>1, <2>2 DEF Once
<1> QED BY <1>1, <1>2, <1>4 DEF Consistent

(* It fails: what it did is undone and m is kept for a replay. *)
LEMMA TargetUndone ==
    ASSUME NEW s, NEW t, NEW run, NEW sent, NEW m \in Messages,
           Consistent(s, run \cup {m}, sent),
           t.proven = s.proven, t.finalized = s.finalized,
           t.failed = s.failed \cup ({m} \ Direct),
           t.successful = s.successful, t.executed = s.executed
    PROVE  Consistent(t, run, sent)
<1>1. Proven(t, sent)
  BY DEF Consistent, Proven
<1>2. NotLost(t, run)
  BY DEF Consistent, NotLost
<1>3. Once(t, run)
  BY DEF Consistent, Once
<1> QED BY <1>1, <1>2, <1>3 DEF Consistent

(* The messenger keeps m for a replay at once. *)
LEMMA RelayKept ==
    ASSUME NEW s, NEW t, NEW run, NEW sent, NEW m \in Messages \ Direct,
           Consistent(s, run, sent),
           t.proven = s.proven, t.successful = s.successful, t.executed = s.executed,
           t.failed = s.failed \cup {m},
           s.finalized \subseteq t.finalized, t.finalized \subseteq s.finalized \cup {m},
           t.finalized \subseteq sent
    PROVE  Consistent(t, run, sent)
<1>1. Proven(t, sent)
  BY DEF Consistent, Proven
<1>2. NotLost(t, run)
  BY DEF Consistent, NotLost
<1>3. Once(t, run)
  BY DEF Consistent, Once
<1> QED BY <1>1, <1>2, <1>3 DEF Consistent

(* Settled blocks stay. *)
LEMMA SettledKept ==
    ASSUME TypeOK, TypeOK', lastCall <= lastCall', KeepsL2(lastCall)
    PROVE  Settled \subseteq Settled'
<1> SUFFICES ASSUME NEW m \in Settled PROVE m \in Settled'
  OBVIOUS
<1>1. PICK n \in 1..Len(l2) : m \in l2[n].sent /\ l2[n].l1 <= lastCall
  BY DEF Settled
<1>2. n \in 1..Len(l2') /\ l2'[n] = l2[n]
  BY <1>1 DEF KeepsL2
<1>3. l2[n].l1 \in Nat /\ lastCall \in Nat /\ lastCall' \in Nat
  BY BlockType DEF TypeOK, ChainsTyped
<1>4. l2'[n].l1 <= lastCall'
  BY <1>1, <1>2, <1>3
<1> QED BY <1>1, <1>2, <1>4 DEF Settled

(* Steps that leave the contracts alone. *)
LEMMA ContractsKept ==
    ASSUME TypeOK, TypeOK', ContractsInv, UNCHANGED <<portal, messenger, stack>>,
           lastCall <= lastCall', KeepsL2(lastCall)
    PROVE  ContractsInv'
<1>1. Current' = Current /\ stack' = stack
  BY DEF portal, messenger, Current
<1>2. Settled \subseteq Settled'
  BY SettledKept
<1>3. Consistent(Current, Running(stack, Len(stack)), Settled')
  BY <1>2, ConsistentMonotonic DEF ContractsInv
<1>4. \A i \in 1..Len(stack) : Consistent(stack[i].saved, Running(stack, i), Settled')
  BY <1>2, ConsistentMonotonic DEF ContractsInv
<1> QED BY <1>1, <1>3, <1>4 DEF ContractsInv

LEMMA RunningAppend ==
    ASSUME NEW st \in Seq(Frames), NEW f \in Frames
    PROVE  /\ \A i \in 0..Len(st) : Running(Append(st, f), i) = Running(st, i)
           /\ Running(Append(st, f), Len(st) + 1) = Running(st, Len(st)) \cup {f.message}
<1>1. /\ Len(st) \in Nat /\ Append(st, f)[Len(st) + 1] = f
      /\ \A j \in 1..Len(st) : Append(st, f)[j] = st[j]
  OBVIOUS
<1> DEFINE a == Append(st, f)
<1> HIDE DEF a
<1>2. /\ a[Len(st) + 1] = f
      /\ \A j \in 1..Len(st) : a[j] = st[j]
  BY <1>1 DEF a
<1>3. \A i \in 0..Len(st) : \A j \in 1..i : a[j] = st[j]
  BY <1>1, <1>2
<1>4. \A i \in 0..Len(st) : Running(a, i) = Running(st, i)
  BY <1>3 DEF Running
<1>5. 1..(Len(st) + 1) = (1..Len(st)) \cup {Len(st) + 1}
  BY <1>1
<1>6. Running(a, Len(st) + 1) = Running(st, Len(st)) \cup {f.message}
  BY <1>2, <1>5 DEF Running
<1> QED BY <1>4, <1>6 DEF a

LEMMA RunningFront ==
    ASSUME NEW st \in Seq(Frames), st # <<>>
    PROVE  /\ \A i \in 0..(Len(st) - 1) : Running(Front(st), i) = Running(st, i)
           /\ Running(st, Len(st)) = Running(st, Len(st) - 1) \cup {Last(st).message}
<1>1. /\ Len(st) \in Nat \ {0} /\ Last(st) = st[Len(st)]
      /\ \A i \in 1..(Len(st) - 1) : Front(st)[i] = st[i]
  BY LastFacts
<1>2. \A i \in 0..(Len(st) - 1) : \A j \in 1..i : Front(st)[j] = st[j]
  BY <1>1
<1>3. \A i \in 0..(Len(st) - 1) : Running(Front(st), i) = Running(st, i)
  BY <1>2 DEF Running
<1>4. 1..Len(st) = (1..(Len(st) - 1)) \cup {Len(st)}
  BY <1>1
<1>5. Running(st, Len(st)) = Running(st, Len(st) - 1) \cup {Last(st).message}
  BY <1>1, <1>4 DEF Running
<1> QED BY <1>3, <1>5

(* A target is pushed. *)
LEMMA PushContracts ==
    ASSUME TypeOK, ContractsInv, NEW f \in Frames, stack' = Append(stack, f),
           f.message \notin Running(stack, Len(stack)), Settled \subseteq Settled',
           Consistent(f.saved, Running(stack, Len(stack)) \cup {f.message}, Settled'),
           Consistent(Current', Running(stack, Len(stack)) \cup {f.message}, Settled')
    PROVE  ContractsInv'
<1> DEFINE n == Len(stack)
<1>1. stack \in Seq(Frames) /\ n \in Nat
  BY DEF TypeOK, ContractsTyped
<1>2. /\ Len(stack') = n + 1 /\ stack'[n + 1] = f
      /\ \A i \in 1..n : stack'[i] = stack[i]
  BY <1>1
<1>3. /\ \A i \in 0..n : Running(stack', i) = Running(stack, i)
      /\ Running(stack', n + 1) = Running(stack, n) \cup {f.message}
  BY <1>1, RunningAppend
<1>4. \A i \in 1..n : Consistent(stack[i].saved, Running(stack, i), Settled')
  BY ConsistentMonotonic DEF ContractsInv
<1>5. \A i \in 1..n : stack[i].message # f.message
  BY DEF Running
<1> HIDE DEF n
<1>6. \A i \in 1..(n + 1) : i \in 1..n \/ i = n + 1
  BY <1>1
<1>7. Consistent(Current', Running(stack', Len(stack')), Settled')
  BY <1>2, <1>3 DEF n
<1>8. \A i \in 1..Len(stack') : Consistent(stack'[i].saved, Running(stack', i), Settled')
  <2> SUFFICES ASSUME NEW i \in 1..(n + 1)
               PROVE  Consistent(stack'[i].saved, Running(stack', i), Settled')
    BY <1>2
  <2>1. CASE i \in 1..n
    <3>1. i \in 0..n
      BY <1>1, <2>1
    <3>2. Running(stack', i) = Running(stack, i) /\ stack'[i] = stack[i]
      BY <1>2, <1>3, <2>1, <3>1
    <3> QED BY <1>4, <2>1, <3>2 DEF n
  <2>2. CASE i = n + 1
    BY <1>2, <1>3, <2>2 DEF n
  <2> QED BY <1>6, <2>1, <2>2
<1>9. \A i, j \in 1..Len(stack') : i # j => stack'[i].message # stack'[j].message
  BY <1>2, <1>5, <1>6 DEF ContractsInv, n
<1> QED BY <1>7, <1>8, <1>9 DEF ContractsInv

(* A target is popped. *)
LEMMA PopContracts ==
    ASSUME TypeOK, ContractsInv, ~Idle, stack' = Front(stack), UNCHANGED <<l2, lastCall>>,
           Consistent(Current', Running(stack, Len(stack) - 1), Settled)
    PROVE  ContractsInv'
<1> DEFINE n == Len(stack)
<1>1. stack \in Seq(Frames) /\ stack # <<>>
  BY DEF TypeOK, ContractsTyped, Idle
<1>2. /\ n \in Nat \ {0} /\ Len(stack') = n - 1
      /\ \A i \in 1..(n - 1) : stack'[i] = stack[i]
  BY <1>1, LastFacts
<1>3. \A i \in 0..(n - 1) : Running(stack', i) = Running(stack, i)
  BY <1>1, RunningFront
<1>4. Settled' = Settled
  BY DEF Settled
<1>5. \A i \in 1..(n - 1) : i \in 1..n /\ i \in 0..(n - 1)
  BY <1>2
<1>6. n - 1 \in 0..(n - 1)
  BY <1>2
<1>7. Consistent(Current', Running(stack', Len(stack')), Settled')
  BY <1>2, <1>3, <1>4, <1>6
<1>8. \A i \in 1..Len(stack') : Consistent(stack'[i].saved, Running(stack', i), Settled')
  BY <1>2, <1>3, <1>4, <1>5 DEF ContractsInv
<1>9. \A i, j \in 1..Len(stack') : i # j => stack'[i].message # stack'[j].message
  BY <1>2, <1>5 DEF ContractsInv
<1> QED BY <1>7, <1>8, <1>9 DEF ContractsInv

(* An output that is older than the finalization period is right, so that  *)
(* what is proven from it was sent.                                        *)
LEMMA FinalizableSent ==
    ASSUME IInv, NEW m \in Messages, Finalizable(m)
    PROVE  \E n \in 1..Len(l2) : m \in l2[n].sent /\ l2[n].l1 < now
<1> DEFINE e == proven[m]
           o == outputs[e.index]
<1>1. e # None /\ e.index \in DOMAIN outputs /\ o.root = e.root
      /\ now > o.timestamp + FinalizationPeriod
  BY DEF Finalizable, FinalizationPeriodElapsed
<1>2. m \in e.root.sent
  BY <1>1 DEF IInv, ContractsInv, Consistent, Proven, Current
<1>3. e.index \in 1..Len(outputs)
  BY <1>1, LenProperties DEF IInv, TypeOK, ProposerTyped
<1>4. o \in Output /\ OutputInv(o)
  BY <1>3, OutputType DEF IInv, OutputsInv
<1> HIDE DEF e, o
<1>5. o.timestamp \in Nat /\ o.root.number \in Nat \ {0} /\ now \in Nat
  BY <1>4 DEF Output, Roots, IInv, TypeOK, ChainsTyped
<1>6. ~(now - o.timestamp < WrongUntil)
  BY <1>1, <1>5, WrongUntilFacts, Numbers DEF IInv
<1>7. ~Wrong(o.root)
  BY <1>4, <1>6, DerivedIsRight DEF OutputInv
<1>8. o.root.number \in 1..Len(l2) /\ o.root = Root(o.root.number)
  BY <1>5, <1>7, LenProperties DEF Wrong, IInv, TypeOK, ChainsTyped
<1>9. o.root.sent = l2[o.root.number].sent
  BY <1>8 DEF Root
<1>10. l2[o.root.number].l1 < now
  BY <1>8 DEF IInv, L2Ordered
<1> QED BY <1>1, <1>2, <1>8, <1>9, <1>10

LEMMA FinalizableSettled ==
    ASSUME IInv, NEW m \in Messages, Finalizable(m), UNCHANGED l2, lastCall' = now
    PROVE  m \in Settled'
<1>1. PICK n \in 1..Len(l2) : m \in l2[n].sent /\ l2[n].l1 < now
  BY FinalizableSent
<1>2. l2[n].l1 \in Nat /\ now \in Nat
  BY BlockType DEF IInv, TypeOK, ChainsTyped
<1>3. l2[n].l1 <= now
  BY <1>1, <1>2
<1> QED BY <1>1, <1>3 DEF Settled

(* The contracts' steps leave the L2 chain alone. *)
LEMMA CallSettled ==
    ASSUME TypeOK, TypeOK', UNCHANGED l2, lastCall' = now \/ UNCHANGED lastCall
    PROVE  Settled \subseteq Settled' /\ lastCall <= lastCall'
<1>1. lastCall <= lastCall'
  BY DEF TypeOK, ChainsTyped
<1>2. KeepsL2(lastCall)
  BY DEF KeepsL2
<1> QED BY <1>1, <1>2, SettledKept

(* A message is proven from a root that has it. *)
LEMMA ProveContracts ==
    ASSUME IInv, TypeOK', NEW m \in Messages, NEW i \in DOMAIN outputs, ProveWithdrawal(m, i)
    PROVE  ContractsInv'
<1> DEFINE e == [root |-> outputs[i].root, timestamp |-> now, index |-> i]
           run == Running(stack, Len(stack))
<1>1. /\ m \in e.root.sent /\ proven' = [proven EXCEPT ![m] = e] /\ lastCall' = now
      /\ UNCHANGED <<l2, finalized, held, failed, successful, executed, stack>>
  BY DEF ProveWithdrawal, messenger
<1> HIDE DEF e
<1>2. Settled \subseteq Settled'
  BY <1>1, CallSettled DEF IInv
<1>3. proven \in [Messages -> ProvenEntries \cup {None}]
  BY DEF IInv, TypeOK, ContractsTyped, Current, Contracts
<1>4. Consistent(Current, run, Settled')
  BY <1>2, ConsistentMonotonic DEF IInv, ContractsInv
<1>5. \A x \in Messages : proven'[x] # None => x \in proven'[x].root.sent
  BY <1>1, <1>3, <1>4 DEF Consistent, Proven, Current
<1> HIDE DEF run
<1>6. Proven(Current', Settled')
  BY <1>1, <1>4, <1>5 DEF Consistent, Proven, Current
<1>7. NotLost(Current', run) /\ Once(Current', run)
  BY <1>1, <1>4 DEF Consistent, NotLost, Once, Current
<1>8. Consistent(Current', run, Settled')
  BY <1>6, <1>7 DEF Consistent
<1>9. \A j \in 1..Len(stack) : Consistent(stack[j].saved, Running(stack, j), Settled')
  BY <1>2, ConsistentMonotonic DEF IInv, ContractsInv
<1> QED BY <1>1, <1>8, <1>9 DEF IInv, ContractsInv, run

(* A relay of a message that the contracts have finalized.  Only one       *)
(* relayed target runs at a time.                                          *)
LEMMA RelayContracts ==
    ASSUME IInv, TypeOK', NEW m \in Messages \ Direct, NEW caller \in {"portal", "anyone"},
           NEW h \in Nat, NEW fin \in SUBSET Messages, RelayMessage(m, caller, fin, h),
           finalized \subseteq fin, fin \subseteq finalized \cup {m}, fin \subseteq Settled'
    PROVE  ContractsInv'
<1> DEFINE run == Running(stack, Len(stack))
           f == Frame(m, caller, h, fin)
<1>1. /\ m \notin successful /\ finalized' = fin /\ lastCall' = now
      /\ UNCHANGED <<l2, proven, successful, executed>>
  BY DEF RelayMessage, RelayReverts
<1>2. Settled \subseteq Settled'
  BY <1>1, CallSettled DEF IInv
<1>3. Consistent(Current, run, Settled')
  BY <1>2, ConsistentMonotonic DEF IInv, ContractsInv
<1>4. /\ Current.proven = proven /\ Current.finalized = finalized /\ Current.failed = failed
      /\ Current.successful = successful /\ Current.executed = executed
  BY DEF Current
<1>5. /\ Current'.proven = proven /\ Current'.finalized = fin /\ Current'.failed = failed'
      /\ Current'.successful = successful /\ Current'.executed = executed
  BY <1>1 DEF Current
<1>6. CASE failed' = failed \cup {m} /\ UNCHANGED stack
  <2>1. Consistent(Current', run, Settled')
    BY <1>3, <1>4, <1>5, <1>6, RelayKept
  <2>2. \A j \in 1..Len(stack) : Consistent(stack[j].saved, Running(stack, j), Settled')
    BY <1>2, ConsistentMonotonic DEF IInv, ContractsInv
  <2> QED BY <1>6, <2>1, <2>2 DEF IInv, ContractsInv
<1>7. CASE ~InRelay /\ stack' = Append(stack, f) /\ UNCHANGED failed
  <2>1. f \in Frames
    BY FrameType DEF IInv, TypeOK
  <2>2. /\ f.message = m /\ f.saved.proven = proven /\ f.saved.finalized = fin
        /\ f.saved.failed = failed /\ f.saved.successful = successful /\ f.saved.executed = executed
    BY DEF Frame
  <2>3. m \notin run
    BY <1>7, LenProperties DEF InRelay, Running, IInv, TypeOK, ContractsTyped
  <2> HIDE DEF f, run
  <2>4. Consistent(Current', run \cup {m}, Settled')
    BY <1>1, <1>3, <1>4, <1>5, <1>7, TargetStarts
  <2>5. Consistent(f.saved, run \cup {m}, Settled')
    BY <1>1, <1>3, <1>4, <2>2, TargetStarts
  <2> QED BY <1>2, <1>7, <2>1, <2>2, <2>3, <2>4, <2>5, PushContracts DEF IInv, run
<1> QED BY <1>6, <1>7 DEF RelayMessage

LEMMA FinalizeDirectContracts ==
    ASSUME IInv, TypeOK', NEW m \in Messages, FinalizeDirect(m)
    PROVE  ContractsInv'
<1> DEFINE run == Running(stack, Len(stack))
           fin == finalized \cup {m}
           f == Frame(m, "portal", held, fin)
<1>1. /\ m \in Direct /\ m \notin finalized /\ finalized' = fin /\ lastCall' = now
      /\ stack' = Append(stack, f)
      /\ UNCHANGED <<l2, proven, held, failed, successful, executed>>
  BY DEF FinalizeDirect, Finalizable, messenger
<1>2. Settled \subseteq Settled'
  BY <1>1, CallSettled DEF IInv
<1>3. m \in Settled'
  BY <1>1, FinalizableSettled DEF FinalizeDirect
<1>4. Consistent(Current, run, Settled')
  BY <1>2, ConsistentMonotonic DEF IInv, ContractsInv
<1>5. /\ Current.proven = proven /\ Current.finalized = finalized /\ Current.failed = failed
      /\ Current.successful = successful /\ Current.executed = executed
  BY DEF Current
<1>6. /\ Current'.proven = proven /\ Current'.finalized = fin /\ Current'.failed = failed
      /\ Current'.successful = successful /\ Current'.executed = executed
  BY <1>1 DEF Current
<1>7. finalized \subseteq Settled'
  BY <1>4, <1>5 DEF Consistent, Proven
<1>8. held \in Nat /\ fin \in SUBSET Messages
  BY DEF IInv, TypeOK, ContractsTyped, Current, Contracts
<1>9. f \in Frames
  BY <1>8, FrameType DEF IInv, TypeOK
<1>10. /\ f.message = m /\ f.saved.proven = proven /\ f.saved.finalized = fin
       /\ f.saved.failed = failed /\ f.saved.successful = successful /\ f.saved.executed = executed
  BY DEF Frame
<1> HIDE DEF f, run
<1>11. m \notin run
  BY <1>1, <1>4, <1>5 DEF Consistent, Once
<1>12. finalized \subseteq fin /\ fin \subseteq finalized \cup {m} /\ fin \subseteq Settled' /\ m \in fin
  BY <1>3, <1>7
<1> HIDE DEF fin
<1>13. Consistent(Current', run \cup {m}, Settled')
  BY <1>1, <1>4, <1>5, <1>6, <1>12, TargetStarts
<1>14. Consistent(f.saved, run \cup {m}, Settled')
  BY <1>1, <1>4, <1>5, <1>10, <1>12, TargetStarts
<1> QED BY <1>1, <1>2, <1>9, <1>10, <1>11, <1>13, <1>14, PushContracts DEF IInv, run

LEMMA ReturnContracts ==
    ASSUME IInv, TypeOK', TargetReturns \/ TargetFails
    PROVE  ContractsInv'
<1> DEFINE n == Len(stack)
           f == Last(stack)
           m == f.message
           run == Running(stack, n - 1)
<1>1. ~Idle /\ stack # <<>> /\ stack \in Seq(Frames) /\ stack' = Front(stack)
      /\ UNCHANGED <<l2, lastCall>>
  BY DEF TargetReturns, TargetFails, Idle, IInv, TypeOK, ContractsTyped, chains
<1>2. n \in Nat \ {0} /\ f = stack[n] /\ f \in Frames
  BY <1>1, LastFacts
<1>3. m \in Messages
  BY <1>2 DEF Frames
<1>4. Running(stack, n) = run \cup {m}
  BY <1>1, RunningFront
<1>5. m \notin run
  <2> SUFFICES ASSUME NEW j \in 1..(n - 1), stack[j].message = m
               PROVE  FALSE
    BY DEF Running
  <2>1. j \in 1..n /\ n \in 1..n /\ j # n
    BY <1>2
  <2> QED BY <1>2, <2>1 DEF IInv, ContractsInv
<1>6. Consistent(Current, run \cup {m}, Settled) /\ Consistent(f.saved, run \cup {m}, Settled)
  <2>1. n \in 1..n
    BY <1>2
  <2> QED BY <1>2, <1>4, <2>1 DEF IInv, ContractsInv
<1>7. /\ Current.proven = proven /\ Current.finalized = finalized /\ Current.failed = failed
      /\ Current.successful = successful /\ Current.executed = executed
  BY DEF Current
<1>8. /\ Current'.proven = proven' /\ Current'.finalized = finalized' /\ Current'.failed = failed'
      /\ Current'.successful = successful' /\ Current'.executed = executed'
  BY DEF Current
<1>9. CASE TargetReturns
  <2>1. /\ executed' = [executed EXCEPT ![m] = @ + 1] /\ successful' = successful \cup ({m} \ Direct)
        /\ UNCHANGED <<proven, finalized, failed>>
    BY <1>9 DEF TargetReturns, portal
  <2>2. executed \in [Messages -> Nat]
    BY DEF IInv, TypeOK, ContractsTyped, Current, Contracts
  <2> HIDE DEF run, m
  <2>3. Consistent(Current', run, Settled)
    BY <1>3, <1>5, <1>6, <1>7, <1>8, <2>1, <2>2, TargetDone
  <2> QED BY <1>1, <2>3, PopContracts DEF IInv, run
<1>10. CASE TargetFails
  <2>1. /\ proven' = f.saved.proven /\ finalized' = f.saved.finalized
        /\ failed' = f.saved.failed \cup ({m} \ Direct)
        /\ successful' = f.saved.successful /\ executed' = f.saved.executed
    BY <1>10 DEF TargetFails
  <2> HIDE DEF run, m, f
  <2>2. Consistent(Current', run, Settled)
    BY <1>3, <1>6, <1>8, <2>1, TargetUndone
  <2> QED BY <1>1, <2>2, PopContracts DEF IInv, run
<1> QED BY <1>9, <1>10

-----------------------------------------------------------------------------
(* What the messenger holds                                                *)

LEMMA SumOfNat ==
    ASSUME NEW S \in SUBSET Messages, IsFiniteSet(S)
    PROVE  SumOf(S) \in Nat
<1>1. \A m \in S : Value[m] \in Nat
  BY BridgeAssumption
<1> QED BY <1>1, SumNat DEF SumOf

LEMMA SumOfAdd ==
    ASSUME NEW S \in SUBSET Messages, IsFiniteSet(S), NEW m \in Messages \ S
    PROVE  SumOf(S \cup {m}) = Value[m] + SumOf(S)
<1>1. \A x \in S \cup {m} : Value[x] \in Nat
  BY BridgeAssumption
<1> QED BY <1>1, SumAdd DEF SumOf

LEMMA SolventKept ==
    ASSUME SolvencyInv, UNCHANGED <<finalized, messenger, stack>>
    PROVE  SolvencyInv'
<1>1. /\ Current'.failed = Current.failed /\ Current'.finalized = Current.finalized
      /\ Current'.successful = Current.successful /\ Current'.held = Current.held
  BY DEF Current, messenger
<1>2. stack' = stack
  OBVIOUS
<1>3. Solvent(Current', Running(stack, Len(stack)))
  BY <1>1 DEF SolvencyInv, Solvent
<1> QED BY <1>2, <1>3 DEF SolvencyInv

(* A target is pushed. *)
LEMMA PushSolvent ==
    ASSUME TypeOK, SolvencyInv, NEW f \in Frames, stack' = Append(stack, f),
           Solvent(Undone(f), Running(stack, Len(stack))),
           Solvent(Current', Running(stack, Len(stack)) \cup {f.message})
    PROVE  SolvencyInv'
<1> DEFINE n == Len(stack)
<1>1. stack \in Seq(Frames) /\ n \in Nat
  BY DEF TypeOK, ContractsTyped
<1>2. /\ Len(stack') = n + 1 /\ stack'[n + 1] = f
      /\ \A i \in 1..n : stack'[i] = stack[i]
  BY <1>1
<1>3. /\ \A i \in 0..n : Running(stack', i) = Running(stack, i)
      /\ Running(stack', n + 1) = Running(stack, n) \cup {f.message}
  BY <1>1, RunningAppend
<1> HIDE DEF n
<1>4. Solvent(Current', Running(stack', Len(stack')))
  BY <1>2, <1>3 DEF n
<1>5. ASSUME NEW i \in 1..(n + 1)
      PROVE  Solvent(Undone(stack'[i]), Running(stack', i - 1))
  <2>1. i - 1 \in 0..n
    BY <1>1
  <2>2. Running(stack', i - 1) = Running(stack, i - 1)
    BY <1>3, <2>1
  <2>3. CASE i \in 1..n
    BY <1>2, <2>2, <2>3 DEF SolvencyInv, n
  <2>4. CASE i = n + 1
    <3>1. stack'[i] = f /\ i - 1 = n
      BY <1>1, <1>2, <2>4
    <3>2. Running(stack', i - 1) = Running(stack, n)
      BY <2>2, <3>1
    <3> QED BY <3>1, <3>2 DEF n
  <2>5. i \in 1..n \/ i = n + 1
    BY <1>1
  <2> QED BY <2>3, <2>4, <2>5
<1> QED BY <1>2, <1>4, <1>5 DEF SolvencyInv

(* A relay: the portal brings the value of the message, which a replay     *)
(* takes from what the messenger holds.                                    *)
LEMMA RelaySolvent ==
    ASSUME IInv, SolvencyInv, NEW m \in Messages \ Direct, NEW caller, NEW h, NEW fin,
           \/ caller = "portal" /\ h = held + Value[m] /\ fin = finalized \cup {m} /\ m \notin finalized
           \/ caller = "anyone" /\ h = held /\ fin = finalized,
           RelayMessage(m, caller, fin, h)
    PROVE  SolvencyInv'
<1> DEFINE run == Running(stack, Len(stack))
           rest == (failed \ successful) \ (run \cup {m})
           all == ((failed \cup {m}) \ successful) \ run
           f == Frame(m, caller, h, fin)
<1>1. /\ held \in Nat /\ failed \in SUBSET Messages /\ finalized \in SUBSET Messages
      /\ Value[m] \in Nat
  BY BridgeAssumption DEF IInv, TypeOK, ContractsTyped, Current, Contracts
<1>2. /\ IsFiniteSet(failed) /\ failed \subseteq finalized /\ run \subseteq finalized
      /\ successful \subseteq finalized
      /\ held = SumOf((failed \ successful) \ run)
  BY DEF SolvencyInv, Solvent, Current
<1>3. m \notin successful /\ successful' = successful /\ finalized' = fin
      /\ (caller = "portal" => m \notin failed) /\ (caller = "anyone" => m \in failed)
  BY DEF RelayMessage, RelayReverts
<1>4. IsFiniteSet(rest) /\ rest \in SUBSET Messages /\ m \notin rest
  BY <1>1, <1>2, FS_Subset
<1>5. SumOf(rest) \in Nat /\ SumOf(rest \cup {m}) = Value[m] + SumOf(rest)
  BY <1>4, SumOfNat, SumOfAdd
<1>6. m \notin run => all = rest \cup {m}
  BY <1>3
<1>7. m \notin run => h = SumOf(all)
  <2> SUFFICES ASSUME m \notin run PROVE h = SumOf(all)
    OBVIOUS
  <2>1. CASE caller = "portal"
    <3>1. (failed \ successful) \ run = rest
      BY <1>3, <2>1
    <3>2. h = held + Value[m]
      BY <2>1
    <3>3. held = SumOf(rest)
      BY <1>2, <3>1
    <3>4. SumOf(all) = Value[m] + SumOf(rest)
      BY <1>5, <1>6
    <3> HIDE DEF rest, all
    <3> QED BY <1>1, <3>2, <3>3, <3>4
  <2>2. CASE caller = "anyone"
    <3>1. (failed \ successful) \ run = all
      BY <1>3, <2>2
    <3>2. h = held
      BY <2>2
    <3> QED BY <1>2, <3>1, <3>2
  <2> QED BY <2>1, <2>2
<1>8. /\ IsFiniteSet(failed \cup {m}) /\ failed \cup {m} \subseteq fin /\ run \subseteq fin
      /\ successful \subseteq fin
  BY <1>2, <1>3, FS_AddElement
<1>9. /\ Current'.failed = failed' /\ Current'.finalized = fin
      /\ Current'.successful = successful /\ Current'.held = held'
  BY <1>3 DEF Current
<1> HIDE DEF rest, all, f, run
<1>10. CASE failed' = failed \cup {m} /\ held' = h /\ UNCHANGED stack
  <2>1. held' = SumOf((failed' \ successful) \ run)
    <3>1. CASE m \notin run
      BY <1>7, <1>10, <3>1 DEF all
    <3>2. CASE m \in run
      <4>1. h = held /\ failed' = failed
        BY <1>2, <1>3, <1>10, <3>2
      <4> QED BY <1>2, <1>10, <4>1
    <3> QED BY <3>1, <3>2
  <2>2. Solvent(Current', run)
    BY <1>8, <1>9, <1>10, <2>1 DEF Solvent
  <2> QED BY <1>10, <2>2 DEF SolvencyInv, run
<1>11. CASE /\ ~InRelay /\ held' = h - Value[m] /\ UNCHANGED failed
            /\ stack' = Append(stack, f)
  <2>1. m \notin run
    BY <1>11, LenProperties DEF InRelay, Running, IInv, TypeOK, ContractsTyped, run
  <2>2. h = SumOf(all) /\ all = rest \cup {m}
    BY <1>6, <1>7, <2>1
  <2>3. held' = SumOf(rest)
    BY <1>1, <1>5, <1>11, <2>2
  <2>4. Solvent(Current', run \cup {m})
    BY <1>2, <1>8, <1>9, <1>11, <2>3 DEF Solvent, rest
  <2>5. f \in Frames
    <3>1. h \in Nat /\ fin \in SUBSET Messages /\ caller \in {"portal", "anyone"}
      BY <1>1
    <3> QED BY <3>1, FrameType DEF IInv, TypeOK, f
  <2>6. f.message = m
    BY DEF f, Frame
  <2>7. /\ Undone(f).failed = failed \cup {m} /\ Undone(f).successful = successful
        /\ Undone(f).held = h /\ Undone(f).finalized = fin
    BY DEF Undone, f, Frame
  <2>8. Solvent(Undone(f), run)
    BY <1>8, <2>2, <2>7 DEF Solvent, all
  <2> QED BY <1>11, <2>4, <2>5, <2>6, <2>8, PushSolvent DEF IInv, run
<1> QED BY <1>10, <1>11 DEF RelayMessage, f

(* A direct message: the messenger is not involved. *)
LEMMA FinalizeDirectSolvent ==
    ASSUME IInv, SolvencyInv, NEW m \in Messages, FinalizeDirect(m)
    PROVE  SolvencyInv'
<1> DEFINE run == Running(stack, Len(stack))
           fin == finalized \cup {m}
           f == Frame(m, "portal", held, fin)
<1>1. /\ m \in Direct /\ finalized' = fin /\ stack' = Append(stack, f)
      /\ UNCHANGED <<held, failed, successful, executed>>
  BY DEF FinalizeDirect, messenger
<1>2. /\ held \in Nat /\ fin \in SUBSET Messages
  BY DEF IInv, TypeOK, ContractsTyped, Current, Contracts
<1>3. /\ IsFiniteSet(failed) /\ failed \cup successful \cup run \subseteq finalized
      /\ held = SumOf((failed \ successful) \ run)
  BY DEF SolvencyInv, Solvent, Current
<1>4. m \notin failed
  BY <1>1 DEF IInv, ContractsInv, Consistent, NotLost, Current
<1>5. /\ Current'.failed = failed /\ Current'.finalized = fin
      /\ Current'.successful = successful /\ Current'.held = held
  BY <1>1 DEF Current
<1>6. (failed \ successful) \ (run \cup {m}) = (failed \ successful) \ run
  BY <1>4
<1>7. failed \cup successful \cup run \cup {m} \subseteq fin
  BY <1>3
<1>8. f \in Frames /\ f.message = m
  BY <1>2, FrameType DEF IInv, TypeOK, Frame
<1>9. /\ Undone(f).failed = failed \cup ({m} \ Direct) /\ Undone(f).successful = successful
      /\ Undone(f).held = held /\ Undone(f).finalized = fin
  BY DEF Undone, Frame
<1>10. failed \cup ({m} \ Direct) = failed
  BY <1>1
<1> HIDE DEF run, f, fin
<1>11. Solvent(Current', run \cup {m})
  BY <1>3, <1>5, <1>6, <1>7 DEF Solvent
<1>12. Solvent(Undone(f), run)
  BY <1>3, <1>7, <1>9, <1>10 DEF Solvent
<1> QED BY <1>1, <1>8, <1>11, <1>12, PushSolvent DEF IInv, run

(* The innermost target ends. *)
LEMMA ReturnSolvent ==
    ASSUME IInv, SolvencyInv, TargetReturns \/ TargetFails
    PROVE  SolvencyInv'
<1> DEFINE n == Len(stack)
           f == Last(stack)
           m == f.message
           run == Running(stack, n - 1)
<1>1. stack # <<>> /\ stack \in Seq(Frames) /\ stack' = Front(stack)
  BY DEF TargetReturns, TargetFails, Idle, IInv, TypeOK, ContractsTyped
<1>2. /\ n \in Nat \ {0} /\ Len(stack') = n - 1 /\ f = stack[n] /\ f \in Frames
      /\ \A i \in 1..(n - 1) : stack'[i] = stack[i]
  BY <1>1, LastFacts
<1>3. /\ \A i \in 0..(n - 1) : Running(stack', i) = Running(stack, i)
      /\ Running(stack, n) = run \cup {m}
  BY <1>1, RunningFront
<1>4. ASSUME Solvent(Current', run) PROVE SolvencyInv'
  <2>1. Running(stack', Len(stack')) = run
    BY <1>2, <1>3
  <2>2. ASSUME NEW i \in 1..(n - 1) PROVE Solvent(Undone(stack'[i]), Running(stack', i - 1))
    <3>1. i - 1 \in 0..(n - 1) /\ i \in 1..n
      BY <1>2
    <3>2. Running(stack', i - 1) = Running(stack, i - 1) /\ stack'[i] = stack[i]
      BY <1>2, <1>3, <3>1
    <3> QED BY <3>1, <3>2 DEF SolvencyInv
  <2> QED BY <1>2, <1>4, <2>1, <2>2 DEF SolvencyInv
<1>5. /\ Current'.failed = failed' /\ Current'.finalized = finalized'
      /\ Current'.successful = successful' /\ Current'.held = held'
  BY DEF Current
<1> HIDE DEF run
<1>6. CASE TargetReturns
  <2>1. successful' = successful \cup ({m} \ Direct) /\ UNCHANGED <<finalized, held, failed>>
    BY <1>6 DEF TargetReturns, portal
  <2>2. /\ IsFiniteSet(failed) /\ failed \cup successful \cup (run \cup {m}) \subseteq finalized
        /\ held = SumOf((failed \ successful) \ (run \cup {m}))
    BY <1>3 DEF SolvencyInv, Solvent, Current
  <2>3. failed \cap Direct = {}
    BY DEF IInv, ContractsInv, Consistent, NotLost, Current
  <2> HIDE DEF m
  <2>4. (failed \ successful') \ run = (failed \ successful) \ (run \cup {m})
    <3>1. CASE m \in Direct
      BY <2>1, <2>3, <3>1
    <3>2. CASE m \notin Direct
      BY <2>1, <3>2
    <3> QED BY <3>1, <3>2
  <2>5. Solvent(Current', run)
    BY <1>5, <2>1, <2>2, <2>4 DEF Solvent
  <2> QED BY <1>4, <2>5
<1>7. CASE TargetFails
  <2>1. n \in 1..n
    BY <1>2
  <2>2. Solvent(Undone(f), run)
    BY <1>2, <2>1 DEF SolvencyInv, run
  <2>3. /\ held' = f.saved.held /\ finalized' = f.saved.finalized
        /\ failed' = f.saved.failed \cup ({m} \ Direct) /\ successful' = f.saved.successful
    BY <1>7 DEF TargetFails
  <2>4. f.saved \in Contracts
    BY <1>2 DEF Frames
  <2> HIDE DEF f
  <2>5. /\ Undone(f).failed = failed' /\ Undone(f).finalized = finalized'
        /\ Undone(f).successful = successful' /\ Undone(f).held = held'
    BY <2>3, <2>4 DEF Undone, Contracts
  <2>6. Solvent(Current', run)
    BY <1>5, <2>2, <2>5 DEF Solvent
  <2> QED BY <1>4, <2>6
<1> QED BY <1>6, <1>7

LEMMA InitSolvency == Init => SolvencyInv
<1> SUFFICES ASSUME Init PROVE SolvencyInv
  OBVIOUS
<1>1. Len(stack) = 0 /\ 1..0 = {}
  BY DEF Init
<1>2. Running(stack, Len(stack)) = {}
  BY <1>1 DEF Running
<1>3. Current.failed = {} /\ Current.successful = {} /\ Current.held = 0
  BY DEF Init, Current
<1>4. ({} \ {}) \ {} = {} /\ IsFiniteSet({}) /\ SumOf({}) = 0
  BY FS_EmptySet, SumEmpty DEF SumOf
<1>5. Solvent(Current, {})
  BY <1>3, <1>4 DEF Solvent
<1> QED BY <1>1, <1>2, <1>5 DEF SolvencyInv

LEMMA StepSolvency == IInv /\ SolvencyInv /\ [Next]_vars => SolvencyInv'
<1> SUFFICES ASSUME IInv, SolvencyInv, [Next]_vars PROVE SolvencyInv'
  OBVIOUS
<1>1. CASE UNCHANGED <<finalized, messenger, stack>>
  BY <1>1, SolventKept
<1>2. ASSUME NEW m \in Messages, FinalizeByMessenger(m) PROVE SolvencyInv'
  <2>1. /\ m \in Messages \ Direct /\ m \notin finalized
        /\ RelayMessage(m, "portal", finalized \cup {m}, held + Value[m])
    BY <1>2 DEF FinalizeByMessenger, Finalizable
  <2> QED BY <2>1, RelaySolvent
<1>3. ASSUME NEW m \in Messages, FinalizeDirect(m) PROVE SolvencyInv'
  BY <1>3, FinalizeDirectSolvent
<1>4. ASSUME NEW m \in Messages, Replay(m) PROVE SolvencyInv'
  <2>1. RelayMessage(m, "anyone", finalized, held) /\ m \in failed
    BY <1>4 DEF Replay, RelayMessage, RelayReverts
  <2>2. failed \cap Direct = {}
    BY DEF IInv, ContractsInv, Consistent, NotLost, Current
  <2>3. m \in Messages \ Direct
    BY <2>1, <2>2
  <2> QED BY <2>1, <2>3, RelaySolvent
<1>5. CASE TargetReturns \/ TargetFails
  BY <1>5, ReturnSolvent
<1>6. ASSUME \/ NewL1Block \/ (\E ms \in Batches : InitiateWithdrawals(ms))
             \/ \E t \in 0..MaxTime : Reorg(t)
             \/ ReadNextBlock \/ FetchOutput \/ NothingToPropose
             \/ \E p \in pending : IncludeProposal(p)
             \/ ProposeWrong
             \/ \E i \in DOMAIN outputs : DeleteL2Outputs(i)
             \/ SetPaused
             \/ \E m \in Messages, i \in DOMAIN outputs : ProveWithdrawal(m, i)
             \/ UNCHANGED vars
      PROVE  UNCHANGED <<finalized, messenger, stack>>
  BY <1>6 DEF NewL1Block, InitiateWithdrawals, Reorg, ReadNextBlock, FetchOutput, NothingToPropose,
              IncludeProposal, ProposeWrong, DeleteL2Outputs, SetPaused, ProveWithdrawal,
              portal, vars
<1> QED BY <1>1, <1>2, <1>3, <1>4, <1>5, <1>6 DEF Next

-----------------------------------------------------------------------------
(* The theorems                                                            *)

LEMMA InitInv == Init => IInv
<1> SUFFICES ASSUME Init PROVE IInv
  OBVIOUS
<1>1. ChainsTyped /\ ProposerTyped
  BY Numbers DEF Init, ChainsTyped, ProposerTyped
<1>2. ContractsTyped
  <2>1. proven \in [Messages -> ProvenEntries \cup {None}] /\ executed \in [Messages -> Nat]
    BY DEF Init
  <2>2. finalized \in SUBSET Messages /\ held \in Nat /\ failed \in SUBSET Messages
        /\ successful \in SUBSET Messages
    BY DEF Init
  <2>3. Current \in Contracts
    BY <2>1, <2>2 DEF Current, Contracts
  <2>4. stack \in Seq(Frames)
    BY EmptySeq DEF Init
  <2>5. paused \in BOOLEAN
    BY Zenon DEF Init
  <2> QED BY <2>3, <2>4, <2>5 DEF ContractsTyped
<1>3. L2Ordered /\ PendingInv /\ OutputsInv
  BY DEF Init, L2Ordered, PendingInv, OutputsInv
<1>4. Len(stack) = 0 /\ 1..0 = {}
  BY DEF Init
<1>5. Running(stack, Len(stack)) = {}
  BY <1>4 DEF Running
<1>6. /\ Current.proven = [m \in Messages |-> None] /\ Current.finalized = {}
      /\ Current.failed = {} /\ Current.successful = {}
      /\ Current.executed = [m \in Messages |-> 0]
  BY DEF Init, Current
<1>7. Consistent(Current, {}, Settled)
  BY <1>6 DEF Consistent, Proven, NotLost, Once
<1>8. ContractsInv
  BY <1>4, <1>5, <1>7 DEF ContractsInv
<1> QED BY <1>1, <1>2, <1>3, <1>8 DEF IInv, TypeOK

LEMMA StepInv == IInv /\ [Next]_vars => IInv'
<1> SUFFICES ASSUME IInv, [Next]_vars PROVE IInv'
  OBVIOUS
<1>0. TypeOK /\ OracleInv /\ ContractsInv /\ lastCall \in Nat /\ now \in Nat /\ lastCall <= now
  BY DEF IInv, OracleInv, TypeOK, ChainsTyped
<1>1. ASSUME TypeOK', OracleInv', ContractsInv' PROVE IInv'
  BY <1>1 DEF IInv, OracleInv
<1>2. CASE NewL1Block \/ (\E ms \in Batches : InitiateWithdrawals(ms)) \/ \E t \in 0..MaxTime : Reorg(t)
  <2>1. TypeOK'
    BY <1>0, <1>2, ChainStepTyped
  <2>2. OracleInv'
    BY <1>0, <1>2, <2>1, NewL1BlockOracle, InitiateOracle, ReorgOracle
  <2>3. UNCHANGED <<portal, messenger, stack>> /\ lastCall' = lastCall
    BY <1>2 DEF NewL1Block, InitiateWithdrawals, Reorg
  <2>4. KeepsL2(lastCall)
    <3>1. CASE NewL1Block
      BY <3>1 DEF NewL1Block, KeepsL2
    <3>2. ASSUME NEW ms \in Batches, InitiateWithdrawals(ms) PROVE KeepsL2(lastCall)
      <4>1. PICK b : l2' = Append(l2, b)
        BY <3>2 DEF InitiateWithdrawals
      <4>2. l2 \in Seq([sent : SUBSET Messages, l1 : Nat]) /\ Len(l2) \in Nat
        BY <1>0 DEF TypeOK, ChainsTyped
      <4>3. Len(l2') = Len(l2) + 1 /\ \A i \in 1..Len(l2) : l2'[i] = l2[i]
        BY <4>1, <4>2
      <4> QED BY <4>2, <4>3 DEF KeepsL2
    <3>3. ASSUME NEW t \in 0..MaxTime, Reorg(t) PROVE KeepsL2(lastCall)
      <4>1. PICK n \in 0..Len(l2) : /\ \A i \in 1..Len(l2) : l2[i].l1 <= t <=> i <= n
                                    /\ l2' = SubSeq(l2, 1, n)
        BY <3>3 DEF Reorg
      <4>2. Len(l2') = n /\ \A i \in 1..n : l2'[i] = l2[i]
        BY <1>0, <4>1, PrefixFacts DEF TypeOK, ChainsTyped
      <4>3. lastCall <= t /\ t \in Nat /\ n \in Nat /\ Len(l2) \in Nat
        BY <1>0, <3>3, LenProperties, BridgeAssumption DEF Reorg, TypeOK, ChainsTyped
      <4>4. ASSUME NEW i \in 1..Len(l2), l2[i].l1 <= lastCall
            PROVE  i \in 1..Len(l2') /\ l2'[i] = l2[i]
        <5>1. l2[i].l1 <= t
          BY <1>0, <4>3, <4>4, BlockType
        <5>2. i \in 1..n
          BY <4>1, <4>3, <5>1
        <5> QED BY <4>2, <5>2
      <4> QED BY <4>4 DEF KeepsL2
    <3> QED BY <1>2, <3>1, <3>2, <3>3
  <2>5. ContractsInv'
    <3>1. lastCall <= lastCall'
      BY <1>0, <2>3
    <3> QED BY <1>0, <2>1, <2>3, <2>4, <3>1, ContractsKept
  <2> QED BY <1>1, <2>1, <2>2, <2>5
<1>3. CASE \/ ReadNextBlock \/ FetchOutput \/ NothingToPropose
           \/ \E p \in pending : IncludeProposal(p)
           \/ ProposeWrong
           \/ \E i \in DOMAIN outputs : DeleteL2Outputs(i)
           \/ SetPaused
  <2>1. TypeOK'
    BY <1>0, <1>3, OracleStepTyped
  <2>2. OracleInv'
    BY <1>0, <1>3, <2>1, OracleStepOracle
  <2>3. UNCHANGED <<portal, messenger, stack, l2>> /\ lastCall' \in {lastCall, now}
    BY <1>3 DEF ReadNextBlock, FetchOutput, NothingToPropose, IncludeProposal, ProposeWrong,
                Record, DeleteL2Outputs, SetPaused, chains
  <2>4. lastCall <= lastCall' /\ KeepsL2(lastCall)
    BY <1>0, <2>3 DEF KeepsL2
  <2>5. ContractsInv'
    BY <1>0, <2>1, <2>3, <2>4, ContractsKept
  <2> QED BY <1>1, <2>1, <2>2, <2>5
<1>4. CASE \/ \E m \in Messages : \/ \E i \in DOMAIN outputs : ProveWithdrawal(m, i)
                                  \/ FinalizeByMessenger(m)
                                  \/ FinalizeDirect(m)
                                  \/ Replay(m)
           \/ TargetReturns \/ TargetFails
  <2>1. TypeOK'
    BY <1>0, <1>4, ContractStepTyped
  <2>2. UNCHANGED <<now, reorgs, l2, proposer, outputs>> /\ lastCall' \in {lastCall, now}
    BY <1>4 DEF ProveWithdrawal, FinalizeByMessenger, FinalizeDirect, Replay, RelayMessage,
                TargetReturns, TargetFails, chains
  <2>3. OracleInv'
    <3>1. lastCall <= lastCall'
      BY <1>0, <2>2
    <3> QED BY <1>0, <2>1, <2>2, <3>1, CallOracle
  <2>4. /\ held \in Nat /\ finalized \in SUBSET Messages
        /\ finalized \subseteq Settled /\ failed \cap Direct = {}
    BY <1>0 DEF TypeOK, ContractsTyped, Current, Contracts, ContractsInv, Consistent, Proven, NotLost
  <2>5. ContractsInv'
    <3>0. Settled \subseteq Settled'
      BY <1>0, <2>1, <2>2, CallSettled
    <3>1. ASSUME NEW m \in Messages, NEW i \in DOMAIN outputs, ProveWithdrawal(m, i)
          PROVE  ContractsInv'
      BY <2>1, <3>1, ProveContracts
    <3>2. ASSUME NEW m \in Messages, FinalizeByMessenger(m)
          PROVE  ContractsInv'
      <4>1. /\ Finalizable(m) /\ m \in Messages \ Direct
            /\ RelayMessage(m, "portal", finalized \cup {m}, held + Value[m])
        BY <3>2 DEF FinalizeByMessenger
      <4>2. UNCHANGED l2 /\ lastCall' = now
        BY <4>1 DEF RelayMessage
      <4>3. m \in Settled'
        BY <4>1, <4>2, FinalizableSettled
      <4>4. held + Value[m] \in Nat
        BY <2>4, BridgeAssumption
      <4> DEFINE fin == finalized \cup {m}
      <4>5. fin \in SUBSET Messages /\ finalized \subseteq fin /\ fin \subseteq finalized \cup {m}
            /\ fin \subseteq Settled'
        BY <2>4, <3>0, <4>3
      <4> QED BY <2>1, <4>1, <4>4, <4>5, RelayContracts
    <3>3. ASSUME NEW m \in Messages, FinalizeDirect(m)
          PROVE  ContractsInv'
      BY <2>1, <3>3, FinalizeDirectContracts
    <3>4. ASSUME NEW m \in Messages, Replay(m)
          PROVE  ContractsInv'
      <4>1. RelayMessage(m, "anyone", finalized, held) /\ m \in failed
        BY <3>4 DEF Replay, RelayMessage, RelayReverts
      <4>2. m \in Messages \ Direct
        BY <2>4, <4>1
      <4>3. finalized \subseteq finalized \cup {m} /\ finalized \subseteq Settled'
        BY <2>4, <3>0
      <4> QED BY <2>1, <2>4, <4>1, <4>2, <4>3, RelayContracts
    <3>5. CASE TargetReturns \/ TargetFails
      BY <2>1, <3>5, ReturnContracts
    <3> QED BY <1>4, <3>1, <3>2, <3>3, <3>4, <3>5
  <2> QED BY <1>1, <2>1, <2>3, <2>5
<1>5. CASE UNCHANGED vars
  <2>1. /\ UNCHANGED <<now, lastCall, reorgs, l2, next, pending, faults, outputs, paused>>
        /\ UNCHANGED <<proven, finalized, held, failed, successful, executed, stack>>
    BY <1>5 DEF vars, chains, proposer, portal, messenger
  <2>2. TypeOK'
    BY <1>0, <2>1 DEF TypeOK, ChainsTyped, ProposerTyped, ContractsTyped, Current
  <2>3. lastCall <= lastCall' /\ KeepsL2(lastCall)
    BY <1>0, <2>1 DEF KeepsL2
  <2>4. OracleInv'
    BY <1>0, <2>1, <2>2, <2>3, CallOracle DEF proposer
  <2>5. ContractsInv'
    BY <1>0, <2>1, <2>2, <2>3, ContractsKept DEF portal, messenger
  <2> QED BY <1>1, <2>2, <2>4, <2>5
<1> QED BY <1>2, <1>3, <1>4, <1>5 DEF Next

LEMMA Invariance == Spec => []IInv
BY InitInv, StepInv, PTL DEF Spec

(* The target of a message runs to its end at most once: relayMessage      *)
(* refuses a message that succeeded, the portal one that it finalized, and *)
(* no target can start another relay while it runs.                        *)
THEOREM NoDoubleExecution == Spec => []ExecutedOnce
<1>1. IInv => ExecutedOnce
  <2> SUFFICES ASSUME IInv, NEW m \in Messages PROVE executed[m] <= 1
    BY DEF ExecutedOnce
  <2>1. executed[m] = 0 \/ executed[m] = 1
    BY DEF IInv, ContractsInv, Consistent, Once, Current
  <2> QED BY <2>1
<1> QED BY <1>1, Invariance, PTL

(* What the portal finalized by way of the messenger has succeeded or can  *)
(* be replayed, however targets call, fail and are undone.                 *)
THEOREM MessagesSurvive == Spec => []NoMessageLost
<1>1. IInv => NoMessageLost
  <2> SUFFICES ASSUME IInv, Idle PROVE finalized \ Direct \subseteq failed \cup successful
    BY DEF NoMessageLost
  <2>1. Running(stack, Len(stack)) = {}
    <3>1. Len(stack) = 0 /\ 1..0 = {}
      BY DEF Idle
    <3> QED BY <3>1 DEF Running
  <2> QED BY <2>1 DEF IInv, ContractsInv, Consistent, NotLost, Current
<1> QED BY <1>1, Invariance, PTL

LEMMA Solvency == Spec => []SolvencyInv
BY InitSolvency, StepSolvency, Invariance, PTL DEF Spec

(* Whatever targets fail, call again and are undone, the messenger holds   *)
(* the value of exactly the messages that failed and did not succeed: the  *)
(* value of a message that is relayed is with its target meanwhile, and    *)
(* comes back when that fails.                                             *)
THEOREM MessengerAlwaysSolvent == Spec => []MessengerSolvent
<1>1. SolvencyInv => MessengerSolvent
  <2> SUFFICES ASSUME SolvencyInv, Idle PROVE held = SumOf(failed \ successful)
    BY DEF MessengerSolvent
  <2>1. Running(stack, Len(stack)) = {}
    <3>1. Len(stack) = 0 /\ 1..0 = {}
      BY DEF Idle
    <3> QED BY <3>1 DEF Running
  <2>2. (failed \ successful) \ {} = failed \ successful
    OBVIOUS
  <2> QED BY <2>1, <2>2 DEF SolvencyInv, Solvent, Current
<1> QED BY <1>1, Solvency, PTL

(* When the portal finalizes a message, the messenger has neither relayed  *)
(* it nor kept it for a replay, whatever was undone before: its assertions *)
(* and requirements do not make the portal's call fail, which would lose   *)
(* the message, and FinalizeByMessenger needs no case for it.              *)
THEOREM FirstRelayAccepted ==
    Spec => [](\A m \in Messages \ Direct : Finalizable(m) => ~RelayReverts(m, "portal"))
<1> DEFINE Accepted == \A m \in Messages \ Direct : Finalizable(m) => ~RelayReverts(m, "portal")
<1>1. SolvencyInv => Accepted
  <2> SUFFICES ASSUME SolvencyInv, NEW m \in Messages \ Direct, Finalizable(m)
               PROVE  ~RelayReverts(m, "portal")
    OBVIOUS
  <2>1. failed \cup successful \subseteq finalized
    BY DEF SolvencyInv, Solvent, Current
  <2>2. m \notin finalized
    BY DEF Finalizable
  <2> QED BY <2>1, <2>2 DEF RelayReverts
<1> HIDE DEF Accepted
<1>2. Spec => []Accepted
  BY <1>1, Solvency, PTL
<1> QED BY <1>2 DEF Accepted

(* What the portal pays out was sent on L2, with a faulty proposer and     *)
(* reorganisations of L1, if the challenger keeps its margin.              *)
THEOREM OnlySentIsPaid == Spec => []FinalizedWasSent
<1>1. IInv => FinalizedWasSent
  <2> SUFFICES ASSUME IInv, NEW m \in finalized PROVE m \in SentBy(Len(l2))
    BY DEF FinalizedWasSent
  <2>1. m \in Settled
    BY DEF IInv, ContractsInv, Consistent, Proven, Current
  <2>2. PICK n \in 1..Len(l2) : m \in l2[n].sent
    BY <2>1 DEF Settled
  <2>3. Len(l2) \in Nat /\ Len(l2) \in 1..Len(l2) /\ n <= Len(l2) /\ Len(l2) # 0
    BY <2>2, LenProperties DEF IInv, TypeOK, ChainsTyped
  <2>4. l2[n].sent \subseteq l2[Len(l2)].sent
    BY <2>3 DEF IInv, L2Ordered
  <2> QED BY <2>2, <2>3, <2>4 DEF SentBy
<1> QED BY <1>1, Invariance, PTL

(* A correct proposer's outputs are those of the L2 chain: the oracle      *)
(* compares the L1 block hash that the proposer read the output at.        *)
THEOREM CorrectProposer == Spec => []ProposalsCorrect
<1>1. IInv => ProposalsCorrect
  <2> SUFFICES ASSUME IInv, faults = 0, NEW i \in DOMAIN outputs PROVE ~Wrong(outputs[i].root)
    BY DEF ProposalsCorrect
  <2>1. i \in 1..Len(outputs)
    BY LenProperties DEF IInv, TypeOK, ProposerTyped
  <2>2. OutputInv(outputs[i])
    BY <2>1 DEF IInv, OutputsInv
  <2>3. Derived(outputs[i].root, outputs[i].timestamp)
    BY <2>2 DEF OutputInv
  <2> QED BY <2>3, DerivedIsRight
<1> QED BY <1>1, Invariance, PTL
=============================================================================
