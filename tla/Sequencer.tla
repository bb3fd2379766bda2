----------------------------- MODULE Sequencer -----------------------------
(***************************************************************************)
(* The sequencer of bl-node (driver/sequencer.go) in the driver's event    *)
(* loop (driver/state.go), with the selection of L1 origins                *)
(* (driver/origin_selector.go) behind a confirmation depth                 *)
(* (driver/conf_depth.go, driver/l1_state.go).                             *)
(*                                                                         *)
(* The event loop decides before every event when the sequencer acts next, *)
(* and arms a timer; between events the clock runs, L1 grows and may       *)
(* switch once to another fork, derivation consolidates or replaces        *)
(* unsafe blocks, and the pipeline is reset.                               *)
(*                                                                         *)
(* The unsafe chain is the sequence of its blocks after genesis; a block   *)
(* is its L1 origin and whether it was built without the transaction pool. *)
(* Block i has the time i * BlockTime.  A head is identified with the      *)
(* chain up to it.  What the engine does with a job is in EngineQueue.     *)
(***************************************************************************)
EXTENDS Integers, Sequences, SequencesExt

CONSTANTS
    BlockTime, SealingDuration, MaxSequencerDrift,
    ConfDepth, MaxSafeLag,
    L1Times,             \* [0..1 -> [0..MaxL1 -> Nat]]: times of the blocks of either fork
    MaxL1, ForkPoint,    \* bound on L1 heights; first height of the other fork
    MaxL2, MaxTime,      \* bounds on the unsafe chain and on the clock
    MaxResets, MaxStops  \* bounds on resets without a cause and on stops

ASSUME SequencerAssumption ==
    /\ {BlockTime, MaxL1, MaxL2, MaxTime} \subseteq Nat \ {0}
    /\ {SealingDuration, MaxSequencerDrift, ConfDepth, MaxSafeLag, ForkPoint} \subseteq Nat
    /\ {MaxResets, MaxStops} \subseteq Nat
    /\ L1Times \in [0..1 -> [0..MaxL1 -> Nat]]
    /\ \A f \in 0..1, n \in 1..MaxL1 : L1Times[f][n - 1] < L1Times[f][n]
    /\ L1Times[0][0] = 0                \* L2 begins at the time of its L1 origin
    /\ MaxTime >= MaxL2 * BlockTime

VARIABLES
    now,
    l1Head, l1Fork,   \* height and fork of the L1 chain
    l1State,          \* height that L1State has as the L1 head, -1 at first
    l2,               \* the unsafe chain
    safe,             \* number of its blocks that are safe
    building,         \* the open job, or NoJob
    nextAction,       \* earliest time of the next action after an error
    timer,            \* when sequencerCh fires, -1 if it is nil
    stopped,          \* driverConfig.SequencerStopped
    ready,            \* EngineReady: no reset is pending
    resets, stops     \* how often they happened, for the bounds

vars == <<now, l1Head, l1Fork, l1State, l2, safe, building, nextAction, timer, stopped, ready,
          resets, stops>>

Never == -1
NoJob == [onto |-> <<>>, origin |-> [num |-> -1, fork |-> 0], empty |-> FALSE, seen |-> 0, safe |-> FALSE]
Building == building # NoJob

At(n, f) == [num |-> n, fork |-> IF n >= ForkPoint THEN f ELSE 0]
L1Time(b) == L1Times[b.fork][b.num]
Canonical(b) == b = At(b.num, l1Fork)

(* L1 block b is a or a child of a. *)
Follows(a, b) == b = a \/ (b.num = a.num + 1 /\ a = At(a.num, b.fork))

Origin(chain) == IF chain = <<>> THEN At(0, 0) ELSE Last(chain).origin
Time(chain) == Len(chain) * BlockTime
NextTime(chain) == Time(chain) + BlockTime

-----------------------------------------------------------------------------
(* Planning                                                                *)

(* Mutant of Delay: it counts to the time of the head, not of the block. *)
DelayFromHead(h, b, na) ==
    LET remaining == Time(h) - now
        onHead    == b # NoJob /\ b.onto = h
    IN  CASE b.safe -> BlockTime
          [] ~b.safe /\ onHead /\ na > now -> na - now
          [] ~b.safe /\ onHead /\ na <= now ->
                IF remaining < SealingDuration THEN 0 ELSE remaining - SealingDuration
          [] ~b.safe /\ ~onHead ->
                IF remaining > BlockTime THEN remaining - BlockTime ELSE 0

(* PlanNextSequencerAction: the delay until the next action with the job b *)
(* on the head h, after an error that asked to wait until na.              *)
Delay(h, b, na) ==
    LET remaining == NextTime(h) - now
        onHead    == b # NoJob /\ b.onto = h
    IN  CASE b.safe -> BlockTime
          [] ~b.safe /\ onHead /\ na > now -> na - now
          [] ~b.safe /\ onHead /\ na <= now ->
                IF remaining < SealingDuration THEN 0 ELSE remaining - SealingDuration
          [] ~b.safe /\ ~onHead ->
                IF remaining > BlockTime THEN remaining - BlockTime ELSE 0

Planned == now + Delay(l2', building', nextAction')

(* The top of the event loop, after an event that leaves the timer at t:   *)
(* no action while stopped, while a reset is pending, without an L1 head,  *)
(* or too far ahead of the safe head; a new plan unless the open job is on *)
(* the head.                                                               *)
Armed(t) ==
    IF stopped' \/ l1State' = Never \/ ~ready' THEN Never
    ELSE IF MaxSafeLag > 0 /\ safe' + MaxSafeLag <= Len(l2') THEN Never
    ELSE IF building' = NoJob \/ building'.onto # l2' THEN Planned
    ELSE t

(* Events after which the loop goes round with the timer it had. *)
Loop == timer' = Armed(timer)

-----------------------------------------------------------------------------
(* Origin selection                                                        *)

(* confDepth.L1BlockRefByNumber finds L1 block n. *)
Visible(n) ==
    /\ n <= l1Head
    /\ n = 0 \/ ConfDepth = 0 \/ n + ConfDepth <= l1State

(* Mutant of FindL1Origin: past the drift it repeats the current origin    *)
(* when there is no next one.                                              *)
FindL1OriginRepeats(chain) ==
    LET cur  == Origin(chain)
        next == At(cur.num + 1, l1Fork)
    IN  {cur} \cup {o \in {next} : Visible(next.num) /\ NextTime(chain) >= L1Time(next)}

(* The origins that FindL1Origin may return for a block on chain: the next *)
(* one if it is visible and not later than the block, otherwise the        *)
(* current one.  The lookup may fail, which counts as not visible; then    *)
(* there is none when the block would exceed the drift.                    *)
FindL1Origin(chain) ==
    LET cur  == Origin(chain)
        next == At(cur.num + 1, l1Fork)
        past == NextTime(chain) > L1Time(cur) + MaxSequencerDrift
    IN  {o \in {cur} : ~past} \cup
        (IF ~Visible(next.num) THEN {}
         ELSE IF NextTime(chain) >= L1Time(next) THEN {next} ELSE {cur})

(* The block only has the transactions that derivation forces into it. *)
NoTxPool(chain, o) == NextTime(chain) > L1Time(o) + MaxSequencerDrift

-----------------------------------------------------------------------------
(* RunNextSequencerAction, when the timer fires.  Whatever it does, the    *)
(* loop plans the next action.  At the end of time every timer is due.     *)

Fires ==
    /\ timer # Never
    /\ timer <= now \/ now = MaxTime

(* A reset is requested of the pipeline, after holding off for a block. *)
AskReset ==
    /\ ready' = FALSE
    /\ nextAction' = now + BlockTime

(* A job for a safe block is open: leave it alone. *)
AvoidSafeJob ==
    /\ Fires /\ building.safe
    /\ nextAction' = now + BlockTime
    /\ UNCHANGED <<now, l1Head, l1Fork, l1State, l2, safe, building, stopped, ready, resets, stops>>
    /\ timer' = Armed(Planned)

(* StartBuildingBlock starts a job on the head, or asks for a reset if the *)
(* origin found does not follow that of the head.                          *)
StartBuildingBlock ==
    /\ Fires /\ ~Building /\ Len(l2) < MaxL2
    /\ \E o \in FindL1Origin(l2) :
          IF Follows(Origin(l2), o) /\ NextTime(l2) >= L1Time(o)
          THEN /\ building' = [onto |-> l2, origin |-> o, empty |-> NoTxPool(l2, o),
                               seen |-> l1Fork, safe |-> FALSE]
               /\ UNCHANGED <<nextAction, ready>>
          ELSE AskReset /\ UNCHANGED building
    /\ UNCHANGED <<now, l1Head, l1Fork, l1State, l2, safe, stopped, resets, stops>>
    /\ timer' = Armed(Planned)

(* It fails: no origin, L1 or the engine does not answer. *)
StartFails ==
    /\ Fires /\ ~Building
    /\ nextAction' = now + 1
    /\ UNCHANGED <<now, l1Head, l1Fork, l1State, l2, safe, building, stopped, ready, resets, stops>>
    /\ timer' = Armed(Planned)

(* CompleteBuildingBlock seals the job; its block becomes the head. *)
CompleteBuildingBlock ==
    /\ Fires /\ Building /\ ~building.safe
    /\ l2' = Append(building.onto, [origin |-> building.origin, empty |-> building.empty,
                                    seen |-> building.seen])
    /\ building' = NoJob
    /\ UNCHANGED <<now, l1Head, l1Fork, l1State, safe, nextAction, stopped, ready, resets, stops>>
    /\ timer' = Armed(Planned)

(* Sealing fails: the job is cancelled.  A payload that cannot be decoded  *)
(* asks for a reset as well.                                               *)
SealFails ==
    /\ Fires /\ Building /\ ~building.safe
    /\ building' = NoJob
    /\ \/ nextAction' = now + 1 /\ UNCHANGED <<ready, resets>>
       \/ AskReset /\ resets < MaxResets /\ resets' = resets + 1
    /\ UNCHANGED <<now, l1Head, l1Fork, l1State, l2, safe, stopped, stops>>
    /\ timer' = Armed(Planned)

-----------------------------------------------------------------------------
(* Other events of the loop                                                *)

HandleNewL1HeadBlock ==
    /\ l1State # l1Head
    /\ l1State' = l1Head
    /\ UNCHANGED <<now, l1Head, l1Fork, l2, safe, building, nextAction, stopped, ready, resets, stops>>
    /\ Loop

(* A derivation step finds the unsafe block above the safe head to be the  *)
(* derived one.                                                            *)
Consolidate ==
    /\ ready /\ safe < Len(l2) /\ ~building.safe
    /\ Canonical(l2[safe + 1].origin)
    /\ safe' = safe + 1
    /\ UNCHANGED <<now, l1Head, l1Fork, l1State, l2, building, nextAction, stopped, ready, resets, stops>>
    /\ Loop

(* The derived block above the safe head without a batch: empty, of the    *)
(* next epoch if that has begun.                                           *)
Derived ==
    LET cur  == Origin(SubSeq(l2, 1, safe))
        next == At(cur.num + 1, l1Fork)
    IN  [origin |-> IF L1Time(next) <= (safe + 1) * BlockTime THEN next ELSE cur,
         empty |-> TRUE, seen |-> l1Fork]

(* Derivation replaces the unsafe chain by a block of its own, taking over *)
(* any open job, or is interrupted with its job open.                      *)
ForceSafeBlock ==
    /\ ready /\ safe < MaxL2 /\ (safe + 1) * BlockTime <= now
    /\ Origin(SubSeq(l2, 1, safe)).num < l1Head /\ Canonical(Origin(SubSeq(l2, 1, safe)))
    /\ \/ /\ l2' = Append(SubSeq(l2, 1, safe), Derived)
          /\ safe' = safe + 1
          /\ building' = NoJob
       \/ /\ ~building.safe
          /\ building' = [NoJob EXCEPT !.onto = SubSeq(l2, 1, safe), !.safe = TRUE]
          /\ UNCHANGED <<l2, safe>>
    /\ UNCHANGED <<now, l1Head, l1Fork, l1State, nextAction, stopped, ready, resets, stops>>
    /\ Loop

(* A step asks for a reset: L1 has left the chain, or for another reason. *)
DerivationAsksReset ==
    /\ ready
    /\ \/ UNCHANGED resets /\ \E i \in DOMAIN l2 : ~Canonical(l2[i].origin)
       \/ resets < MaxResets /\ resets' = resets + 1
    /\ ready' = FALSE
    /\ UNCHANGED <<now, l1Head, l1Fork, l1State, l2, safe, building, nextAction, stopped, stops>>
    /\ Loop

(* The engine queue resets: the chain is cut back to what is on L1, and    *)
(* the job is forgotten.                                                   *)
Reset ==
    /\ ~ready
    /\ \E kept \in 0..Len(l2) :
          /\ \A i \in 1..kept : Canonical(l2[i].origin)
          /\ kept < Len(l2) => ~Canonical(l2[kept + 1].origin)
          /\ l2' = SubSeq(l2, 1, kept)
          /\ safe' = IF safe < kept THEN safe ELSE kept
    /\ building' = NoJob
    /\ ready' = TRUE
    /\ UNCHANGED <<now, l1Head, l1Fork, l1State, nextAction, stopped, resets, stops>>
    /\ Loop

(* Mutant of StopSequencer: the job is left open. *)
StopSequencerKeepsJob ==
    /\ ~stopped /\ stops < MaxStops
    /\ stopped' = TRUE
    /\ stops' = stops + 1
    /\ UNCHANGED <<now, l1Head, l1Fork, l1State, l2, safe, building, nextAction, ready, resets>>
    /\ Loop

(* The operator stops the sequencer, which cancels the open job. *)
StopSequencer ==
    /\ ~stopped /\ stops < MaxStops
    /\ stopped' = TRUE
    /\ building' = NoJob
    /\ stops' = stops + 1
    /\ UNCHANGED <<now, l1Head, l1Fork, l1State, l2, safe, nextAction, ready, resets>>
    /\ Loop

(* Mutant of StartSequencer: nothing is planned. *)
StartSequencerUnplanned ==
    /\ stopped
    /\ stopped' = FALSE
    /\ UNCHANGED <<now, l1Head, l1Fork, l1State, l2, safe, building, nextAction, ready, resets, stops>>
    /\ timer' = timer

(* The operator starts it on the current head. *)
StartSequencer ==
    /\ stopped
    /\ stopped' = FALSE
    /\ UNCHANGED <<now, l1Head, l1Fork, l1State, l2, safe, building, nextAction, ready, resets, stops>>
    /\ timer' = Armed(Planned)

(* Another sequencer is only active while this one is stopped; its blocks  *)
(* arrive by gossip.                                                       *)
ForeignBlock ==
    /\ stopped /\ ready /\ Len(l2) < MaxL2 /\ Time(l2) <= now /\ Canonical(Origin(l2))
    /\ \E o \in FindL1Origin(l2) :
          /\ Follows(Origin(l2), o)
          /\ l2' = Append(l2, [origin |-> o, empty |-> NoTxPool(l2, o), seen |-> l1Fork])
    /\ UNCHANGED <<now, l1Head, l1Fork, l1State, safe, building, nextAction, stopped, ready, resets, stops>>
    /\ Loop

-----------------------------------------------------------------------------
(* The environment: the clock and the L1 chain                             *)

Tick ==
    /\ now < MaxTime
    /\ now' = now + 1
    /\ UNCHANGED <<l1Head, l1Fork, l1State, l2, safe, building, nextAction, timer, stopped, ready,
                   resets, stops>>

L1Advance ==
    /\ l1Head < MaxL1
    /\ L1Times[l1Fork][l1Head + 1] <= now
    /\ l1Head' = l1Head + 1
    /\ UNCHANGED <<now, l1Fork, l1State, l2, safe, building, nextAction, timer, stopped, ready,
                   resets, stops>>

L1Reorg ==
    /\ l1Fork = 0 /\ l1Head >= ForkPoint /\ L1Times[1][l1Head] <= now
    /\ \A i \in 1..safe : l2[i].origin.num < ForkPoint
    /\ l1Fork' = 1
    /\ UNCHANGED <<now, l1Head, l1State, l2, safe, building, nextAction, timer, stopped, ready,
                   resets, stops>>

Init ==
    /\ now = 0 /\ l1Head = 0 /\ l1Fork = 0 /\ l1State = Never
    /\ l2 = <<>> /\ safe = 0 /\ building = NoJob /\ nextAction = 0 /\ timer = Never
    /\ stopped = FALSE /\ ready = FALSE /\ resets = 0 /\ stops = 0

Next ==
    \/ AvoidSafeJob \/ StartBuildingBlock \/ StartFails \/ CompleteBuildingBlock \/ SealFails
    \/ HandleNewL1HeadBlock \/ Consolidate \/ ForceSafeBlock \/ DerivationAsksReset \/ Reset
    \/ StopSequencer \/ StartSequencer \/ ForeignBlock
    \/ Tick \/ L1Advance \/ L1Reorg

(* Fairness.  The clock runs and L1 grows; the event loop takes the events *)
(* that wait for it; calls to L1 and to the engine that are made again and *)
(* again succeed in the end, and derivation finishes a block it began and  *)
(* consolidates what was batched.                                          *)
Fairness ==
    /\ WF_vars(Tick) /\ WF_vars(L1Advance)
    /\ WF_vars(HandleNewL1HeadBlock) /\ WF_vars(Reset)
    /\ WF_vars(DerivationAsksReset /\ resets' = resets) /\ WF_vars(Consolidate)
    /\ WF_vars(ForceSafeBlock /\ building.safe /\ building' = NoJob)
    /\ SF_vars(StartBuildingBlock) /\ SF_vars(CompleteBuildingBlock)

Spec == Init /\ [][Next]_vars /\ Fairness

-----------------------------------------------------------------------------
(* Every block of the unsafe chain could be derived from the L1 chain that *)
(* its builder saw, by the rules of checkSingularBatch: its origin is that *)
(* of its parent or the next, not later than itself; past the drift it is  *)
(* empty, and stays on its parent's origin only if the next is too late.   *)
SequencedDerivable ==
    \A i \in DOMAIN l2 :
        LET b == l2[i]
            p == Origin(SubSeq(l2, 1, i - 1))
            t == i * BlockTime
        IN  /\ Follows(p, b.origin) /\ L1Time(b.origin) <= t
            /\ t > L1Time(b.origin) + MaxSequencerDrift =>
                  b.empty /\ (b.origin = p => L1Time(At(p.num + 1, b.seen)) > t)

(* No block is more than one block time ahead of the clock: whatever moved *)
(* the head since it was planned, and after errors that put off an action, *)
(* no block is begun before the time of its parent.                        *)
NotAheadOfClock == Time(l2) <= now + BlockTime

(* A block that is sealed extends the unsafe chain: a job that was started *)
(* before the head moved, by derivation, a reset or another sequencer, is  *)
(* never finished on top of it.                                            *)
SealExtendsHead == [][l2' # l2 /\ safe' = safe /\ ready => IsPrefix(l2, l2')]_vars

(* The sequencer does not fall asleep: unless it is stopped the unsafe     *)
(* chain grows to its bound, over failing calls, reorganisations, resets,  *)
(* restarts of sequencing, a safe head that lags, and safe jobs left open. *)
SequencingGoesOn == []<>(stopped \/ Len(l2) = MaxL2)
=============================================================================
