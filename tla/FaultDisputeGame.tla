-------------------------- MODULE FaultDisputeGame --------------------------
(***************************************************************************)
(* One game of the FaultDisputeGame contract, played by the challenger's   *)
(* agent and solver (bl-challenger/game/fault) against anybody else.       *)
(*                                                                         *)
(* The contract refuses a second claim with the same parent, position and  *)
(* value, so a claim is the path of moves from the root to it, and the     *)
(* claimData array is a function on paths.  A claim's value is the state   *)
(* at its trace index in the honest execution, "right", or a wrong one.    *)
(*                                                                         *)
(* The agent answers before time goes on: its polling interval is short    *)
(* against GAME_DURATION.                                                  *)
(***************************************************************************)
EXTENDS Integers, Sequences, FiniteSets, SequencesExt, FiniteSetsExt

CONSTANTS
    Wrong,          \* wrong values
    Vm,             \* the VM's step from a value, None if it is no state's hash
    None,
    MaxGameDepth,   \* MAX_GAME_DEPTH
    HalfDuration,   \* GAME_DURATION >> 1
    MaxTime,        \* bound: time
    MaxMoves        \* bound: how often others than the agent move

Values == Wrong \cup {"right"}

ASSUME GameAssumption ==
    /\ "right" \notin Wrong
    /\ Vm \in [Values -> Values \cup {None}] /\ Vm["right"] = "right"
    /\ MaxGameDepth \in Nat \ {0}
    /\ {HalfDuration, MaxTime, MaxMoves} \subseteq Nat

VARIABLES
    now,
    root,           \* the value of the root claim
    claimData,      \* of a path: position, clock and whether it is countered
    subgames,       \* of a path: the claims against it that are not resolved, as made
    rootResolved,   \* subgameAtRootResolved
    status,
    hasty,          \* history: a claim was resolved too early (see Overtakes, Reopens)
    moves           \* counter for the bound

vars == <<now, root, claimData, subgames, rootResolved, status, hasty, moves>>

Claims == DOMAIN claimData
Root == <<>>
Value(c) == IF c = Root THEN root ELSE Last(c).value
Depth(c) == Len(c)

Init ==
    /\ now = 0
    /\ root \in Values
    /\ claimData = [c \in {Root} |-> [position |-> 1, stamp |-> 0, duration |-> 0, countered |-> FALSE]]
    /\ subgames = [c \in {Root} |-> <<>>]
    /\ rootResolved = FALSE
    /\ status = "in_progress"
    /\ hasty = FALSE
    /\ moves = 0

-----------------------------------------------------------------------------
(***************************************************************************)
(* Positions: generalized indices in the game tree (LibPosition).          *)
(***************************************************************************)
MovePosition(p, isAttack) == IF isAttack \/ p % 2 = 1 THEN 2 * p ELSE 2 * (p + 1)

IndexAtDepth(p, depth) == p - 2^depth

\* Mutant: one ancestor up, whatever the trace index.
TraceAncestorParent(p) == IF p % 2 = 1 /\ p # 1 THEN p \div 2 ELSE p

\* The highest ancestor with the same trace index.
TraceAncestor(p) ==
    LET k == CHOOSE k \in 0..(MaxGameDepth + 2) :
                /\ (p \div 2^k) % 2 = 0
                /\ \A j \in 0..(k - 1) : (p \div 2^j) % 2 = 1
        a == p \div 2^k
    IN  IF a = 0 THEN 1 ELSE a

Ancestors(c) == {SubSeq(c, 1, n) : n \in 0..Len(c)}

\* The claims on the way from start to the root that commit to the trace index
\* of a position: one, or none where the contract's loop ends in a revert.
FindTraceAncestor(p, start) ==
    {a \in Ancestors(start) : claimData[a].position = TraceAncestor(p)}

-----------------------------------------------------------------------------
(***************************************************************************)
(* The contract.                                                           *)
(***************************************************************************)
Child(c, isAttack, value) == Append(c, [attack |-> isAttack, value |-> value])

\* The time used up by the team that moves against c.
NextDuration(c) == (IF c = Root THEN 0 ELSE claimData[Front(c)].duration) + now - claimData[c].stamp

MoveAccepted(c, isAttack, value) ==
    /\ status = "in_progress"
    /\ c = Root => isAttack
    /\ Depth(c) < MaxGameDepth
    /\ NextDuration(c) <= HalfDuration
    /\ Child(c, isAttack, value) \notin Claims

Move(c, isAttack, value) ==
    LET d == Child(c, isAttack, value)
        new == [position |-> MovePosition(claimData[c].position, isAttack),
                stamp |-> now, duration |-> NextDuration(c), countered |-> FALSE]
    IN  /\ MoveAccepted(c, isAttack, value)
        /\ claimData' = [x \in Claims \cup {d} |->
                            IF x = d THEN new
                            ELSE IF x = c THEN [claimData[c] EXCEPT !.countered = TRUE]
                            ELSE claimData[x]]
        /\ subgames' = [x \in Claims \cup {d} |->
                            IF x = d THEN <<>> ELSE IF x = c THEN Append(subgames[c], d) ELSE subgames[x]]
        /\ UNCHANGED <<now, root, rootResolved, status>>

\* The values that may be the state before, and the claims that may be the one
\* after, in a step against c.
PreStates(c, isAttack) ==
    LET p == claimData[c].position
    IN  IF ~isAttack THEN {Value(c)}
        ELSE IF IndexAtDepth(MovePosition(p, TRUE), Depth(c) + 1) = 0 THEN {"right"}
        ELSE {Value(a) : a \in FindTraceAncestor(p - 1, Front(c))}

PostStates(c, isAttack) ==
    IF isAttack THEN {c} ELSE FindTraceAncestor(claimData[c].position + 1, Front(c))

\* A step, for which a player gives the state that hashes to pre.
StepAccepted(c, isAttack, pre) ==
    /\ status = "in_progress"
    /\ Depth(c) = MaxGameDepth
    /\ pre \in PreStates(c, isAttack) /\ Vm[pre] # None
    /\ \E post \in PostStates(c, isAttack) :
           ((Depth(c) - Depth(post)) % 2 = 0) # (Vm[pre] = Value(post))

Step(c, isAttack, pre) ==
    /\ StepAccepted(c, isAttack, pre)
    /\ claimData' = [claimData EXCEPT ![c].countered = TRUE]
    /\ UNCHANGED <<now, root, subgames, rootResolved, status>>

ClockExpired(c) == claimData[c].duration + now - claimData[c].stamp > HalfDuration

\* The claims against c that are not countered, by their places in its subgame.
Uncountered(c) == {i \in DOMAIN subgames[c] : ~claimData[subgames[c][i]].countered}

\* The places that resolveClaim reads: it stops at the first uncountered claim.
Visited(c) == IF Uncountered(c) = {} THEN DOMAIN subgames[c] ELSE 1..Min(Uncountered(c))

\* Mutant: claims against the ones against c may still be open.
ResolveClaimEarly(c) ==
    /\ status = "in_progress"
    /\ ClockExpired(c)
    /\ IF c = Root THEN ~rootResolved ELSE subgames[c] # <<>>
    /\ claimData' = [claimData EXCEPT ![c].countered = Uncountered(c) # {}]
    /\ subgames' = [subgames EXCEPT ![c] = <<>>]
    /\ rootResolved' = (rootResolved \/ c = Root)
    /\ UNCHANGED <<now, root, status, moves>>

\* Mutant: a resolved subgame keeps its claims.
ResolveClaimKeeps(c) ==
    /\ status = "in_progress"
    /\ ClockExpired(c)
    /\ IF c = Root THEN ~rootResolved ELSE subgames[c] # <<>>
    /\ \A i \in Visited(c) : subgames[subgames[c][i]] = <<>>
    /\ claimData' = [claimData EXCEPT ![c].countered = Uncountered(c) # {}]
    /\ rootResolved' = (rootResolved \/ c = Root)
    /\ UNCHANGED <<now, root, subgames, status, moves>>

ResolveClaim(c) ==
    /\ status = "in_progress"
    /\ ClockExpired(c)
    /\ IF c = Root THEN ~rootResolved ELSE subgames[c] # <<>>
    /\ \A i \in Visited(c) : subgames[subgames[c][i]] = <<>>
    /\ claimData' = [claimData EXCEPT ![c].countered = Uncountered(c) # {}]
    /\ subgames' = [subgames EXCEPT ![c] = <<>>]
    /\ rootResolved' = (rootResolved \/ c = Root)
    /\ UNCHANGED <<now, root, status, moves>>

Resolve ==
    /\ status = "in_progress"
    /\ rootResolved
    /\ status' = IF claimData[Root].countered THEN "challenger_wins" ELSE "defender_wins"
    /\ UNCHANGED <<now, root, claimData, subgames, rootResolved, hasty, moves>>

-----------------------------------------------------------------------------
(***************************************************************************)
(* The agent and its solver.  It agrees with the proposed output exactly   *)
(* when the root claim, which disputes that output, is wrong.              *)
(***************************************************************************)
AgreeWithProposedOutput == root # "right"
AgreeWithClaimLevel(c) == (Depth(c) % 2 = 1) = AgreeWithProposedOutput

AgreeWithClaim(c) == Value(c) = "right"

\* Every other claim on the way to the root is right.
AgreeWithClaimPath(c) ==
    \A a \in Ancestors(c) : (Depth(c) - Depth(a)) % 2 = 0 => AgreeWithClaim(a)

OnHonestPath(c) == c = Root \/ AgreeWithClaimPath(Front(c))

\* calculateMove: defend what is right, attack what is wrong.
NextMove(c) ==
    /\ Depth(c) # MaxGameDepth
    /\ ~AgreeWithClaimLevel(c)
    /\ OnHonestPath(c)
    /\ ~(c = Root /\ AgreeWithClaim(c))
    /\ Child(c, ~AgreeWithClaim(c), "right") \notin Claims

\* calculateStep.
NextStep(c) ==
    /\ Depth(c) = MaxGameDepth
    /\ ~AgreeWithClaimLevel(c)
    /\ ~claimData[c].countered
    /\ OnHonestPath(c)

AgentMoveAccepted(c) == NextMove(c) /\ MoveAccepted(c, ~AgreeWithClaim(c), "right")
AgentStepAccepted(c) == NextStep(c) /\ StepAccepted(c, ~AgreeWithClaim(c), "right")

\* The agent has performed its actions, as far as the contract accepts them.
AgentDone == \A c \in Claims : ~AgentMoveAccepted(c) /\ ~AgentStepAccepted(c)

-----------------------------------------------------------------------------
(***************************************************************************)
(* The steps of the game, with what the properties remember of them: hasty *)
(* is set when a claim is resolved on account of one that the agent would  *)
(* still answer, and when a move is made against a claim that has already  *)
(* been resolved.                                                          *)
(***************************************************************************)
Overtakes(c) ==
    /\ Uncountered(c) # {}
    /\ LET d == subgames[c][Min(Uncountered(c))] IN AgentMoveAccepted(d) \/ AgentStepAccepted(d)

Reopens(c) == subgames[c] = <<>> /\ \E d \in Claims \ {Root} : Front(d) = c

AgentMove(c) ==
    /\ NextMove(c)
    /\ Move(c, ~AgreeWithClaim(c), "right")
    /\ hasty' = (hasty \/ Reopens(c))
    /\ UNCHANGED moves

AgentStep(c) == NextStep(c) /\ Step(c, ~AgreeWithClaim(c), "right") /\ UNCHANGED <<hasty, moves>>

Tick ==
    /\ status = "in_progress"
    /\ AgentDone
    /\ now < MaxTime
    /\ now' = now + 1
    /\ UNCHANGED <<root, claimData, subgames, rootResolved, status, hasty, moves>>

OtherMove(c, isAttack, value) ==
    /\ moves < MaxMoves
    /\ moves' = moves + 1
    /\ Move(c, isAttack, value)
    /\ hasty' = (hasty \/ Reopens(c))

OtherStep(c, isAttack, pre) ==
    /\ ~claimData[c].countered
    /\ Step(c, isAttack, pre)
    /\ UNCHANGED <<hasty, moves>>

AnyoneResolves(c) == ResolveClaim(c) /\ hasty' = (hasty \/ Overtakes(c))

\* The agent polls the game, answers and resolves what it can; time passes.
Progress ==
    \/ Tick
    \/ \E c \in Claims : AgentMove(c) \/ AgentStep(c) \/ AnyoneResolves(c)
    \/ Resolve

Next ==
    \/ Progress
    \/ \E c \in Claims, isAttack \in BOOLEAN, v \in Values : \/ OtherMove(c, isAttack, v)
                                                            \/ OtherStep(c, isAttack, v)

Spec == Init /\ [][Next]_vars /\ WF_vars(Progress)

-----------------------------------------------------------------------------
WinsRight == status = IF root = "right" THEN "defender_wins" ELSE "challenger_wins"

\* The game ends for the side that is right, whatever moves and steps others
\* make, on either side, also while claims are being resolved, and in whichever
\* order resolveClaim's loop accepts, with sibling subgames still open.  Only a
\* hasty resolution can make it end otherwise.
RightSideWins == status # "in_progress" /\ ~hasty => WinsRight

\* The game ends for the side that is right, always, as the documents say; not
\* so, since resolveClaim does not test the clock of those who may still move.
RightSideAlwaysWins == status # "in_progress" => WinsRight

\* The contract accepts every step the solver computes against an answer to its
\* own moves: the claims that it needs as state before or after exist and are
\* right.  (Against an answer to a move that a teammate made where the solver
\* would not have made it, they need not be.)
SolversOwn(c) == c # Root => Last(c).attack = ~AgreeWithClaim(Front(c))

SolverStepsAccepted ==
    status = "in_progress" =>
        \A c \in Claims :
            NextStep(c) /\ (\A a \in Ancestors(Front(c)) : (Depth(c) - Depth(a)) % 2 = 1 => SolversOwn(a))
                => StepAccepted(c, ~AgreeWithClaim(c), "right")

\* A game ends, although claims are made while others are resolved, and resolved
\* in any order that resolveClaim's loop accepts, some more than once.
GameEnds == <>(status # "in_progress")
=============================================================================
