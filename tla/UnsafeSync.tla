----------------------------- MODULE UnsafeSync -----------------------------
(***************************************************************************)
(* How a node fills a gap in its unsafe chain: the driver's event loop     *)
(* (driver/state.go) notices that the first queued payload is too far      *)
(* ahead of the unsafe head and asks the P2P sync client (p2p/sync.go) for *)
(* the range in between.  The client fetches blocks by number from its     *)
(* peers, keeps what it cannot verify yet in a quarantine, and hands a     *)
(* block to the driver once its hash is trusted: it is the parent of a     *)
(* target or of a block handed over before.                                *)
(*                                                                         *)
(* Four kinds of goroutine interleave: the event loop of the driver, the   *)
(* main loop of the client, one loop per peer, and gossip.  Each handler   *)
(* is atomic up to where it may block: the driver in RequestL2Range, the   *)
(* main loop in receivePayload.  These two wait for each other when the    *)
(* driver's channel is full, until one of their contexts times out.        *)
(*                                                                         *)
(* A block is identified by its hash.  Left out: derivation from L1 (the   *)
(* unsafe head only moves by payloads), the eviction of trusted hashes     *)
(* (10000 of them), rate limits, peer scores, and the encoding of blocks.  *)
(***************************************************************************)
EXTENDS PayloadsQueue, Sequences, SequencesExt

CONSTANTS
    Genesis,         \* the unsafe head at first, block number 0
    ParentHash,      \* [Payloads -> Payloads \cup {Genesis}]
    Gossiped,        \* payloads that arrive by gossip, each at most once
    Canonical,       \* blocks of the chain the sequencer builds
    Served,          \* blocks that peers may answer with
    Peers,
    Loops,           \* loops of peers that may run at a time
    QuarantineSize,  \* capacity of the quarantine
    RequestsCap,     \* capacities of the channels peerRequests, results and
    ResultsCap,      \* unsafeL2Payloads
    InboxCap,
    None

ASSUME UnsafeSyncAssumption ==
    /\ Genesis \notin Payloads
    /\ ParentHash \in [Payloads -> Payloads \cup {Genesis}]
    /\ Gossiped \subseteq Payloads /\ Served \subseteq Payloads
    /\ Canonical \subseteq Payloads
    /\ {QuarantineSize, RequestsCap, ResultsCap, InboxCap} \subseteq Nat \ {0}

Number(b) == IF b = Genesis THEN 0 ELSE BlockNumber[b]
Numbers == {BlockNumber[b] : b \in Payloads}

VARIABLES
    unsafeHead,       \* head of the unsafe chain in the engine queue
    heard,            \* payloads that gossip delivered, or gave up
    unsafeL2Payloads, \* channel from gossip and the sync client to the driver
    requesting,       \* range the driver is blocked on, or None
    trusted,          \* hashes the sync client trusts
    quarantine,       \* LRU of the blocks in quarantine, the oldest first
    quarantineByNum,  \* [Numbers -> the block indexed there, or None]
    inFlight,         \* [Numbers -> [id, complete] of the last request, or None]
    peerRequests,     \* channel of requests [num, id] to the peers' loops
    results,          \* channel of blocks to the main loop
    promoting,        \* block the main loop is blocked on in receivePayload
    peers,            \* [Peers -> registered loop, or None]
    loops             \* [Loops -> [peer, cancelled, req] or None]

driverVars == <<pq, currentSize, blockHashes, unsafeHead, requesting>>
clientVars == <<trusted, quarantine, quarantineByNum, inFlight, promoting>>
peerVars == <<peers, loops>>
vars == <<driverVars, clientVars, peerVars, heard, unsafeL2Payloads, peerRequests, results>>

-----------------------------------------------------------------------------
(* Gossip, from goroutines of their own: the payload enters the channel of *)
(* the driver, or is dropped when that stays full until the timeout.       *)
Gossip(p) ==
    /\ p \in Gossiped \ heard
    /\ heard' = heard \cup {p}
    /\ \/ /\ Len(unsafeL2Payloads) < InboxCap
          /\ unsafeL2Payloads' = Append(unsafeL2Payloads, p)
       \/ /\ Len(unsafeL2Payloads) = InboxCap
          /\ UNCHANGED unsafeL2Payloads
    /\ UNCHANGED <<driverVars, clientVars, peerVars, peerRequests, results>>

(* The event loop takes a payload from its channel and queues it, unless   *)
(* the queue refuses it.                                                   *)
AddUnsafePayload ==
    /\ requesting = None /\ unsafeL2Payloads # <<>>
    /\ unsafeL2Payloads' = Tail(unsafeL2Payloads)
    /\ LET p == Head(unsafeL2Payloads)
       IN  \/ Push(p)
           \/ /\ p \in blockHashes \/ PayloadSize[p] > MaxSize
              /\ UNCHANGED pqVars
    /\ UNCHANGED <<unsafeHead, requesting, heard, clientVars, peerVars, peerRequests, results>>

(* A step of the engine queue on the first payload: it becomes the unsafe  *)
(* head, or leaves the queue because it is old or on another chain.  With  *)
(* a gap before it, it stays.                                              *)
TryNextUnsafePayload ==
    /\ requesting = None
    /\ \E p \in Peek :
          /\ Pop(p)
          /\ \/ /\ Number(p) <= Number(unsafeHead) + 1
                /\ ParentHash[p] # unsafeHead
                /\ UNCHANGED unsafeHead
             \/ /\ ParentHash[p] = unsafeHead
                /\ unsafeHead' = p
    /\ UNCHANGED <<requesting, heard, unsafeL2Payloads, clientVars, peerVars, peerRequests, results>>

-----------------------------------------------------------------------------
(* An LRU holds a key once. *)
Without(lru, h) == RemoveFirst(lru, h)
Touched(lru, h) == IF h \in ToSet(lru) THEN Append(Without(lru, h), h) ELSE lru

(* Mutant of Unindexed: an eviction leaves the index alone. *)
UnindexedKeeps(index, h) == index

(* onQuarantineEvict: the entry of h's number goes, whatever it says. *)
Unindexed(index, h) == [index EXCEPT ![Number(h)] = None]

(* Adding h to the full quarantine evicts the oldest block. *)
Added(q, index, h) ==
    LET lru == Append(Without(q, h), h)
    IN  IF Len(lru) > QuarantineSize
          THEN <<Tail(lru), [Unindexed(index, Head(lru)) EXCEPT ![Number(h)] = h]>>
          ELSE <<lru, [index EXCEPT ![Number(h)] = h]>>

(* tryPromote: a block in quarantine is put on the results channel again   *)
(* unless that is full.                                                    *)
Rescheduled(res, q, h) ==
    IF h \in ToSet(q) /\ Len(res) < ResultsCap THEN Append(res, h) ELSE res

(* Numbers of requests for n that a peer has not finished with. *)
RequestIds(reqs, n) ==
    {r.id : r \in {r \in ToSet(reqs) \cup {loops[l].req : l \in {k \in Loops : loops[k] # None}} :
                      r # None /\ r.num = n}}

(* One turn of the loop of onRangeRequest, for block number n: promote a   *)
(* trusted candidate, skip what is in quarantine or in flight, otherwise   *)
(* schedule a request; the loop ends when the channel is full.             *)
RequestNumber(s, n) ==
    LET h == quarantineByNum[n]
        used == RequestIds(s.reqs, n)
        id == CHOOSE i \in 0..Cardinality(used) : i \notin used
    IN  IF s.stop THEN s
        ELSE IF h # None
          THEN IF h \in s.trusted
                 THEN [s EXCEPT !.results = Rescheduled(@, s.lru, h),
                                !.lru = Touched(@, h)]
                 ELSE s
        ELSE IF s.inFlight[n] # None THEN s
        ELSE IF Len(s.reqs) = RequestsCap THEN [s EXCEPT !.stop = TRUE]
        ELSE [s EXCEPT !.reqs = Append(@, [num |-> n, id |-> id]),
                       !.inFlight[n] = [id |-> id, complete |-> FALSE]]

(* Mutant of CleanedUp: requests stay in flight until they succeed. *)
CleanedUpNever(fl) == fl

(* Requests that failed are no longer in flight. *)
CleanedUp(fl) == [n \in Numbers |-> IF fl[n] # None /\ fl[n].complete THEN None ELSE fl[n]]

(* onRangeRequest: the target and its parent are trusted, and the numbers  *)
(* below it are requested downwards.                                       *)
OnRangeRequest(start, end) ==
    LET down == [i \in 1..(Number(end) - 1 - start) |-> Number(end) - i]
        s == FoldLeft(RequestNumber,
                      [trusted |-> trusted \cup {end, ParentHash[end]}, lru |-> quarantine,
                       inFlight |-> CleanedUp(inFlight), reqs |-> peerRequests,
                       results |-> results, stop |-> FALSE], down)
    IN  /\ trusted' = s.trusted
        /\ quarantine' = s.lru
        /\ inFlight' = s.inFlight
        /\ peerRequests' = s.reqs
        /\ results' = s.results
        /\ UNCHANGED <<quarantineByNum, promoting>>

(* The rest of promote, after receivePayload: b and its parent are         *)
(* trusted, b leaves the quarantine q, the parent is rescheduled if it is  *)
(* there, and what is indexed at the parent's number is removed.           *)
Promoted(b, q, index, res) ==
    LET q1 == Without(q, b)
        index1 == Unindexed(index, b)
        parent == ParentHash[b]
        below == IF Number(b) - 1 \in Numbers THEN index1[Number(b) - 1] ELSE None
    IN  /\ trusted' = trusted \cup {b, parent}
        /\ results' = Rescheduled(res, q1, parent)
        /\ quarantine' = IF below = None THEN Touched(q1, parent)
                         ELSE Without(Touched(q1, parent), below)
        /\ quarantineByNum' = IF below = None THEN index1 ELSE Unindexed(index1, below)

(* Mutant of Trusts: any block of a verified result is promoted. *)
TrustsAll(b) == TRUE

Trusts(b) == b \in trusted

(* The main loop takes a result: it is no longer in flight, goes into      *)
(* quarantine and, if its hash is trusted, on to the driver.  With the     *)
(* driver's channel full the main loop blocks.                             *)
OnResult ==
    /\ promoting = None /\ results # <<>>
    /\ LET b == Head(results)
           a == Added(quarantine, quarantineByNum, b)
       IN  /\ inFlight' = [inFlight EXCEPT ![Number(b)] = None]
           /\ \/ /\ Trusts(b) /\ Len(unsafeL2Payloads) < InboxCap
                 /\ unsafeL2Payloads' = Append(unsafeL2Payloads, b)
                 /\ Promoted(b, a[1], a[2], Tail(results))
                 /\ UNCHANGED promoting
              \/ /\ Trusts(b) /\ Len(unsafeL2Payloads) = InboxCap
                 /\ promoting' = b
                 /\ quarantine' = a[1] /\ quarantineByNum' = a[2]
                 /\ results' = Tail(results)
                 /\ UNCHANGED <<trusted, unsafeL2Payloads>>
              \/ /\ ~Trusts(b)
                 /\ quarantine' = a[1] /\ quarantineByNum' = a[2]
                 /\ results' = Tail(results)
                 /\ UNCHANGED <<trusted, unsafeL2Payloads, promoting>>
    /\ UNCHANGED <<driverVars, heard, peerVars, peerRequests>>

(* A blocked receivePayload ends: there is room again, or its context      *)
(* times out.  OpNode.OnUnsafeL2Payload logs that error and returns nil,   *)
(* so that the block counts as received either way.                        *)
ReceivePayloadEnds ==
    /\ promoting # None
    /\ \/ /\ Len(unsafeL2Payloads) < InboxCap
          /\ unsafeL2Payloads' = Append(unsafeL2Payloads, promoting)
       \/ /\ Len(unsafeL2Payloads) = InboxCap
          /\ UNCHANGED unsafeL2Payloads
    /\ Promoted(promoting, quarantine, quarantineByNum, results)
    /\ promoting' = None
    /\ UNCHANGED <<driverVars, heard, inFlight, peerVars, peerRequests>>

-----------------------------------------------------------------------------
(* The alt-sync ticker fires: with a gap before the first queued payload,  *)
(* the driver offers the range to the main loop of the client, which takes *)
(* it unless it is blocked.                                                *)
CheckForGap ==
    /\ requesting = None
    /\ \E p \in Peek :
          /\ Number(p) > Number(unsafeHead) + 1
          /\ \/ /\ promoting = None
                /\ OnRangeRequest(Number(unsafeHead), p)
                /\ UNCHANGED requesting
             \/ /\ promoting # None
                /\ requesting' = [start |-> Number(unsafeHead), end |-> p]
                /\ UNCHANGED <<clientVars, peerRequests, results>>
    /\ UNCHANGED <<pqVars, unsafeHead, heard, unsafeL2Payloads, peerVars>>

(* The main loop is free again and takes the range the driver waits with.  *)
TakeRange ==
    /\ requesting # None /\ promoting = None
    /\ OnRangeRequest(requesting.start, requesting.end)
    /\ requesting' = None
    /\ UNCHANGED <<pqVars, unsafeHead, heard, unsafeL2Payloads, peerVars>>

(* RequestL2Range gives up after two seconds of a blocked main loop.       *)
RequestTimeout ==
    /\ requesting # None /\ promoting # None
    /\ requesting' = None
    /\ UNCHANGED <<pqVars, unsafeHead, heard, unsafeL2Payloads, clientVars, peerVars, peerRequests, results>>

-----------------------------------------------------------------------------
AddPeer(p) ==
    /\ peers[p] = None
    /\ \E l \in Loops :
          /\ loops[l] = None
          /\ loops' = [loops EXCEPT ![l] = [peer |-> p, cancelled |-> FALSE, req |-> None]]
          /\ peers' = [peers EXCEPT ![p] = l]
    /\ UNCHANGED <<driverVars, clientVars, heard, unsafeL2Payloads, peerRequests, results>>

RemovePeer(p) ==
    /\ peers[p] # None
    /\ loops' = [loops EXCEPT ![peers[p]].cancelled = TRUE]
    /\ peers' = [peers EXCEPT ![p] = None]
    /\ UNCHANGED <<driverVars, clientVars, heard, unsafeL2Payloads, peerRequests, results>>

(* A cancelled loop that is not in a request returns; its deferred clean-  *)
(* up deletes the entry of its peer, whichever loop that names.            *)
PeerLoopExit(l) ==
    /\ loops[l] # None /\ loops[l].cancelled /\ loops[l].req = None
    /\ peers' = [peers EXCEPT ![loops[l].peer] = None]
    /\ loops' = [loops EXCEPT ![l] = None]
    /\ UNCHANGED <<driverVars, clientVars, heard, unsafeL2Payloads, peerRequests, results>>

TakeRequest(l) ==
    /\ loops[l] # None /\ loops[l].req = None /\ peerRequests # <<>>
    /\ loops' = [loops EXCEPT ![l].req = Head(peerRequests)]
    /\ peerRequests' = Tail(peerRequests)
    /\ UNCHANGED <<driverVars, clientVars, peers, heard, unsafeL2Payloads, results>>

(* doRequest returns a block of the requested number, once results has     *)
(* room for it.                                                            *)
Respond(l, b) ==
    /\ loops[l] # None /\ loops[l].req # None
    /\ b \in Served /\ Number(b) = loops[l].req.num
    /\ Len(results) < ResultsCap
    /\ results' = Append(results, b)
    /\ loops' = [loops EXCEPT ![l].req = None]
    /\ UNCHANGED <<driverVars, clientVars, peers, heard, unsafeL2Payloads, peerRequests>>

(* doRequest fails, the peer being gone included: its request is complete. *)
FailRequest(l) ==
    /\ loops[l] # None /\ loops[l].req # None
    /\ LET r == loops[l].req
       IN  inFlight' = IF inFlight[r.num] # None /\ inFlight[r.num].id = r.id
                         THEN [inFlight EXCEPT ![r.num].complete = TRUE] ELSE inFlight
    /\ loops' = [loops EXCEPT ![l].req = None]
    /\ UNCHANGED <<driverVars, trusted, quarantine, quarantineByNum, promoting, peers,
                   heard, unsafeL2Payloads, peerRequests, results>>

-----------------------------------------------------------------------------
SyncInit ==
    /\ Init
    /\ unsafeHead = Genesis /\ heard = {} /\ unsafeL2Payloads = <<>>
    /\ requesting = None /\ promoting = None
    /\ trusted = {} /\ quarantine = <<>>
    /\ quarantineByNum = [n \in Numbers |-> None]
    /\ inFlight = [n \in Numbers |-> None]
    /\ peerRequests = <<>> /\ results = <<>>
    /\ peers = [p \in Peers |-> None]
    /\ loops = [l \in Loops |-> None]

Driver == AddUnsafePayload \/ TryNextUnsafePayload \/ CheckForGap \/ RequestTimeout
MainLoop == TakeRange \/ OnResult \/ ReceivePayloadEnds
PeerLoop(l) == TakeRequest(l) \/ (\E b \in Served : Respond(l, b)) \/ FailRequest(l) \/ PeerLoopExit(l)

SyncNext ==
    \/ \E p \in Gossiped : Gossip(p)
    \/ Driver
    \/ MainLoop
    \/ \E p \in Peers : AddPeer(p) \/ RemovePeer(p)
    \/ \E l \in Loops : PeerLoop(l)

(* Fairness.  The event loop and the main loop never stop serving what     *)
(* they can take, a select among several ready channels being fair; a      *)
(* peer's loop ends its request; peers come back, and a block that is      *)
(* requested again and again is answered in the end.                       *)
Fairness ==
    /\ SF_vars(AddUnsafePayload) /\ WF_vars(TryNextUnsafePayload)
    /\ WF_vars(CheckForGap) /\ WF_vars(RequestTimeout)
    /\ WF_vars(TakeRange) /\ WF_vars(OnResult) /\ WF_vars(ReceivePayloadEnds)
    /\ WF_vars(\E p \in Peers : AddPeer(p))
    /\ WF_vars(\E l \in Loops : PeerLoopExit(l))
    /\ SF_vars(\E l \in Loops : TakeRequest(l))
    /\ \A b \in Canonical \cap Served : SF_vars(\E l \in Loops : Respond(l, b))

SyncSpec == SyncInit /\ [][SyncNext]_vars /\ Fairness

-----------------------------------------------------------------------------
(* The index by number only names blocks that are in the quarantine.  A    *)
(* number that is indexed is not fetched again, so an entry that outlives  *)
(* its block would leave a hole in the chain for ever.                     *)
IndexedIsQuarantined ==
    \A n \in Numbers : quarantineByNum[n] # None => quarantineByNum[n] \in ToSet(quarantine)

Blocks == Payloads \cup {Genesis}

(* The blocks of the chain of b: the least set with b that holds with a    *)
(* block its parent.                                                       *)
Ancestors ==
    LET Closed(S) == \A b \in S \ {Genesis} : ParentHash[b] \in S
    IN  [b \in Blocks |-> {a \in Blocks : \A S \in SUBSET Blocks : b \in S /\ Closed(S) => a \in S}]

GossipedChain == UNION {Ancestors[g] : g \in heard}

(* Whatever peers answer with, and however results, ranges, evictions and  *)
(* timeouts interleave, what the sync client hands to the driver is on the *)
(* chain of a payload that came by gossip.                                 *)
OnlyGossipedChain ==
    /\ pq \cup ToSet(unsafeL2Payloads) \subseteq GossipedChain
    /\ unsafeHead \in {Genesis} \cup GossipedChain

(* What can hold up the sync: a block of another chain in quarantine,      *)
(* which is neither fetched again nor evicted before enough other blocks   *)
(* come, or a payload that the payloads queue evicted and refuses since.   *)
ForkQuarantined == \E b \in ToSet(quarantine) : b \notin Canonical
Refused == ~DuplicatesAreQueued

(* No payload waits in the queue for ever: the gap below it is filled, in  *)
(* spite of failing requests, full channels, timeouts and leaving peers,   *)
(* unless one of these two holds it up.                                    *)
GapsAreFilled == \A p \in Gossiped : []<>(p \notin pq \/ ForkQuarantined \/ Refused)
=============================================================================
