----------------------- MODULE SubscriptionCoordinator -----------------------
(***************************************************************************)
(* VenueSubscriptionCoordinator                                            *)
(* (packages/core/src/core/subscription-coordinator.ts) over the adapters  *)
(* of SdkAdapter.                                                          *)
(*                                                                         *)
(* JavaScript runs one callback at a time, so an action is the code between*)
(* two awaits.  acquire, release and dispose append an operation to their  *)
(* venue's promise chain (runVenueOperation); the head of the chain runs,  *)
(* may wait for the adapter, and settles.  A client is a caller of acquire *)
(* with its listener (a ChainRuntime): it may acquire again when it holds  *)
(* nothing.                                                                *)
(***************************************************************************)
EXTENDS SdkAdapter, Sequences

CONSTANTS Clients,
          NoHandlers,   \* the venue has no entry in venueEntries
          MaxFailures   \* bound: rejections of subscribeChain

ASSUME NoHandlersAssumption == NoHandlers \notin Handlers
ASSUME ClientsAssumption == IsFiniteSet(Clients)
ASSUME RequestsAssumption == IsFiniteSet(Requests)
ASSUME MaxFailuresAssumption == MaxFailures \in Nat

VARIABLES
  venueEntries,  \* [Venues -> Handlers \cup {NoHandlers}]: the entry's handlers
  refCount,      \* [Venues -> [Requests -> Nat]], 0: no request entry
  listeners,     \* [Venues -> [Requests -> SUBSET Clients]]
  operations,    \* [Venues -> Seq(operation)]: the promise chain, head first
  running,       \* [Venues -> what the head waits for]
  dropping,      \* [Venues -> SUBSET Requests]: unsubscribeChain in flight
  rejecting,     \* [Venues -> BOOLEAN]: a rejection is passing down the chain
  phase,         \* [Clients -> where the client's call or handle stands]
  target,        \* [Clients -> Venues \X Requests]
  disposer,      \* dispose(): "idle", "visiting", "done" or "failed"
  failures

coordinatorVars ==
  <<venueEntries, refCount, listeners, operations, running, dropping,
    rejecting, phase, target, disposer, failures>>

vars == <<adapterVars, coordinatorVars>>

Operation == [kind : {"acquire", "release"}, client : Clients]
               \cup [kind : {"dispose"}]

Phase == {"free",       \* no handle, no call in progress
          "acquiring",  \* acquire called, not settled
          "held",       \* owns a handle
          "releasing",  \* release called, its operation has not run
          "draining",   \* its release no longer counts, not settled
          "stranded",   \* release rejected before its operation ran
          "orphaned"}   \* owns a handle whose entry dispose removed

TypeOK ==
  /\ AdapterTypeOK
  /\ venueEntries \in [Venues -> Handlers \cup {NoHandlers}]
  /\ refCount \in [Venues -> [Requests -> Nat]]
  /\ listeners \in [Venues -> [Requests -> SUBSET Clients]]
  /\ operations \in [Venues -> Seq(Operation)]
  /\ running \in [Venues -> {"none", "subscribing", "subscribed", "unsubscribing"}]
  /\ dropping \in [Venues -> SUBSET Requests]
  /\ rejecting \in [Venues -> BOOLEAN]
  /\ phase \in [Clients -> Phase]
  /\ target \in [Clients -> Venues \X Requests]
  /\ disposer \in {"idle", "visiting", "done", "failed"}
  /\ failures \in Nat

Init ==
  /\ AdapterInit
  /\ venueEntries = [v \in Venues |-> NoHandlers]
  /\ refCount = [v \in Venues |-> [r \in Requests |-> 0]]
  /\ listeners = [v \in Venues |-> [r \in Requests |-> {}]]
  /\ operations = [v \in Venues |-> <<>>]
  /\ running = [v \in Venues |-> "none"]
  /\ dropping = [v \in Venues |-> {}]
  /\ rejecting = [v \in Venues |-> FALSE]
  /\ phase = [c \in Clients |-> "free"]
  /\ target \in [Clients -> Venues \X Requests]
  /\ disposer = "idle"
  /\ failures = 0
-----------------------------------------------------------------------------
(* Calls *)

Enqueue(v, op) == operations' = [operations EXCEPT ![v] = Append(@, op)]

\* A client asks for its target (each client stands for one request of one
\* venue).  Nobody acquires once dispose has been called.
Acquire(c) ==
  /\ disposer = "idle"
  /\ phase[c] = "free"
  /\ phase' = [phase EXCEPT ![c] = "acquiring"]
  /\ Enqueue(target[c][1], [kind |-> "acquire", client |-> c])
  /\ UNCHANGED <<adapterVars, venueEntries, refCount, listeners, running,
                 dropping, rejecting, target, disposer, failures>>

\* The handle's release: the flag `released` makes a second call a no-op.
Release(c) ==
  /\ phase[c] \in {"held", "orphaned"}
  /\ phase' = [phase EXCEPT ![c] = IF @ = "held" THEN "releasing" ELSE "draining"]
  /\ Enqueue(target[c][1], [kind |-> "release", client |-> c])
  /\ UNCHANGED <<adapterVars, venueEntries, refCount, listeners, running,
                 dropping, rejecting, target, disposer, failures>>

\* dispose visits the venues of venueEntries one after the other.
DisposeCall ==
  /\ disposer = "idle"
  /\ disposer' = "visiting"
  /\ UNCHANGED <<adapterVars, venueEntries, refCount, listeners, operations,
                 running, dropping, rejecting, phase, target, failures>>

Visiting == \E v \in Venues : \E i \in DOMAIN operations[v] :
              operations[v][i].kind = "dispose"

DisposeVisit(v) ==
  /\ disposer = "visiting"
  /\ ~ Visiting
  /\ venueEntries[v] # NoHandlers
  /\ Enqueue(v, [kind |-> "dispose"])
  /\ UNCHANGED <<adapterVars, venueEntries, refCount, listeners, running,
                 dropping, rejecting, phase, target, disposer, failures>>

DisposeReturn ==
  /\ disposer = "visiting"
  /\ ~ Visiting
  /\ \A v \in Venues : venueEntries[v] = NoHandlers
  /\ disposer' = "done"
  /\ UNCHANGED <<adapterVars, venueEntries, refCount, listeners, operations,
                 running, dropping, rejecting, phase, target, failures>>
-----------------------------------------------------------------------------
(* The promise chain of a venue *)

\* The head of v's chain waits for the adapter to subscribe or unsubscribe
\* something: for its network, which may never answer.
AwaitsAdapter(v) ==
  \/ running[v] = "subscribing"
  \/ running[v] = "unsubscribing" /\ dropping[v] # {}

\* Mutant: one promise chain for all venues.
ReadyInTurn(v, kind) ==
  /\ operations[v] # <<>>
  /\ Head(operations[v]).kind = kind
  /\ \A w \in Venues : running[w] = "none"
  /\ ~ rejecting[v]

\* The next operation of the chain may start.
Ready(v, kind) ==
  /\ operations[v] # <<>>
  /\ Head(operations[v]).kind = kind
  /\ running[v] = "none"
  /\ ~ rejecting[v]

HeadClient(v) == Head(operations[v]).client
HeadRequest(v) == target[HeadClient(v)][2]

Settle(v) == operations' = [operations EXCEPT ![v] = Tail(@)]

\* Mutant: joins without looking whether the request entry exists.
JoinUnguarded(v) ==
  /\ Ready(v, "acquire")
  /\ LET c == HeadClient(v)
         r == HeadRequest(v)
     IN /\ venueEntries[v] # NoHandlers
        /\ refCount' = [refCount EXCEPT ![v][r] = @ + 1]
        /\ listeners' = [listeners EXCEPT ![v][r] = @ \cup {c}]
        /\ phase' = [phase EXCEPT ![c] = "held"]
  /\ Settle(v)
  /\ UNCHANGED <<adapterVars, venueEntries, running, dropping, rejecting,
                 target, disposer, failures>>

\* acquire of a request somebody already holds.
JoinEntry(v) ==
  /\ Ready(v, "acquire")
  /\ LET c == HeadClient(v)
         r == HeadRequest(v)
     IN /\ refCount[v][r] > 0
        /\ refCount' = [refCount EXCEPT ![v][r] = @ + 1]
        /\ listeners' = [listeners EXCEPT ![v][r] = @ \cup {c}]
        /\ phase' = [phase EXCEPT ![c] = "held"]
  /\ Settle(v)
  /\ UNCHANGED <<adapterVars, venueEntries, running, dropping, rejecting,
                 target, disposer, failures>>

\* acquire of a request nobody holds, up to its await: the venue entry is
\* created when missing, and the adapter counts the subscription.
SubscribeUpstream(v) ==
  /\ Ready(v, "acquire")
  /\ LET r == HeadRequest(v)
     IN /\ refCount[v][r] = 0
        /\ \E h \in Handlers :
             /\ IF venueEntries[v] = NoHandlers
                THEN handlerRefCounts[v][h] = 0   \* a new object
                ELSE h = venueEntries[v]
             /\ venueEntries' = [venueEntries EXCEPT ![v] = h]
             /\ CountSubscribe(v, r, h)
        /\ running' = [running EXCEPT ![v] =
             IF FirstReference(v, r) THEN "subscribing" ELSE "subscribed"]
  /\ UNCHANGED <<wire, refCount, listeners, operations, dropping, rejecting,
                 phase, target, disposer, failures>>

\* adapter.subscribe resolves: the request entry is stored with one reference.
Subscribed(v) ==
  /\ running[v] \in {"subscribing", "subscribed"}
  /\ LET c == HeadClient(v)
         r == HeadRequest(v)
     IN /\ wire' = IF running[v] = "subscribing"
                   THEN [wire EXCEPT ![v] = @ \cup {r}] ELSE wire
        /\ refCount' = [refCount EXCEPT ![v][r] = 1]
        /\ listeners' = [listeners EXCEPT ![v][r] = {c}]
        /\ phase' = [phase EXCEPT ![c] = "held"]
  /\ running' = [running EXCEPT ![v] = "none"]
  /\ Settle(v)
  /\ UNCHANGED <<requestRefCounts, handlerRefCounts, venueEntries, dropping,
                 rejecting, target, disposer, failures>>

\* subscribeChain rejects: neither the adapter's counts nor the venue entry
\* are taken back, and the rejection reaches whatever was queued behind.
SubscribeRejected(v) ==
  /\ running[v] = "subscribing"
  /\ failures < MaxFailures
  /\ failures' = failures + 1
  /\ phase' = [phase EXCEPT ![HeadClient(v)] = "free"]
  /\ running' = [running EXCEPT ![v] = "none"]
  /\ rejecting' = [rejecting EXCEPT ![v] = Len(operations[v]) > 1]
  /\ Settle(v)
  /\ UNCHANGED <<adapterVars, venueEntries, refCount, listeners, dropping,
                 target, disposer>>

\* previous.then(operation) on a rejected promise never calls the operation.
SkipRejected(v) ==
  /\ rejecting[v]
  /\ LET op == Head(operations[v])
     IN /\ phase' = IF op.kind = "dispose" THEN phase
                    ELSE [phase EXCEPT ![op.client] =
                            CASE @ = "acquiring" -> "free"
                              [] @ = "releasing" -> "stranded"
                              [] OTHER -> "free"]
        /\ disposer' = IF op.kind = "dispose" THEN "failed" ELSE disposer
  /\ rejecting' = [rejecting EXCEPT ![v] = Len(operations[v]) > 1]
  /\ Settle(v)
  /\ UNCHANGED <<adapterVars, venueEntries, refCount, listeners, running,
                 dropping, target, failures>>

\* release when dispose has removed the venue entry: nothing to do.
ReleaseNothing(v) ==
  /\ Ready(v, "release")
  /\ \/ venueEntries[v] = NoHandlers
     \/ refCount[v][HeadRequest(v)] = 0
  /\ phase' = [phase EXCEPT ![HeadClient(v)] = "free"]
  /\ Settle(v)
  /\ UNCHANGED <<adapterVars, venueEntries, refCount, listeners, running,
                 dropping, rejecting, target, disposer, failures>>

\* Mutant: off by one, the next to last release counts as the last.
LastHolderEarly(v, r) == refCount[v][r] \in {1, 2}

\* This release brings the count to zero.
LastHolder(v, r) == refCount[v][r] = 1

\* release while others hold the request.
ReleaseShared(v) ==
  /\ Ready(v, "release")
  /\ venueEntries[v] # NoHandlers
  /\ LET c == HeadClient(v)
         r == HeadRequest(v)
     IN /\ refCount[v][r] > 0
        /\ ~ LastHolder(v, r)
        /\ refCount' = [refCount EXCEPT ![v][r] = @ - 1]
        /\ listeners' = [listeners EXCEPT ![v][r] = @ \ {c}]
        /\ phase' = [phase EXCEPT ![c] = "free"]
  /\ Settle(v)
  /\ UNCHANGED <<adapterVars, venueEntries, running, dropping, rejecting,
                 target, disposer, failures>>

\* release by the last holder, up to the await of upstreamRelease.
ReleaseLast(v) ==
  /\ Ready(v, "release")
  /\ venueEntries[v] # NoHandlers
  /\ LET c == HeadClient(v)
         r == HeadRequest(v)
     IN /\ LastHolder(v, r)
        /\ refCount' = [refCount EXCEPT ![v][r] = 0]
        /\ listeners' = [listeners EXCEPT ![v][r] = {}]
        /\ phase' = [phase EXCEPT ![c] = "draining"]
        /\ CountRelease(v, {r}, venueEntries[v])
        /\ dropping' = [dropping EXCEPT ![v] = LastReferences(v, {r})]
  /\ running' = [running EXCEPT ![v] = "unsubscribing"]
  /\ UNCHANGED <<wire, venueEntries, operations, rejecting, target, disposer,
                 failures>>

\* dispose's operation, up to its await: the entry goes at once, with every
\* request entry, and every upstream release is started.
DisposeVenue(v) ==
  /\ Ready(v, "dispose")
  /\ venueEntries[v] # NoHandlers
  /\ LET R == {r \in Requests : refCount[v][r] > 0}
     IN /\ CountRelease(v, R, venueEntries[v])
        /\ dropping' = [dropping EXCEPT ![v] = LastReferences(v, R)]
  /\ venueEntries' = [venueEntries EXCEPT ![v] = NoHandlers]
  /\ refCount' = [refCount EXCEPT ![v] = [r \in Requests |-> 0]]
  /\ listeners' = [listeners EXCEPT ![v] = [r \in Requests |-> {}]]
  /\ phase' = [c \in Clients |->
       IF target[c][1] # v THEN phase[c]
       ELSE CASE phase[c] = "held" -> "orphaned"
              [] phase[c] = "releasing" -> "draining"
              [] phase[c] = "stranded" -> "free"
              [] OTHER -> phase[c]]
  /\ running' = [running EXCEPT ![v] = "unsubscribing"]
  /\ UNCHANGED <<wire, operations, rejecting, target, disposer, failures>>

\* dispose's operation on a venue whose last holder left in the meantime.
DisposeNothing(v) ==
  /\ Ready(v, "dispose")
  /\ venueEntries[v] = NoHandlers
  /\ Settle(v)
  /\ UNCHANGED <<adapterVars, venueEntries, refCount, listeners, running,
                 dropping, rejecting, phase, target, disposer, failures>>

\* upstreamRelease resolves: the venue entry goes with its last request entry.
Unsubscribed(v) ==
  /\ running[v] = "unsubscribing"
  /\ wire' = [wire EXCEPT ![v] = @ \ dropping[v]]
  /\ dropping' = [dropping EXCEPT ![v] = {}]
  /\ venueEntries' = [venueEntries EXCEPT ![v] =
       IF \A r \in Requests : refCount[v][r] = 0 THEN NoHandlers ELSE @]
  /\ phase' = IF Head(operations[v]).kind = "release"
              THEN [phase EXCEPT ![HeadClient(v)] = "free"] ELSE phase
  /\ running' = [running EXCEPT ![v] = "none"]
  /\ Settle(v)
  /\ UNCHANGED <<requestRefCounts, handlerRefCounts, refCount, listeners,
                 rejecting, target, disposer, failures>>
-----------------------------------------------------------------------------
\* One step of the chain of v: the event loop and the adapter's promises.
ChainStep(v) ==
  \/ JoinEntry(v)
  \/ SubscribeUpstream(v)
  \/ Subscribed(v)
  \/ SubscribeRejected(v)
  \/ SkipRejected(v)
  \/ ReleaseNothing(v)
  \/ ReleaseShared(v)
  \/ ReleaseLast(v)
  \/ DisposeVenue(v)
  \/ DisposeNothing(v)
  \/ Unsubscribed(v)

Next ==
  \/ \E c \in Clients : Acquire(c) \/ Release(c)
  \/ DisposeCall \/ DisposeReturn
  \/ \E v \in Venues : DisposeVisit(v) \/ ChainStep(v)

Spec == Init /\ [][Next]_vars

\* Microtasks always run.  Nothing is assumed of the adapter's network: a
\* connect whose socket neither opens nor fails never settles.
FairSpec ==
  /\ Spec
  /\ \A v \in Venues : WF_vars(~ AwaitsAdapter(v) /\ ChainStep(v))
  /\ WF_vars(DisposeReturn \/ \E v \in Venues : DisposeVisit(v))
-----------------------------------------------------------------------------
(* Properties *)

\* The clients that refCount counts: release has not run for them.
Holders(v, r) ==
  {c \in Clients : /\ target[c] = <<v, r>>
                   /\ phase[c] \in {"held", "releasing", "stranded"}}

(* refCount counts exactly the clients whose release has not run, and      *)
(* exactly their listeners are registered: nobody is dropped with another's*)
(* release, nobody stays after its own (acquire and release, lines 73-153).*)
RefCountExactAt(v) ==
  \A r \in Requests :
    /\ listeners[v][r] = Holders(v, r)
    /\ refCount[v][r] = Cardinality(Holders(v, r))

RefCountExact == \A v \in Venues : RefCountExactAt(v)

\* At rest, the adapter's counts agree with the coordinator's: one reference
\* for a request in use, none otherwise, and one handlers object per venue
\* entry in use, so that an update reaches a listener once and not twice.
AdapterAgrees ==
  \A v \in Venues :
    running[v] = "none" =>
      /\ \A r \in Requests :
           requestRefCounts[v][r] = IF refCount[v][r] > 0 THEN 1 ELSE 0
      /\ deltaHandlers(v) = IF \E r \in Requests : refCount[v][r] > 0
                            THEN {venueEntries[v]} ELSE {}

\* A client that owns a handle is streamed: its request is on the wire.
HeldIsFed == \A c \in Clients :
  phase[c] = "held" => target[c][2] \in wire[target[c][1]]

\* The coordinator implements SharedFeed.
Feed == INSTANCE SharedFeed WITH
  Topics <- Venues \X Requests,
  holders <- {<<c, target[c]>> : c \in {d \in Clients : phase[d] = "held"}},
  fed <- {t \in Venues \X Requests : t[2] \in wire[t[1]]}

SharedFeedSpec == Feed!Spec

\* A call of c on venue v is not settled.
Waits(c, v) ==
  /\ target[c][1] = v
  /\ phase[c] \in {"acquiring", "releasing", "draining"}

\* A call only ever waits for the adapter of its own venue: unless one of that
\* adapter's calls is never answered, it settles, with a handle, with its work
\* done or with an error.  Another venue that hangs does not hold it up, nor
\* do a dispose that hangs there, rejections and what is queued before it.
CallsSettle == \A c \in Clients, v \in Venues :
  []<>(~ AwaitsAdapter(v)) => (Waits(c, v) ~> ~ Waits(c, v))

-----------------------------------------------------------------------------
(* Why RefCountExact holds: an inductive invariant that implies it *)

IsCall(op) == op.kind # "dispose"

\* Every queued call is of a client of this venue, in the phase of the call.
QueuePhases(v) ==
  \A i \in DOMAIN operations[v] :
    IsCall(operations[v][i]) =>
      /\ target[operations[v][i].client][1] = v
      /\ operations[v][i].kind = "acquire" =>
           phase[operations[v][i].client] = "acquiring"
      /\ operations[v][i].kind = "release" =>
           phase[operations[v][i].client] \in {"releasing", "draining"}

\* A client has one call queued at a time.
OneCallEach(v) ==
  \A i, j \in DOMAIN operations[v] :
    (i # j /\ IsCall(operations[v][i]) /\ IsCall(operations[v][j])) =>
      operations[v][i].client # operations[v][j].client

\* What the head waits for fits the head, and an acquire only waits for the
\* adapter on a request nobody holds.
HeadFits(v) ==
  /\ rejecting[v] => operations[v] # <<>> /\ running[v] = "none"
  /\ running[v] # "none" => operations[v] # <<>>
  /\ running[v] \in {"subscribing", "subscribed"} =>
       /\ Head(operations[v]).kind = "acquire"
       /\ refCount[v][HeadRequest(v)] = 0
       /\ venueEntries[v] # NoHandlers
  /\ running[v] = "unsubscribing" =>
       /\ Head(operations[v]).kind # "acquire"
       /\ Head(operations[v]).kind = "release" => phase[HeadClient(v)] = "draining"

\* A venue in use has its entry.
UsedHasEntry(v) ==
  \A r \in Requests : refCount[v][r] > 0 => venueEntries[v] # NoHandlers

\* No acquire is queued behind a dispose.
DisposeIsLast(v) ==
  \A i \in DOMAIN operations[v] :
    operations[v][i].kind = "dispose" =>
      /\ disposer # "idle"
      /\ \A j \in DOMAIN operations[v] : j > i => operations[v][j].kind # "acquire"

\* Nothing of v is in use, and nothing will be.
Closed(v) ==
  /\ disposer # "idle"
  /\ \A r \in Requests : refCount[v][r] = 0
  /\ \A i \in DOMAIN operations[v] : operations[v][i].kind # "acquire"

\* The head of v's chain is c's release, and it waits for the adapter.
DrainingHead(v, c) ==
  /\ running[v] = "unsubscribing"
  /\ Head(operations[v]).kind = "release"
  /\ HeadClient(v) = c

\* Clients that lost their entry to dispose are clients of a closed venue.
LostToDispose(v) ==
  \A c \in Clients :
    /\ target[c][1] = v
    /\ \/ phase[c] = "orphaned"
       \/ phase[c] = "draining" /\ ~ DrainingHead(v, c)
    => Closed(v)

VenueInv(v) ==
  /\ QueuePhases(v)
  /\ OneCallEach(v)
  /\ HeadFits(v)
  /\ UsedHasEntry(v)
  /\ DisposeIsLast(v)
  /\ LostToDispose(v)
  /\ RefCountExactAt(v)

\* RefCountExact alone is not inductive: a release must be known to find its
\* own client among the holders, dispose included.
IInv == TypeOK /\ \A v \in Venues : VenueInv(v)
=============================================================================
