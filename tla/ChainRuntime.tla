---------------------------- MODULE ChainRuntime ----------------------------
(***************************************************************************)
(* One ChainRuntime (packages/core/src/runtime/chain/chain-runtime.ts) with *)
(* its ChainProjection (projection.ts): it acquires its venues from the     *)
(* coordinator, loads a snapshot of their chains, merges the deltas they    *)
(* push, and publishes a numbered stream of snapshots and patches to its    *)
(* listeners (ChainStreamSession, which drops what is not newer).           *)
(*                                                                         *)
(* A quote is the number of the update that brought it, 0 before the first, *)
(* and a row of the chain is a strike with one contract per venue.          *)
(*                                                                         *)
(* `slow` is the adapter behind OptionVenueAdapter.  The SDK adapters read  *)
(* their quote store when fetchOptionChain is called and resolve at once,   *)
(* so that no message is handled before the build is done: the build is one *)
(* step (slow = FALSE).  An adapter that waits, as those of                 *)
(* chain-runtime.test.ts do, leaves the build in flight (slow = TRUE).      *)
(***************************************************************************)
EXTENDS Integers, FiniteSets

CONSTANTS Venues,      \* the request's registered venues
          Strikes,
          Contracts,   \* the options of the expiry: a venue and a strike each
          Listeners,
          MaxPending,  \* MAX_PENDING_DELTAS
          MaxUpdates,  \* bound: how many quotes each contract gets
          SlowFetch    \* the values of `slow` to consider, a subset of BOOLEAN

ASSUME ContractsAssumption == Contracts \subseteq Venues \X Strikes
ASSUME MaxPendingAssumption == MaxPending \in Nat
ASSUME MaxUpdatesAssumption == MaxUpdates \in [Contracts -> Nat]
ASSUME SlowFetchAssumption == SlowFetch \subseteq BOOLEAN

Absent == -1                      \* no such contract in the chain
Quote == Nat \cup {Absent}
EmptyChain == [c \in Contracts |-> Absent]
NoDelta == [quote |-> 0, version |-> 0]
NoSnapshot == [seq |-> 0, chain |-> EmptyChain]

VARIABLES
  slow,
  quoteStore,   \* [Contracts -> Nat]: the adapters' newest quotes
  listed,       \* the contracts the adapters list
  attached,     \* the venues whose deltas the coordinator passes to us
  phase,        \* of initialize: acquiring, building, running, stopped
  untried,      \* the venues initialize has not asked for
  handles,      \* the venues whose handle is kept
  releasing,    \* the venues whose handle dispose is releasing
  late,         \* the venue whose handle came after dispose, being released
  failedVenues,
  pendingBySymbol,      \* [Contracts -> [quote, version]], NoDelta: no entry
  pendingDeltaVersion,
  needsResync,
  contracts,            \* the projection's contracts, mutated by applyDeltas
  currentSnapshot,
  seq,
  builds,               \* the builds in flight
  snapshotBuildVersion,
  pushTimer,
  disposed,             \* no, disposing, done
  listeners,
  mirror                \* [Listeners -> snapshot]: what a listener has put together

venueVars == <<slow, quoteStore, listed>>
handleVars == <<attached, phase, untried, handles, releasing, late, failedVenues>>
deltaVars == <<pendingBySymbol, pendingDeltaVersion, needsResync>>
buildVars == <<builds, snapshotBuildVersion>>
streamVars == <<contracts, currentSnapshot, seq, mirror>>
vars == <<venueVars, handleVars, deltaVars, buildVars, streamVars, pushTimer,
          disposed, listeners>>

Snapshot == [seq : Nat, chain : [Contracts -> Quote]]
Build == [version : Nat, cutoff : Nat, chain : [Contracts -> Quote]]

TypeOK ==
  /\ slow \in BOOLEAN
  /\ quoteStore \in [Contracts -> Nat]
  /\ listed \subseteq Contracts
  /\ attached \subseteq Venues
  /\ phase \in {"acquiring", "building", "running", "stopped"}
  /\ untried \subseteq Venues /\ handles \subseteq Venues
  /\ releasing \subseteq Venues /\ late \subseteq Venues
  /\ failedVenues \subseteq Venues
  /\ pendingBySymbol \in [Contracts -> [quote : Nat, version : Nat]]
  /\ pendingDeltaVersion \in Nat /\ needsResync \in BOOLEAN
  /\ contracts \in [Contracts -> Quote]
  /\ currentSnapshot \in Snapshot /\ seq \in Nat
  /\ builds \subseteq Build /\ snapshotBuildVersion \in Nat
  /\ pushTimer \in BOOLEAN
  /\ disposed \in {"no", "disposing", "done"}
  /\ listeners \subseteq Listeners
  /\ mirror \in [Listeners -> Snapshot]

Init ==
  /\ slow \in SlowFetch
  /\ quoteStore = [c \in Contracts |-> 0]
  /\ listed \in SUBSET Contracts
  /\ attached = {} /\ phase = "acquiring" /\ untried = Venues
  /\ handles = {} /\ releasing = {} /\ late = {} /\ failedVenues = {}
  /\ pendingBySymbol = [c \in Contracts |-> NoDelta]
  /\ pendingDeltaVersion = 0 /\ needsResync = FALSE
  /\ contracts = EmptyChain /\ currentSnapshot = NoSnapshot /\ seq = 0
  /\ builds = {} /\ snapshotBuildVersion = 0
  /\ pushTimer = FALSE /\ disposed = "no"
  /\ listeners = {} /\ mirror = [l \in Listeners |-> NoSnapshot]
-----------------------------------------------------------------------------
(* initialize: one venue after the other *)

\* The coordinator grants the venue: from here its deltas reach us.
Acquired(v) ==
  /\ phase = "acquiring" /\ v \in untried
  /\ attached' = attached \cup {v}
  /\ IF disposed = "no"
     THEN untried' = untried \ {v} /\ handles' = handles \cup {v} /\ late' = late
     ELSE untried' = {} /\ handles' = handles /\ late' = {v}
  /\ UNCHANGED <<venueVars, phase, releasing, failedVenues, deltaVars,
                 buildVars, streamVars, pushTimer, disposed, listeners>>

AcquireRejected(v) ==
  /\ phase = "acquiring" /\ v \in untried
  /\ failedVenues' = failedVenues \cup {v}
  /\ untried' = IF disposed = "no" THEN untried \ {v} ELSE {}
  /\ UNCHANGED <<venueVars, attached, phase, handles, releasing, late, deltaVars,
                 buildVars, streamVars, pushTimer, disposed, listeners>>

\* The release of a handle that came too late has settled.
LateReleased ==
  /\ late # {}
  /\ attached' = attached \ late
  /\ late' = {}
  /\ UNCHANGED <<venueVars, phase, untried, handles, releasing, failedVenues,
                 deltaVars, buildVars, streamVars, pushTimer, disposed, listeners>>

\* initialize returns without a snapshot.
InitializeStops ==
  /\ phase = "acquiring" /\ untried = {} /\ late = {}
  /\ disposed # "no"
  /\ phase' = "stopped"
  /\ UNCHANGED <<venueVars, attached, untried, handles, releasing, late,
                 failedVenues, deltaVars, buildVars, streamVars, pushTimer,
                 disposed, listeners>>
-----------------------------------------------------------------------------
(* The stream *)

\* The rows of the strikes S are replaced by those of `chain`.
MergeStrikes(snapshot, S, chain) ==
  [c \in Contracts |-> IF c[2] \in S THEN chain[c] ELSE snapshot.chain[c]]

\* Mutant: off by one, the next event is taken for an old one.
ReceiveOffByOne(snapshot, event) ==
  IF event.seq <= snapshot.seq + 1 THEN snapshot ELSE event

\* What is not newer than the last event sent is dropped.
Receive(snapshot, event) ==
  IF event.seq <= snapshot.seq THEN snapshot ELSE event

\* broadcast of a snapshot.
BroadcastSnapshot(event) ==
  mirror' = [l \in Listeners |->
    IF l \in listeners THEN Receive(mirror[l], event) ELSE mirror[l]]

\* broadcast of a delta: a listener without a snapshot has nothing to patch.
BroadcastDelta(n, S, chain) ==
  mirror' = [l \in Listeners |->
    IF l \in listeners /\ mirror[l] # NoSnapshot
    THEN Receive(mirror[l], [seq |-> n, chain |-> MergeStrikes(mirror[l], S, chain)])
    ELSE mirror[l]]

Pending == {c \in Contracts : pendingBySymbol[c] # NoDelta}

\* Mutant: the contracts are built without looking up their quotes.
FetchChainsUnquoted == [c \in Contracts |-> IF c \in listed THEN 0 ELSE Absent]

\* fetchOptionChain of every venue of the request, attached or not.
FetchChains == [c \in Contracts |-> IF c \in listed THEN quoteStore[c] ELSE Absent]

\* buildSnapshot once the chains are there: the deltas they already include
\* are dropped, and the snapshot is published.
LoadSnapshot(chain, cutoff) ==
  /\ pendingBySymbol' = [c \in Contracts |->
       IF pendingBySymbol[c].version <= cutoff THEN NoDelta ELSE pendingBySymbol[c]]
  /\ needsResync' = FALSE
  /\ contracts' = chain
  /\ seq' = seq + 1
  /\ currentSnapshot' = [seq |-> seq + 1, chain |-> chain]
  /\ BroadcastSnapshot(currentSnapshot')

\* buildSnapshot with chains that are there at once.
BuildNow ==
  /\ ~ slow
  /\ snapshotBuildVersion' = snapshotBuildVersion + 1
  /\ LoadSnapshot(FetchChains, pendingDeltaVersion)
  /\ UNCHANGED builds

\* buildSnapshot up to its await.
BuildLater ==
  /\ slow
  /\ snapshotBuildVersion' = snapshotBuildVersion + 1
  /\ builds' = builds \cup
       {[version |-> snapshotBuildVersion + 1, cutoff |-> pendingDeltaVersion,
         chain |-> FetchChains]}

\* initialize's own build, and the timer when it is done.
FirstBuild ==
  /\ phase = "acquiring" /\ untried = {} /\ late = {}
  /\ disposed = "no"
  /\ \/ BuildNow /\ phase' = "running" /\ pushTimer' = TRUE
     \/ BuildLater /\ phase' = "building" /\ UNCHANGED <<deltaVars, streamVars, pushTimer>>
  /\ UNCHANGED <<venueVars, attached, untried, handles, releasing, late,
                 failedVenues, pendingDeltaVersion, disposed, listeners>>

\* A build in flight ends: it counts when it is the newest.  An adapter may
\* have read its quotes at any time since the call.  initialize installs the
\* timer without looking at `disposed` again.
BuildDone(b) ==
  /\ b \in builds
  /\ builds' = builds \ {b}
  /\ IF disposed # "no" \/ b.version # snapshotBuildVersion
     THEN UNCHANGED <<pendingBySymbol, needsResync, streamVars>>
     ELSE \E chain \in {b.chain, FetchChains} : LoadSnapshot(chain, b.cutoff)
  /\ phase' = IF phase = "building" THEN "running" ELSE phase
  /\ pushTimer' = IF phase = "building" THEN TRUE ELSE pushTimer
  /\ UNCHANGED <<venueVars, attached, untried, handles, releasing, late,
                 failedVenues, pendingDeltaVersion, snapshotBuildVersion,
                 disposed, listeners>>
-----------------------------------------------------------------------------
(* Deltas *)

\* mergeDelta: a delta of an SDK adapter carries the whole quote.
MergeDelta(left, quote) == quote

\* Mutant: overflow forgets the deltas and asks for nothing.
OverflowForgets ==
  /\ pendingBySymbol' = [c \in Contracts |-> NoDelta]
  /\ UNCHANGED <<needsResync, pendingDeltaVersion>>

\* Too many deltas are waiting: forget them all and load a snapshot instead.
Overflow ==
  /\ pendingBySymbol' = [c \in Contracts |-> NoDelta]
  /\ needsResync' = TRUE
  /\ UNCHANGED pendingDeltaVersion

\* Venue v sends new quotes for some strikes; when we are attached they reach
\* onDelta in one batch (which takes one version here), disposed or not.
Deltas(v, S) ==
  LET batch == {v} \X S
  IN /\ batch \subseteq listed
     /\ \A c \in batch : quoteStore[c] < MaxUpdates[c]
     /\ quoteStore' = [c \in Contracts |->
          IF c \in batch THEN quoteStore[c] + 1 ELSE quoteStore[c]]
     /\ IF v \notin attached THEN UNCHANGED deltaVars
        ELSE IF Cardinality(Pending) + Cardinality(batch) > MaxPending THEN Overflow
        ELSE /\ pendingDeltaVersion' = pendingDeltaVersion + 1
             /\ pendingBySymbol' = [c \in Contracts |->
                  IF c \notin batch THEN pendingBySymbol[c]
                  ELSE [quote |-> MergeDelta(pendingBySymbol[c], quoteStore'[c]),
                        version |-> pendingDeltaVersion + 1]]
             /\ UNCHANGED needsResync
     /\ UNCHANGED <<slow, listed, handleVars, buildVars, streamVars, pushTimer,
                    disposed, listeners>>

\* A venue lists a new contract of this expiry.
ListContract(c) ==
  /\ c \notin listed
  /\ listed' = listed \cup {c}
  /\ UNCHANGED <<slow, quoteStore, handleVars, deltaVars, buildVars, streamVars,
                 pushTimer, disposed, listeners>>
-----------------------------------------------------------------------------
(* The push timer *)

Ticks == pushTimer /\ disposed = "no"

\* The timer after an overflow.
Resync ==
  /\ Ticks /\ needsResync
  /\ \/ BuildNow
     \/ BuildLater /\ needsResync' = FALSE /\ UNCHANGED <<pendingBySymbol, streamVars>>
  /\ UNCHANGED <<venueVars, handleVars, pendingDeltaVersion, pushTimer, disposed,
                 listeners>>

\* pushDelta: every pending delta is applied, and the rows of their strikes
\* are published.
PushDelta ==
  /\ Ticks /\ ~ needsResync
  /\ Pending # {}
  /\ \A c \in Pending : contracts[c] # Absent
  /\ pendingBySymbol' = [c \in Contracts |-> NoDelta]
  /\ contracts' = [c \in Contracts |->
       IF c \in Pending THEN pendingBySymbol[c].quote ELSE contracts[c]]
  /\ seq' = seq + 1
  /\ LET S == {c[2] : c \in Pending}
     IN /\ currentSnapshot' = IF currentSnapshot = NoSnapshot THEN NoSnapshot
             ELSE [seq |-> seq + 1, chain |-> MergeStrikes(currentSnapshot, S, contracts')]
        /\ BroadcastDelta(seq + 1, S, contracts')
  /\ UNCHANGED <<venueVars, handleVars, pendingDeltaVersion, needsResync,
                 buildVars, pushTimer, disposed, listeners>>

\* Mutant: without the rebuild, a delta of an unknown contract is swallowed.
PushUnknownSwallowed ==
  /\ Ticks /\ ~ needsResync
  /\ \E c \in Pending : contracts[c] = Absent
  /\ pendingBySymbol' = [c \in Contracts |-> NoDelta]
  /\ UNCHANGED <<venueVars, handleVars, pendingDeltaVersion, needsResync, builds,
                 snapshotBuildVersion, streamVars, pushTimer, disposed, listeners>>

\* pushDelta meets a contract the projection does not have: the deltas before
\* it are in the projection's contracts, and a snapshot is built instead.
PushUnknown ==
  /\ Ticks /\ ~ needsResync
  /\ \E c \in Pending : contracts[c] = Absent
  /\ \/ BuildNow
     \/ /\ BuildLater
        /\ pendingBySymbol' = [c \in Contracts |-> NoDelta]
        /\ \E A \in SUBSET {c \in Pending : contracts[c] # Absent} :
             contracts' = [c \in Contracts |->
               IF c \in A THEN pendingBySymbol[c].quote ELSE contracts[c]]
        /\ UNCHANGED <<needsResync, currentSnapshot, seq, mirror>>
  /\ UNCHANGED <<venueVars, handleVars, pendingDeltaVersion, pushTimer, disposed,
                 listeners>>
-----------------------------------------------------------------------------
(* Listeners and the end *)

\* A session that has awaited ready() is attached and sent the snapshot.
Subscribe(l) ==
  /\ phase \in {"running", "stopped"}
  /\ l \notin listeners
  /\ listeners' = listeners \cup {l}
  /\ mirror' = [mirror EXCEPT ![l] = currentSnapshot]
  /\ UNCHANGED <<venueVars, handleVars, deltaVars, buildVars, contracts,
                 currentSnapshot, seq, pushTimer, disposed>>

Unsubscribe(l) ==
  /\ l \in listeners
  /\ listeners' = listeners \ {l}
  /\ UNCHANGED <<venueVars, handleVars, deltaVars, buildVars, streamVars,
                 pushTimer, disposed>>

\* dispose up to its await.
DisposeCall ==
  /\ disposed = "no"
  /\ disposed' = "disposing"
  /\ pushTimer' = FALSE
  /\ releasing' = handles /\ handles' = {}
  /\ UNCHANGED <<venueVars, attached, phase, untried, late, failedVenues,
                 deltaVars, buildVars, streamVars, listeners>>

Released(v) ==
  /\ v \in releasing
  /\ releasing' = releasing \ {v}
  /\ attached' = attached \ {v}
  /\ UNCHANGED <<venueVars, phase, untried, handles, late, failedVenues,
                 deltaVars, buildVars, streamVars, pushTimer, disposed, listeners>>

DisposeDone ==
  /\ disposed = "disposing" /\ releasing = {}
  /\ disposed' = "done"
  /\ listeners' = {}
  /\ pendingBySymbol' = [c \in Contracts |-> NoDelta]
  /\ currentSnapshot' = NoSnapshot
  /\ UNCHANGED <<venueVars, handleVars, pendingDeltaVersion, needsResync, buildVars,
                 contracts, seq, mirror, pushTimer>>
-----------------------------------------------------------------------------
Initialize ==
  \/ \E v \in Venues : Acquired(v) \/ AcquireRejected(v)
  \/ LateReleased \/ InitializeStops \/ FirstBuild

Tick == Resync \/ PushDelta \/ PushUnknown

Next ==
  \/ Initialize \/ Tick
  \/ \E b \in builds : BuildDone(b)
  \/ \E v \in Venues, S \in SUBSET Strikes \ {{}} : Deltas(v, S)
  \/ \E c \in Contracts : ListContract(c)
  \/ \E l \in Listeners : Subscribe(l) \/ Unsubscribe(l)
  \/ DisposeCall \/ DisposeDone \/ \E v \in Venues : Released(v)

Spec == Init /\ [][Next]_vars

\* The timer fires and microtasks run.  That the coordinator's calls settle is
\* not assumed.
FairSpec == Spec /\ WF_vars(FirstBuild) /\ WF_vars(Tick)
-----------------------------------------------------------------------------
(* Properties *)

\* A listener's patched copy is the runtime's snapshot: no event is missed,
\* and the rows of a patch are all the rows that changed.
MirrorsAgree ==
  disposed = "no" =>
    \A l \in listeners : mirror[l] = currentSnapshot

\* The newest quote of c is on its way to the listeners.
OnItsWay(c) ==
  \/ needsResync
  \/ pendingBySymbol[c] # NoDelta /\ pendingBySymbol[c].quote = quoteStore[c]
  \/ currentSnapshot.chain[c] = quoteStore[c]
  \/ quoteStore[c] = 0

Attached(c) == phase = "running" /\ disposed = "no" /\ c[1] \in attached

\* No quote of an attached venue is lost between onDelta, the overflow of
\* pendingBySymbol, the rebuild and the push.
NothingLost == ~ slow => \A c \in Contracts : Attached(c) => OnItsWay(c)

\* A contract is never shown with an older quote than before.
QuotesNeverGoBack ==
  [][~ slow /\ disposed' # "done" =>
       \A c \in Contracts : currentSnapshot'.chain[c] >= currentSnapshot.chain[c]]_vars

\* When dispose and the acquiring part of initialize are over, no venue
\* delivers to this runtime, whichever of the two was overtaken by the other.
NothingLeftBehind ==
  disposed = "done" /\ phase # "acquiring" => attached = {}

\* What a venue sends is shown, or something newer, within some ticks, once
\* every venue has been granted or refused: initialize takes one venue after
\* the other, and one that is never answered keeps the rest from being shown.
EventuallyShown == \A c \in Contracts : \A n \in 1 .. MaxUpdates[c] :
  <>(untried = {}) =>
    ((~ slow /\ Attached(c) /\ quoteStore[c] = n) ~>
       (disposed # "no" \/ currentSnapshot.chain[c] >= n))

-----------------------------------------------------------------------------
(* Why the safety properties hold: an inductive invariant that implies them *)

\* Whatever is attached is held by one of those who will release it.
HandlesInv ==
  /\ attached = handles \cup releasing \cup late
  /\ untried \cap attached = {}
  /\ late \cap (handles \cup releasing) = {}
  /\ late # {} => untried = {} /\ phase = "acquiring"
  /\ disposed = "no" => releasing = {} /\ late = {}
  /\ disposed # "no" => handles = {}
  /\ disposed = "done" => releasing = {}
  /\ untried # {} => phase = "acquiring"

\* The timer runs after the first build; without slow adapters no build is
\* ever in flight, and the first one leaves a snapshot.
PhaseInv ==
  /\ pushTimer => phase = "running"
  /\ currentSnapshot.seq <= seq
  /\ ~ slow => builds = {} /\ phase # "building"
  /\ ~ slow /\ disposed = "no" /\ phase = "running" => currentSnapshot.seq > 0
  /\ \A c \in Contracts : quoteStore[c] > 0 => c \in listed

\* A delta that waits is the newest of its contract, and the venue that sent
\* it is attached.
PendingInv ==
  \A c \in Contracts :
    /\ pendingBySymbol[c].version <= pendingDeltaVersion
    /\ disposed = "no" /\ pendingBySymbol[c] # NoDelta =>
         c[1] \in attached /\ pendingBySymbol[c].quote = quoteStore[c]

\* The published chain is the projection's, and is never ahead of the venues.
ChainInv ==
  ~ slow /\ disposed = "no" =>
    /\ currentSnapshot.chain = contracts
    /\ \A c \in Contracts : contracts[c] <= quoteStore[c]
    /\ \A c \in Contracts : contracts[c] # Absent => c \in listed

IInv ==
  /\ TypeOK
  /\ HandlesInv
  /\ PhaseInv
  /\ PendingInv
  /\ ChainInv
  /\ MirrorsAgree
  /\ NothingLost
=============================================================================
