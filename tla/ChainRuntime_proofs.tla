------------------------- MODULE ChainRuntime_proofs -------------------------
(***************************************************************************)
(* ChainRuntime's safety properties, for any venues, contracts, listeners, *)
(* limit of pending deltas and number of updates.                          *)
(***************************************************************************)
EXTENDS ChainRuntime, TLAPS

-----------------------------------------------------------------------------
(* The chains and events the steps build *)

\* What the venues answer is a chain.
LEMMA FetchType ==
  ASSUME TypeOK
  PROVE  FetchChains \in [Contracts -> Quote]
BY DEF TypeOK, FetchChains, Quote

\* The rows of two chains make a chain.
LEMMA MergeType ==
  ASSUME NEW s \in Snapshot, NEW S, NEW chain \in [Contracts -> Quote]
  PROVE  MergeStrikes(s, S, chain) \in [Contracts -> Quote]
BY DEF MergeStrikes, Snapshot

\* There is no snapshot before the first, and that is one too.
LEMMA NoSnapshotType == NoSnapshot \in Snapshot /\ EmptyChain \in [Contracts -> Quote]
BY DEF NoSnapshot, EmptyChain, Snapshot, Quote, Absent

\* What loading a snapshot leaves, whoever asked for it.
LEMMA LoadType ==
  ASSUME TypeOK, NEW chain \in [Contracts -> Quote], NEW cutoff \in Nat,
         LoadSnapshot(chain, cutoff)
  PROVE  /\ pendingBySymbol' \in [Contracts -> [quote : Nat, version : Nat]]
         /\ needsResync' = FALSE
         /\ contracts' = chain
         /\ currentSnapshot' \in Snapshot /\ seq' \in Nat
         /\ currentSnapshot'.seq = seq' /\ currentSnapshot'.chain = chain
         /\ mirror' \in [Listeners -> Snapshot]
<1>1. NoDelta \in [quote : Nat, version : Nat]
  BY DEF NoDelta
<1>2. pendingBySymbol' \in [Contracts -> [quote : Nat, version : Nat]]
  BY <1>1 DEF LoadSnapshot, TypeOK
<1>3. /\ currentSnapshot' \in Snapshot /\ seq' \in Nat
      /\ currentSnapshot'.seq = seq' /\ currentSnapshot'.chain = chain
  BY DEF LoadSnapshot, TypeOK, Snapshot
<1>4. mirror' \in [Listeners -> Snapshot]
  BY <1>3 DEF LoadSnapshot, BroadcastSnapshot, Receive, TypeOK
<1>. QED  BY <1>2, <1>3, <1>4 DEF LoadSnapshot
-----------------------------------------------------------------------------
(* Types *)

\* A build that is there at once, or one in flight, keeps the types.
LEMMA BuildNowType ==
  ASSUME TypeOK, BuildNow
  PROVE  /\ pendingBySymbol' \in [Contracts -> [quote : Nat, version : Nat]]
         /\ needsResync' \in BOOLEAN
         /\ contracts' \in [Contracts -> Quote]
         /\ currentSnapshot' \in Snapshot /\ seq' \in Nat
         /\ mirror' \in [Listeners -> Snapshot]
         /\ builds' \subseteq Build /\ snapshotBuildVersion' \in Nat
<1>1. FetchChains \in [Contracts -> Quote] /\ pendingDeltaVersion \in Nat
  BY FetchType DEF TypeOK
<1>2. LoadSnapshot(FetchChains, pendingDeltaVersion)
  BY DEF BuildNow
<1>3. builds' \subseteq Build /\ snapshotBuildVersion' \in Nat
  BY DEF BuildNow, TypeOK
<1>. QED  BY <1>1, <1>2, <1>3, LoadType

LEMMA BuildLaterType ==
  ASSUME TypeOK, BuildLater
  PROVE  builds' \subseteq Build /\ snapshotBuildVersion' \in Nat
BY FetchType DEF BuildLater, TypeOK, Build

\* The step that sends a patch keeps the types.
LEMMA PushDeltaType ==
  ASSUME TypeOK, PushDelta
  PROVE  /\ pendingBySymbol' \in [Contracts -> [quote : Nat, version : Nat]]
         /\ contracts' \in [Contracts -> Quote]
         /\ currentSnapshot' \in Snapshot /\ seq' \in Nat
         /\ mirror' \in [Listeners -> Snapshot]
<1>. DEFINE S == {c[2] : c \in Pending}
<1>1. contracts' \in [Contracts -> Quote]
  BY DEF PushDelta, TypeOK, Quote
<1>2. pendingBySymbol' \in [Contracts -> [quote : Nat, version : Nat]]
  BY DEF PushDelta, NoDelta
<1>3. seq' \in Nat /\ seq' = seq + 1
  BY DEF PushDelta, TypeOK
<1>4. currentSnapshot' \in Snapshot
  <2>1. MergeStrikes(currentSnapshot, S, contracts') \in [Contracts -> Quote]
    BY <1>1, MergeType DEF TypeOK
  <2>2. [seq |-> seq + 1, chain |-> MergeStrikes(currentSnapshot, S, contracts')] \in Snapshot
    BY <2>1, <1>3 DEF Snapshot
  <2>. QED  BY <2>2, NoSnapshotType DEF PushDelta
<1>5. mirror' \in [Listeners -> Snapshot]
  <2>1. ASSUME NEW l \in Listeners
        PROVE  [seq |-> seq + 1, chain |-> MergeStrikes(mirror[l], S, contracts')] \in Snapshot
    <3>1. MergeStrikes(mirror[l], S, contracts') \in [Contracts -> Quote]
      BY <1>1, MergeType DEF TypeOK
    <3>. QED  BY <3>1, <1>3 DEF Snapshot
  <2>. QED  BY <2>1 DEF PushDelta, BroadcastDelta, Receive, TypeOK
<1>. QED  BY <1>1, <1>2, <1>3, <1>4, <1>5

\* A batch of deltas is not ours, is too much, or waits for the timer.
LEMMA DeltasCases ==
  ASSUME TypeOK, NEW v \in Venues, NEW S \in SUBSET Strikes, Deltas(v, S)
  PROVE  \/ v \notin attached /\ UNCHANGED deltaVars
         \/ v \in attached /\ Overflow
         \/ /\ v \in attached
            /\ pendingDeltaVersion' = pendingDeltaVersion + 1
            /\ pendingBySymbol' = [c \in Contracts |->
                 IF c \notin {v} \X S THEN pendingBySymbol[c]
                 ELSE [quote |-> quoteStore'[c], version |-> pendingDeltaVersion + 1]]
            /\ UNCHANGED needsResync
BY DEF Deltas, MergeDelta

\* A batch of deltas keeps the types.
LEMMA DeltasType ==
  ASSUME TypeOK, NEW v \in Venues, NEW S \in SUBSET Strikes, Deltas(v, S)
  PROVE  TypeOK'
<1>. DEFINE batch == {v} \X S
<1>1. quoteStore' \in [Contracts -> Nat]
  BY DEF Deltas, TypeOK
<1>2. NoDelta \in [quote : Nat, version : Nat]
  BY DEF NoDelta
<1>3. /\ pendingBySymbol' \in [Contracts -> [quote : Nat, version : Nat]]
      /\ pendingDeltaVersion' \in Nat /\ needsResync' \in BOOLEAN
  <2>1. CASE v \notin attached /\ UNCHANGED deltaVars
    BY <2>1 DEF TypeOK, deltaVars
  <2>2. CASE v \in attached /\ Overflow
    BY <2>2, <1>2 DEF TypeOK, Overflow
  <2>3. CASE /\ pendingDeltaVersion' = pendingDeltaVersion + 1
             /\ pendingBySymbol' = [c \in Contracts |->
                  IF c \notin batch THEN pendingBySymbol[c]
                  ELSE [quote |-> quoteStore'[c], version |-> pendingDeltaVersion + 1]]
             /\ UNCHANGED needsResync
    BY <2>3, <1>1 DEF TypeOK
  <2>. QED  BY <2>1, <2>2, <2>3, DeltasCases
<1>. QED  BY <1>1, <1>3 DEF Deltas, TypeOK, handleVars, buildVars, streamVars

\* Every step keeps the types.
LEMMA TypeStep ==
  ASSUME TypeOK, [Next]_vars
  PROVE  TypeOK'
<1>. USE DEF venueVars, handleVars, deltaVars, buildVars, streamVars
<1>1. ASSUME NEW v \in Venues, Acquired(v) PROVE TypeOK'
  BY <1>1 DEF Acquired, TypeOK
<1>2. ASSUME NEW v \in Venues, AcquireRejected(v) PROVE TypeOK'
  BY <1>2 DEF AcquireRejected, TypeOK
<1>3. CASE LateReleased
  BY <1>3 DEF LateReleased, TypeOK
<1>4. CASE InitializeStops
  BY <1>4 DEF InitializeStops, TypeOK
<1>5. CASE FirstBuild
  <2>1. CASE BuildNow /\ phase' = "running" /\ pushTimer' = TRUE
    BY <1>5, <2>1, BuildNowType DEF FirstBuild, TypeOK
  <2>2. CASE BuildLater /\ phase' = "building" /\ UNCHANGED <<deltaVars, streamVars, pushTimer>>
    BY <1>5, <2>2, BuildLaterType DEF FirstBuild, TypeOK
  <2>. QED  BY <1>5, <2>1, <2>2 DEF FirstBuild
<1>6. CASE Resync
  <2>1. CASE BuildNow
    BY <1>6, <2>1, BuildNowType DEF Resync, TypeOK
  <2>2. CASE BuildLater /\ needsResync' = FALSE /\ UNCHANGED <<pendingBySymbol, streamVars>>
    BY <1>6, <2>2, BuildLaterType DEF Resync, TypeOK
  <2>. QED  BY <1>6, <2>1, <2>2 DEF Resync
<1>7. CASE PushDelta
  BY <1>7, PushDeltaType DEF PushDelta, TypeOK
<1>8. CASE PushUnknown
  <2>1. CASE BuildNow
    BY <1>8, <2>1, BuildNowType DEF PushUnknown, TypeOK
  <2>2. CASE BuildLater /\ ~ BuildNow
    <3>1. pendingBySymbol' \in [Contracts -> [quote : Nat, version : Nat]]
      BY <1>8, <2>2 DEF PushUnknown, NoDelta
    <3>2. contracts' \in [Contracts -> Quote]
      <4>1. PICK A \in SUBSET {c \in Pending : contracts[c] # Absent} :
              contracts' = [c \in Contracts |->
                IF c \in A THEN pendingBySymbol[c].quote ELSE contracts[c]]
        BY <1>8, <2>2 DEF PushUnknown
      <4>. QED  BY <4>1 DEF TypeOK, Quote
    <3>. QED  BY <1>8, <2>2, <3>1, <3>2, BuildLaterType DEF PushUnknown, TypeOK
  <2>. QED  BY <1>8, <2>1, <2>2 DEF PushUnknown
<1>9. ASSUME NEW b \in builds, BuildDone(b) PROVE TypeOK'
  <2>1. b \in Build /\ b.cutoff \in Nat /\ b.chain \in [Contracts -> Quote]
    BY DEF TypeOK, Build
  <2>2. CASE UNCHANGED <<pendingBySymbol, needsResync, streamVars>>
    BY <1>9, <2>2 DEF BuildDone, TypeOK
  <2>3. ASSUME NEW chain \in {b.chain, FetchChains}, LoadSnapshot(chain, b.cutoff)
        PROVE  TypeOK'
    <3>1. chain \in [Contracts -> Quote]
      BY <2>1, FetchType
    <3>2. /\ pendingBySymbol' \in [Contracts -> [quote : Nat, version : Nat]]
          /\ needsResync' \in BOOLEAN
          /\ contracts' \in [Contracts -> Quote]
          /\ currentSnapshot' \in Snapshot /\ seq' \in Nat
          /\ mirror' \in [Listeners -> Snapshot]
      BY <2>1, <2>3, <3>1, LoadType
    <3>. QED  BY <1>9, <3>2 DEF BuildDone, TypeOK
  <2>. QED  BY <1>9, <2>2, <2>3 DEF BuildDone
<1>10. ASSUME NEW v \in Venues, NEW S \in SUBSET Strikes, Deltas(v, S) PROVE TypeOK'
  BY <1>10, DeltasType
<1>11. ASSUME NEW c \in Contracts, ListContract(c) PROVE TypeOK'
  BY <1>11 DEF ListContract, TypeOK
<1>12. ASSUME NEW l \in Listeners, Subscribe(l) PROVE TypeOK'
  BY <1>12 DEF Subscribe, TypeOK
<1>13. ASSUME NEW l \in Listeners, Unsubscribe(l) PROVE TypeOK'
  BY <1>13 DEF Unsubscribe, TypeOK
<1>14. CASE DisposeCall
  BY <1>14 DEF DisposeCall, TypeOK
<1>15. CASE DisposeDone
  BY <1>15, NoSnapshotType DEF DisposeDone, TypeOK, NoDelta
<1>16. ASSUME NEW v \in Venues, Released(v) PROVE TypeOK'
  BY <1>16 DEF Released, TypeOK
<1>17. CASE UNCHANGED vars
  BY <1>17 DEF vars, TypeOK
<1>. QED
  BY <1>1, <1>2, <1>3, <1>4, <1>5, <1>6, <1>7, <1>8, <1>9, <1>10, <1>11, <1>12,
     <1>13, <1>14, <1>15, <1>16, <1>17 DEF Next, Initialize, Tick
-----------------------------------------------------------------------------
(* Handles *)

\* No step lets go of an attached venue without somebody to release it.
LEMMA HandlesStep ==
  ASSUME HandlesInv, [Next]_vars
  PROVE  HandlesInv'
<1>. USE DEF HandlesInv, handleVars
<1>1. ASSUME NEW v \in Venues, Acquired(v) PROVE HandlesInv'
  BY <1>1 DEF Acquired
<1>2. ASSUME NEW v \in Venues, AcquireRejected(v) PROVE HandlesInv'
  BY <1>2 DEF AcquireRejected
<1>3. CASE LateReleased
  BY <1>3 DEF LateReleased
<1>4. CASE InitializeStops
  BY <1>4 DEF InitializeStops
<1>5. CASE FirstBuild
  BY <1>5 DEF FirstBuild
<1>6. CASE Tick
  BY <1>6 DEF Tick, Resync, PushDelta, PushUnknown
<1>7. ASSUME NEW b \in builds, BuildDone(b) PROVE HandlesInv'
  BY <1>7 DEF BuildDone
<1>8. ASSUME NEW v \in Venues, NEW S \in SUBSET Strikes, Deltas(v, S) PROVE HandlesInv'
  BY <1>8 DEF Deltas
<1>9. ASSUME NEW c \in Contracts, ListContract(c) PROVE HandlesInv'
  BY <1>9 DEF ListContract
<1>10. ASSUME NEW l \in Listeners, Subscribe(l) \/ Unsubscribe(l) PROVE HandlesInv'
  BY <1>10 DEF Subscribe, Unsubscribe
<1>11. CASE DisposeCall
  BY <1>11 DEF DisposeCall
<1>12. CASE DisposeDone
  BY <1>12 DEF DisposeDone
<1>13. ASSUME NEW v \in Venues, Released(v) PROVE HandlesInv'
  BY <1>13 DEF Released
<1>14. CASE UNCHANGED vars
  BY <1>14 DEF vars
<1>. QED
  BY <1>1, <1>2, <1>3, <1>4, <1>5, <1>6, <1>7, <1>8, <1>9, <1>10, <1>11, <1>12,
     <1>13, <1>14 DEF Next, Initialize
-----------------------------------------------------------------------------
(* Phases *)

\* Every step keeps the timer, the builds and the first snapshot in order.
LEMMA PhaseStep ==
  ASSUME TypeOK, PhaseInv, [Next]_vars
  PROVE  PhaseInv'
<1>. USE DEF PhaseInv, venueVars, handleVars, deltaVars, buildVars, streamVars
<1>1. ASSUME NEW v \in Venues, Acquired(v) \/ AcquireRejected(v) \/ Released(v)
      PROVE  PhaseInv'
  BY <1>1 DEF Acquired, AcquireRejected, Released
<1>2. CASE LateReleased \/ InitializeStops
  BY <1>2 DEF LateReleased, InitializeStops
<1>3. ASSUME BuildNow PROVE /\ currentSnapshot'.seq = seq + 1 /\ seq' = seq + 1
                            /\ builds' = builds
  BY <1>3 DEF BuildNow, LoadSnapshot
<1>4. BuildLater => slow
  BY DEF BuildLater
<1>5. CASE FirstBuild
  BY <1>3, <1>4, <1>5 DEF FirstBuild, TypeOK
<1>6. CASE Resync
  BY <1>3, <1>4, <1>6 DEF Resync, Ticks, TypeOK
<1>7. CASE PushDelta
  <2>1. currentSnapshot'.seq <= seq'
    BY <1>7 DEF PushDelta, NoSnapshot, TypeOK, Snapshot
  <2>2. currentSnapshot.seq > 0 => currentSnapshot'.seq > 0
    BY <1>7 DEF PushDelta, NoSnapshot, TypeOK, Snapshot
  <2>. QED  BY <1>7, <2>1, <2>2 DEF PushDelta
<1>8. CASE PushUnknown
  BY <1>3, <1>4, <1>8 DEF PushUnknown, Ticks, TypeOK
<1>9. ASSUME NEW b \in builds, BuildDone(b) PROVE PhaseInv'
  <2>1. currentSnapshot'.seq <= seq'
    BY <1>9 DEF BuildDone, LoadSnapshot, TypeOK
  <2>. QED  BY <1>9, <2>1 DEF BuildDone, TypeOK
<1>10. ASSUME NEW v \in Venues, NEW S \in SUBSET Strikes, Deltas(v, S) PROVE PhaseInv'
  <2>1. \A c \in Contracts : quoteStore'[c] > 0 => c \in listed
    BY <1>10 DEF Deltas, TypeOK
  <2>. QED  BY <1>10, <2>1 DEF Deltas
<1>11. ASSUME NEW c \in Contracts, ListContract(c) PROVE PhaseInv'
  BY <1>11 DEF ListContract
<1>12. ASSUME NEW l \in Listeners, Subscribe(l) \/ Unsubscribe(l) PROVE PhaseInv'
  BY <1>12 DEF Subscribe, Unsubscribe
<1>13. CASE DisposeCall
  BY <1>13 DEF DisposeCall
<1>14. CASE DisposeDone
  BY <1>14 DEF DisposeDone, NoSnapshot, TypeOK
<1>15. CASE UNCHANGED vars
  BY <1>15 DEF vars
<1>. QED
  BY <1>1, <1>2, <1>5, <1>6, <1>7, <1>8, <1>9, <1>10, <1>11, <1>12, <1>13, <1>14,
     <1>15 DEF Next, Initialize, Tick
-----------------------------------------------------------------------------
(* Deltas that wait *)

\* Every step that leaves the waiting deltas alone, or forgets some of them,
\* keeps what is known of the rest.
LEMMA PendingKept ==
  ASSUME TypeOK, PendingInv,
         \A c \in Contracts : pendingBySymbol'[c] \in {pendingBySymbol[c], NoDelta},
         pendingDeltaVersion' = pendingDeltaVersion,
         quoteStore' = quoteStore,
         disposed' = "no" => disposed = "no" /\ attached \subseteq attached'
  PROVE  PendingInv'
BY DEF PendingInv, NoDelta, TypeOK

\* Every step keeps the waiting deltas the newest of their contracts.
LEMMA PendingStep ==
  ASSUME TypeOK, HandlesInv, PendingInv, [Next]_vars
  PROVE  PendingInv'
<1>. USE DEF venueVars, handleVars, deltaVars, buildVars, streamVars
<1>0. ASSUME NEW chain, NEW cutoff, LoadSnapshot(chain, cutoff)
      PROVE  \A c \in Contracts : pendingBySymbol'[c] \in {pendingBySymbol[c], NoDelta}
  BY <1>0 DEF LoadSnapshot
<1>1. ASSUME NEW v \in Venues, Acquired(v) \/ AcquireRejected(v) PROVE PendingInv'
  BY <1>1, PendingKept DEF Acquired, AcquireRejected
<1>2. CASE LateReleased \/ InitializeStops
  BY <1>2, PendingKept DEF LateReleased, InitializeStops, HandlesInv
<1>3. CASE FirstBuild \/ Tick
  <2>1. \A c \in Contracts : pendingBySymbol'[c] \in {pendingBySymbol[c], NoDelta}
    BY <1>0, <1>3 DEF FirstBuild, Tick, Resync, PushDelta, PushUnknown, BuildNow
  <2>. QED  BY <1>3, <2>1, PendingKept DEF FirstBuild, Tick, Resync, PushDelta, PushUnknown
<1>4. ASSUME NEW b \in builds, BuildDone(b) PROVE PendingInv'
  <2>1. \A c \in Contracts : pendingBySymbol'[c] \in {pendingBySymbol[c], NoDelta}
    BY <1>0, <1>4 DEF BuildDone
  <2>. QED  BY <1>4, <2>1, PendingKept DEF BuildDone
<1>5. ASSUME NEW v \in Venues, NEW S \in SUBSET Strikes, Deltas(v, S) PROVE PendingInv'
  <2>1. /\ \A c \in Contracts : c \notin {v} \X S => quoteStore'[c] = quoteStore[c]
        /\ \A c \in {v} \X S : c[1] = v
        /\ UNCHANGED <<attached, disposed>>
    BY <1>5 DEF Deltas
  <2>2. CASE v \notin attached /\ UNCHANGED deltaVars
    BY <2>1, <2>2 DEF PendingInv
  <2>3. CASE v \in attached /\ Overflow
    BY <2>1, <2>3 DEF PendingInv, Overflow, NoDelta, TypeOK
  <2>4. CASE /\ v \in attached
             /\ pendingDeltaVersion' = pendingDeltaVersion + 1
             /\ pendingBySymbol' = [c \in Contracts |->
                  IF c \notin {v} \X S THEN pendingBySymbol[c]
                  ELSE [quote |-> quoteStore'[c], version |-> pendingDeltaVersion + 1]]
    BY <2>1, <2>4 DEF PendingInv, TypeOK
  <2>. QED  BY <1>5, <2>2, <2>3, <2>4, DeltasCases
<1>6. ASSUME NEW c \in Contracts, ListContract(c) PROVE PendingInv'
  BY <1>6, PendingKept DEF ListContract
<1>7. ASSUME NEW l \in Listeners, Subscribe(l) \/ Unsubscribe(l) PROVE PendingInv'
  BY <1>7, PendingKept DEF Subscribe, Unsubscribe
<1>8. CASE DisposeCall \/ DisposeDone
  BY <1>8, PendingKept DEF DisposeCall, DisposeDone
<1>9. ASSUME NEW v \in Venues, Released(v) PROVE PendingInv'
  BY <1>9, PendingKept DEF Released, HandlesInv
<1>10. CASE UNCHANGED vars
  BY <1>10, PendingKept DEF vars
<1>. QED
  BY <1>1, <1>2, <1>3, <1>4, <1>5, <1>6, <1>7, <1>8, <1>9, <1>10
  DEF Next, Initialize
-----------------------------------------------------------------------------
(* What is published *)

\* A snapshot built at once is what the venues have now, and nothing waits.
LEMMA BuildNowFacts ==
  ASSUME TypeOK, PendingInv, BuildNow
  PROVE  /\ contracts' = FetchChains
         /\ currentSnapshot' = [seq |-> seq + 1, chain |-> FetchChains]
         /\ seq' = seq + 1
         /\ \A c \in Contracts : pendingBySymbol'[c] = NoDelta
BY DEF BuildNow, LoadSnapshot, PendingInv

\* A patch brings every waiting quote into the published chain.
LEMMA PushDeltaFacts ==
  ASSUME TypeOK, PhaseInv, PendingInv, ChainInv, ~ slow, PushDelta
  PROVE  /\ currentSnapshot # NoSnapshot
         /\ currentSnapshot'.seq = seq + 1
         /\ currentSnapshot'.chain = contracts'
         /\ \A c \in Contracts : contracts'[c] =
              IF c \in Pending THEN quoteStore[c] ELSE contracts[c]
<1>. DEFINE S == {c[2] : c \in Pending}
<1>1. disposed = "no" /\ currentSnapshot.seq > 0
  BY DEF PushDelta, Ticks, PhaseInv
<1>2. currentSnapshot # NoSnapshot
  BY <1>1 DEF NoSnapshot
<1>3. contracts' = [c \in Contracts |-> IF c \in Pending THEN quoteStore[c] ELSE contracts[c]]
  BY <1>1 DEF PushDelta, Pending, PendingInv
<1>4. currentSnapshot' = [seq |-> seq + 1, chain |-> MergeStrikes(currentSnapshot, S, contracts')]
  BY <1>2 DEF PushDelta
<1>5. MergeStrikes(currentSnapshot, S, contracts') = contracts'
  BY <1>1, <1>3 DEF MergeStrikes, ChainInv
<1>. QED  BY <1>2, <1>3, <1>4, <1>5

\* Every step keeps the published chain the projection's and behind the venues.
LEMMA ChainStep ==
  ASSUME TypeOK, PhaseInv, PendingInv, ChainInv, [Next]_vars
  PROVE  ChainInv'
<1>. USE DEF venueVars, handleVars, deltaVars, buildVars, streamVars
<1>. SUFFICES ASSUME ~ slow', disposed' = "no"
              PROVE  ChainInv'
  BY DEF ChainInv
<1>1. ASSUME contracts' = contracts, currentSnapshot' = currentSnapshot,
             quoteStore' = quoteStore, slow' = slow, listed \subseteq listed',
             disposed = "no"
      PROVE  ChainInv'
  BY <1>1 DEF ChainInv
<1>2. ASSUME BuildNow, UNCHANGED venueVars PROVE ChainInv'
  BY <1>2, BuildNowFacts DEF ChainInv, FetchChains, Absent, TypeOK
<1>3. BuildLater => slow
  BY DEF BuildLater
<1>4. ASSUME NEW v \in Venues, Acquired(v) \/ AcquireRejected(v) \/ Released(v)
      PROVE  ChainInv'
  BY <1>1, <1>4 DEF Acquired, AcquireRejected, Released
<1>5. CASE LateReleased \/ InitializeStops
  BY <1>1, <1>5 DEF LateReleased, InitializeStops
<1>6. CASE FirstBuild
  BY <1>2, <1>3, <1>6 DEF FirstBuild
<1>7. CASE Resync \/ PushUnknown
  BY <1>2, <1>3, <1>7 DEF Resync, PushUnknown
<1>8. CASE PushDelta
  <2>1. ~ slow /\ disposed = "no" /\ UNCHANGED venueVars
    BY <1>8 DEF PushDelta
  <2>2. /\ currentSnapshot'.chain = contracts'
        /\ \A c \in Contracts : contracts'[c] =
             IF c \in Pending THEN quoteStore[c] ELSE contracts[c]
    BY <1>8, <2>1, PushDeltaFacts
  <2>3. \A c \in Pending : contracts[c] # Absent
    BY <1>8 DEF PushDelta
  <2>. QED  BY <2>1, <2>2, <2>3 DEF ChainInv, TypeOK
<1>9. ASSUME NEW b \in builds, BuildDone(b) PROVE ChainInv'
  BY <1>9 DEF BuildDone, PhaseInv
<1>10. ASSUME NEW v \in Venues, NEW S \in SUBSET Strikes, Deltas(v, S) PROVE ChainInv'
  <2>1. \A c \in Contracts : quoteStore[c] <= quoteStore'[c]
    BY <1>10 DEF Deltas, TypeOK
  <2>2. /\ contracts' = contracts /\ currentSnapshot' = currentSnapshot
        /\ slow' = slow /\ listed' = listed /\ disposed = "no"
    BY <1>10 DEF Deltas
  <2>3. \A c \in Contracts : contracts[c] \in Int /\ quoteStore[c] \in Int /\ quoteStore'[c] \in Int
    BY <1>10 DEF TypeOK, Quote, Absent, Deltas
  <2>. QED  BY <2>1, <2>2, <2>3 DEF ChainInv
<1>11. ASSUME NEW c \in Contracts, ListContract(c) PROVE ChainInv'
  BY <1>1, <1>11 DEF ListContract
<1>12. ASSUME NEW l \in Listeners, Subscribe(l) \/ Unsubscribe(l) PROVE ChainInv'
  BY <1>1, <1>12 DEF Subscribe, Unsubscribe
<1>13. ~ (DisposeCall \/ DisposeDone)
  BY DEF DisposeCall, DisposeDone
<1>14. CASE UNCHANGED vars
  BY <1>1, <1>14 DEF vars
<1>. QED
  BY <1>4, <1>5, <1>6, <1>7, <1>8, <1>9, <1>10, <1>11, <1>12, <1>13, <1>14
  DEF Next, Initialize, Tick
-----------------------------------------------------------------------------
(* Listeners *)

\* A listener that has the published snapshot has the next one too, whether it
\* comes whole or as a patch.
LEMMA MirrorsStep ==
  ASSUME TypeOK, PhaseInv, MirrorsAgree, [Next]_vars
  PROVE  MirrorsAgree'
<1>. USE DEF venueVars, handleVars, deltaVars, buildVars, streamVars
<1>1. ASSUME UNCHANGED <<mirror, currentSnapshot>>, listeners' \subseteq listeners,
             disposed' = "no" => disposed = "no"
      PROVE  MirrorsAgree'
  BY <1>1 DEF MirrorsAgree
<1>2. ASSUME NEW chain, NEW cutoff, LoadSnapshot(chain, cutoff), disposed = "no",
             listeners' = listeners
      PROVE  MirrorsAgree'
  <2>1. /\ currentSnapshot'.seq = seq + 1
        /\ currentSnapshot.seq < currentSnapshot'.seq
    BY <1>2 DEF LoadSnapshot, PhaseInv, TypeOK, Snapshot
  <2>2. ASSUME NEW l \in listeners PROVE mirror'[l] = currentSnapshot'
    <3>1. l \in Listeners /\ mirror[l] = currentSnapshot
      BY <1>2 DEF TypeOK, MirrorsAgree
    <3>2. mirror'[l] = Receive(currentSnapshot, currentSnapshot')
      BY <1>2, <3>1 DEF LoadSnapshot, BroadcastSnapshot
    <3>3. ~ (currentSnapshot'.seq <= currentSnapshot.seq)
      BY <2>1 DEF TypeOK, Snapshot
    <3>. QED  BY <3>2, <3>3 DEF Receive
  <2>. QED  BY <1>2, <2>2 DEF MirrorsAgree
<1>3. ASSUME NEW v \in Venues, Acquired(v) \/ AcquireRejected(v) \/ Released(v)
      PROVE  MirrorsAgree'
  BY <1>1, <1>3 DEF Acquired, AcquireRejected, Released
<1>4. CASE LateReleased \/ InitializeStops
  BY <1>1, <1>4 DEF LateReleased, InitializeStops
<1>5. CASE FirstBuild
  BY <1>1, <1>2, <1>5 DEF FirstBuild, BuildNow
<1>6. CASE Resync
  BY <1>1, <1>2, <1>6 DEF Resync, Ticks, BuildNow
<1>7. CASE PushDelta
  <2>. DEFINE S == {c[2] : c \in Pending}
  <2>1. disposed = "no" /\ disposed' = "no" /\ listeners' = listeners
    BY <1>7 DEF PushDelta, Ticks
  <2>2. ASSUME NEW l \in listeners PROVE mirror'[l] = currentSnapshot'
    <3>1. l \in Listeners /\ mirror[l] = currentSnapshot
      BY <2>1 DEF TypeOK, MirrorsAgree
    <3>2. CASE currentSnapshot = NoSnapshot
      BY <1>7, <3>1, <3>2 DEF PushDelta, BroadcastDelta
    <3>3. CASE currentSnapshot # NoSnapshot
      <4>. DEFINE event == [seq |-> seq + 1, chain |-> MergeStrikes(currentSnapshot, S, contracts')]
      <4>1. mirror'[l] = Receive(currentSnapshot, event)
        BY <1>7, <3>1, <3>3 DEF PushDelta, BroadcastDelta
      <4>2. ~ (event.seq <= currentSnapshot.seq)
        BY DEF PhaseInv, TypeOK, Snapshot
      <4>3. currentSnapshot' = event
        BY <1>7, <3>3 DEF PushDelta
      <4>. QED  BY <4>1, <4>2, <4>3 DEF Receive
    <3>. QED  BY <3>2, <3>3
  <2>. QED  BY <2>1, <2>2 DEF MirrorsAgree
<1>8. CASE PushUnknown
  BY <1>1, <1>2, <1>8 DEF PushUnknown, Ticks, BuildNow
<1>9. ASSUME NEW b \in builds, BuildDone(b) PROVE MirrorsAgree'
  BY <1>1, <1>2, <1>9 DEF BuildDone
<1>10. ASSUME NEW v \in Venues, NEW S \in SUBSET Strikes, Deltas(v, S) PROVE MirrorsAgree'
  BY <1>1, <1>10 DEF Deltas
<1>11. ASSUME NEW c \in Contracts, ListContract(c) PROVE MirrorsAgree'
  BY <1>1, <1>11 DEF ListContract
<1>12. ASSUME NEW l \in Listeners, Subscribe(l) PROVE MirrorsAgree'
  BY <1>12 DEF Subscribe, MirrorsAgree, TypeOK
<1>13. ASSUME NEW l \in Listeners, Unsubscribe(l) PROVE MirrorsAgree'
  BY <1>1, <1>13 DEF Unsubscribe
<1>14. CASE DisposeCall \/ DisposeDone
  BY <1>14 DEF DisposeCall, DisposeDone, MirrorsAgree
<1>15. CASE UNCHANGED vars
  BY <1>1, <1>15 DEF vars
<1>. QED
  BY <1>3, <1>4, <1>5, <1>6, <1>7, <1>8, <1>9, <1>10, <1>11, <1>12, <1>13, <1>14,
     <1>15 DEF Next, Initialize, Tick
-----------------------------------------------------------------------------
(* No quote is lost *)

\* Every step keeps the newest quote of an attached venue on its way.
LEMMA NothingLostStep ==
  ASSUME TypeOK, HandlesInv, PhaseInv, PendingInv, ChainInv, NothingLost, [Next]_vars
  PROVE  NothingLost'
<1>. USE DEF venueVars, handleVars, deltaVars, buildVars, streamVars
<1>. SUFFICES ASSUME ~ slow', NEW c \in Contracts, Attached(c)'
              PROVE  OnItsWay(c)'
  BY DEF NothingLost
<1>0. slow' = slow
  BY DEF Next, Initialize, Tick, Acquired, AcquireRejected, LateReleased, InitializeStops,
         FirstBuild, Resync, PushDelta, PushUnknown, BuildDone, Deltas, ListContract,
         Subscribe, Unsubscribe, DisposeCall, DisposeDone, Released, vars
<1>1. ASSUME Attached(c), UNCHANGED <<needsResync, pendingBySymbol>>,
             currentSnapshot' = currentSnapshot, quoteStore' = quoteStore
      PROVE  OnItsWay(c)'
  BY <1>0, <1>1 DEF NothingLost, OnItsWay
<1>2. ASSUME BuildNow, UNCHANGED venueVars PROVE OnItsWay(c)'
  <2>1. currentSnapshot'.chain = FetchChains
    BY <1>2, BuildNowFacts
  <2>2. c \in listed => FetchChains[c] = quoteStore[c]
    BY DEF FetchChains
  <2>3. c \notin listed => quoteStore[c] = 0
    BY DEF PhaseInv, TypeOK
  <2>. QED  BY <1>2, <2>1, <2>2, <2>3 DEF OnItsWay
<1>3. ~ BuildLater
  BY <1>0 DEF BuildLater
<1>4. ASSUME NEW v \in Venues, Acquired(v) \/ AcquireRejected(v)
      PROVE  OnItsWay(c)'
  BY <1>4 DEF Acquired, AcquireRejected, Attached
<1>5. ASSUME NEW v \in Venues, Released(v) PROVE OnItsWay(c)'
  BY <1>1, <1>5 DEF Released, Attached
<1>6. CASE LateReleased \/ InitializeStops
  BY <1>6 DEF LateReleased, InitializeStops, HandlesInv, Attached
<1>7. CASE FirstBuild
  BY <1>2, <1>3, <1>7 DEF FirstBuild
<1>8. CASE Resync \/ PushUnknown
  BY <1>2, <1>3, <1>8 DEF Resync, PushUnknown
<1>9. CASE PushDelta
  <2>1. Attached(c) /\ ~ needsResync /\ quoteStore' = quoteStore /\ disposed = "no"
    BY <1>9 DEF PushDelta, Attached
  <2>2. /\ currentSnapshot'.chain = contracts'
        /\ contracts'[c] = IF c \in Pending THEN quoteStore[c] ELSE contracts[c]
    BY <1>0, <1>9, PushDeltaFacts
  <2>3. c \notin Pending => contracts[c] = quoteStore[c] \/ quoteStore[c] = 0
    BY <1>0, <2>1 DEF NothingLost, OnItsWay, Pending, ChainInv
  <2>. QED  BY <2>1, <2>2, <2>3 DEF OnItsWay
<1>10. ASSUME NEW b \in builds, BuildDone(b) PROVE OnItsWay(c)'
  BY <1>0, <1>10 DEF PhaseInv
<1>11. ASSUME NEW v \in Venues, NEW S \in SUBSET Strikes, Deltas(v, S) PROVE OnItsWay(c)'
  <2>1. /\ Attached(c) /\ currentSnapshot' = currentSnapshot
        /\ c \notin {v} \X S => quoteStore'[c] = quoteStore[c]
        /\ c \in {v} \X S => c[1] = v
    BY <1>11 DEF Deltas, Attached
  <2>2. CASE v \notin attached /\ UNCHANGED deltaVars
    <3>1. c \notin {v} \X S
      BY <2>1, <2>2 DEF Attached
    <3>. QED  BY <1>0, <2>1, <2>2, <3>1 DEF OnItsWay, NothingLost
  <2>3. CASE v \in attached /\ Overflow
    BY <2>3 DEF Overflow, OnItsWay
  <2>4. CASE /\ pendingBySymbol' = [d \in Contracts |->
                  IF d \notin {v} \X S THEN pendingBySymbol[d]
                  ELSE [quote |-> quoteStore'[d], version |-> pendingDeltaVersion + 1]]
             /\ UNCHANGED needsResync
    <3>1. CASE c \in {v} \X S
      <4>1. pendingBySymbol'[c] = [quote |-> quoteStore'[c], version |-> pendingDeltaVersion + 1]
        BY <2>4, <3>1
      <4>2. pendingDeltaVersion + 1 # 0
        BY DEF TypeOK
      <4>. QED  BY <4>1, <4>2 DEF OnItsWay, NoDelta
    <3>2. CASE c \notin {v} \X S
      BY <1>0, <2>1, <2>4, <3>2 DEF OnItsWay, NothingLost
    <3>. QED  BY <3>1, <3>2
  <2>. QED  BY <1>11, <2>2, <2>3, <2>4, DeltasCases
<1>12. ASSUME NEW d \in Contracts, ListContract(d) PROVE OnItsWay(c)'
  BY <1>1, <1>12 DEF ListContract, Attached
<1>13. ASSUME NEW l \in Listeners, Subscribe(l) \/ Unsubscribe(l) PROVE OnItsWay(c)'
  BY <1>1, <1>13 DEF Subscribe, Unsubscribe, Attached
<1>14. CASE DisposeCall \/ DisposeDone
  BY <1>14 DEF DisposeCall, DisposeDone, Attached
<1>15. CASE UNCHANGED vars
  BY <1>1, <1>15 DEF vars, Attached
<1>. QED
  BY <1>4, <1>5, <1>6, <1>7, <1>8, <1>9, <1>10, <1>11, <1>12, <1>13, <1>14, <1>15
  DEF Next, Initialize, Tick
-----------------------------------------------------------------------------
(* Theorems *)

\* IInv holds of every runtime, whatever the order of its venues' answers, its
\* deltas, builds, ticks and dispose.
THEOREM Invariance == Spec => []IInv
<1>1. Init => IInv
  <2>. SUFFICES ASSUME Init PROVE IInv
    OBVIOUS
  <2>1. TypeOK
    BY SlowFetchAssumption, NoSnapshotType DEF Init, TypeOK, NoDelta
  <2>2. HandlesInv
    BY DEF Init, HandlesInv
  <2>3. PhaseInv
    BY DEF Init, PhaseInv, NoSnapshot
  <2>4. PendingInv
    BY DEF Init, PendingInv, NoDelta
  <2>5. ChainInv
    BY DEF Init, ChainInv, NoSnapshot, EmptyChain, Absent
  <2>6. MirrorsAgree /\ NothingLost
    BY DEF Init, MirrorsAgree, NothingLost, Attached
  <2>. QED  BY <2>1, <2>2, <2>3, <2>4, <2>5, <2>6 DEF IInv
<1>2. IInv /\ [Next]_vars => IInv'
  BY TypeStep, HandlesStep, PhaseStep, PendingStep, ChainStep, MirrorsStep,
     NothingLostStep DEF IInv
<1>. QED  BY <1>1, <1>2, PTL DEF Spec

\* The runtime's state keeps its types.
THEOREM TypeCorrect == Spec => []TypeOK
<1>1. IInv => TypeOK
  BY DEF IInv
<1>. QED  BY <1>1, Invariance, PTL

\* Every listener's copy is the published snapshot, through any mixture of
\* snapshots and patches.
THEOREM ListenersAgree == Spec => []MirrorsAgree
<1>1. IInv => MirrorsAgree
  BY DEF IInv
<1>. QED  BY <1>1, Invariance, PTL

\* With the SDK adapters no quote of an attached venue is lost on its way to
\* the listeners.
THEOREM NoQuoteLost == Spec => []NothingLost
<1>1. IInv => NothingLost
  BY DEF IInv
<1>. QED  BY <1>1, Invariance, PTL

\* A disposed runtime has left every venue, whether dispose or initialize ends
\* last.
THEOREM NothingStaysAttached == Spec => []NothingLeftBehind
<1>1. IInv => NothingLeftBehind
  BY DEF IInv, HandlesInv, NothingLeftBehind
<1>. QED  BY <1>1, Invariance, PTL

\* With the SDK adapters a published quote is never replaced by an older one.
THEOREM NoQuoteGoesBack == Spec => QuotesNeverGoBack
<1>. DEFINE Forward ==
       ~ slow /\ disposed' # "done" =>
         \A c \in Contracts : currentSnapshot'.chain[c] >= currentSnapshot.chain[c]
<1>1. IInv /\ [Next]_vars => [Forward]_vars
  <2>. SUFFICES ASSUME IInv, [Next]_vars, ~ slow, disposed' # "done", NEW c \in Contracts
                PROVE  currentSnapshot'.chain[c] >= currentSnapshot.chain[c]
    OBVIOUS
  <2>. USE DEF venueVars, handleVars, deltaVars, buildVars, streamVars
  <2>0. currentSnapshot.chain[c] \in Int
    BY DEF IInv, TypeOK, Snapshot, Quote, Absent
  <2>1. CASE currentSnapshot' = currentSnapshot
    BY <2>0, <2>1
  <2>2. ASSUME BuildNow, disposed = "no"
        PROVE  currentSnapshot'.chain[c] >= currentSnapshot.chain[c]
    <3>1. currentSnapshot'.chain = FetchChains
      BY <2>2, BuildNowFacts DEF IInv
    <3>2. currentSnapshot.chain[c] = contracts[c] /\ contracts[c] <= quoteStore[c]
      BY <2>2 DEF IInv, ChainInv
    <3>3. c \notin listed => contracts[c] = Absent
      BY <2>2 DEF IInv, ChainInv
    <3>. QED  BY <2>0, <3>1, <3>2, <3>3 DEF FetchChains, Absent
  <2>3. CASE FirstBuild \/ Resync \/ PushUnknown
    <3>1. ~ BuildLater /\ disposed = "no"
      BY <2>3 DEF BuildLater, FirstBuild, Resync, PushUnknown, Ticks
    <3>. QED  BY <2>2, <2>3, <3>1 DEF FirstBuild, Resync, PushUnknown
  <2>4. CASE PushDelta
    <3>1. disposed = "no"
      BY <2>4 DEF PushDelta, Ticks
    <3>2. /\ currentSnapshot'.chain = contracts'
          /\ contracts'[c] = IF c \in Pending THEN quoteStore[c] ELSE contracts[c]
      BY <2>4, PushDeltaFacts DEF IInv
    <3>. QED  BY <2>0, <3>1, <3>2 DEF IInv, ChainInv
  <2>5. ASSUME NEW b \in builds, BuildDone(b) PROVE FALSE
    BY <2>5 DEF IInv, PhaseInv
  <2>6. ~ DisposeDone
    BY DEF DisposeDone
  <2>. QED
    BY <2>1, <2>3, <2>4, <2>5, <2>6
    DEF Next, Initialize, Tick, Acquired, AcquireRejected, LateReleased,
        InitializeStops, Deltas, ListContract, Subscribe, Unsubscribe, DisposeCall,
        Released, vars
<1>. QED  BY <1>1, Invariance, PTL DEF Spec, QuotesNeverGoBack
=============================================================================
