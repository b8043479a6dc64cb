-------------------- MODULE SubscriptionCoordinator_proofs --------------------
(***************************************************************************)
(* SubscriptionCoordinator keeps its types, and its reference counts are   *)
(* exact, for any venues, requests, clients and handlers.                  *)
(***************************************************************************)
EXTENDS SubscriptionCoordinator, SequenceTheorems, FiniteSetTheorems, TLAPS

-----------------------------------------------------------------------------
(* Queues *)

\* What an operation appended to a queue leaves alone.
LEMMA AppendFacts ==
  ASSUME NEW q \in Seq(Operation), NEW op \in Operation
  PROVE  /\ Append(q, op) \in Seq(Operation)
         /\ Append(q, op) # <<>>
         /\ DOMAIN q = 1 .. Len(q) /\ Len(q) \in Nat
         /\ DOMAIN Append(q, op) = 1 .. (Len(q) + 1)
         /\ \A i \in DOMAIN q : Append(q, op)[i] = q[i]
         /\ Append(q, op)[Len(q) + 1] = op
         /\ q # <<>> => Head(Append(q, op)) = Head(q)
<1>1. DOMAIN q = 1 .. Len(q) /\ Len(q) \in Nat
  BY LenProperties
<1>2. /\ Append(q, op) \in Seq(Operation)
      /\ Append(q, op) # <<>>
      /\ Len(Append(q, op)) = Len(q) + 1
      /\ \A i \in 1 .. Len(q) : Append(q, op)[i] = q[i]
      /\ Append(q, op)[Len(q) + 1] = op
  BY AppendProperties
<1>3. DOMAIN Append(q, op) = 1 .. (Len(q) + 1)
  BY <1>2, LenProperties
<1>4. q # <<>> => Head(Append(q, op)) = Head(q)
  BY <1>1, <1>2, HeadTailProperties, EmptySeq
<1>. QED  BY <1>1, <1>2, <1>3, <1>4

\* The queue after its head has settled: everything moves up.
LEMMA TailFacts ==
  ASSUME NEW q \in Seq(Operation), q # <<>>
  PROVE  /\ Tail(q) \in Seq(Operation)
         /\ Head(q) \in Operation /\ Head(q) = q[1]
         /\ Len(q) \in Nat \ {0} /\ DOMAIN q = 1 .. Len(q) /\ 1 \in DOMAIN q
         /\ DOMAIN Tail(q) = 1 .. (Len(q) - 1)
         /\ \A i \in DOMAIN Tail(q) : i + 1 \in DOMAIN q /\ Tail(q)[i] = q[i + 1]
  OBVIOUS
\* Something is queued behind the head of a queue longer than one.
LEMMA TailNotEmpty ==
  ASSUME NEW q \in Seq(Operation), q # <<>>, Len(q) > 1
  PROVE  Tail(q) # <<>>
<1>1. Tail(q) \in Seq(Operation) /\ Len(Tail(q)) = Len(q) - 1 /\ Len(q) \in Nat
  BY HeadTailProperties, LenProperties
<1>2. Len(Tail(q)) # 0
  BY <1>1
<1>. QED  BY <1>1, <1>2, EmptySeq, Zenon
-----------------------------------------------------------------------------
(* Types *)

\* The adapter's bookkeeping keeps the types of its counts.
LEMMA CountReleaseType ==
  ASSUME TypeOK, NEW v \in Venues, NEW h \in Handlers, NEW R \in SUBSET Requests,
         CountRelease(v, R, h)
  PROVE  /\ handlerRefCounts' \in [Venues -> [Handlers -> Nat]]
         /\ requestRefCounts' \in [Venues -> [Requests -> Nat]]
<1>1. Cardinality(R) \in Nat
  BY RequestsAssumption, FS_Subset, FS_CardinalityType
<1>2. handlerRefCounts' \in [Venues -> [Handlers -> Nat]]
  BY <1>1 DEF CountRelease, TypeOK, AdapterTypeOK
<1>3. requestRefCounts' \in [Venues -> [Requests -> Nat]]
  BY DEF CountRelease, TypeOK, AdapterTypeOK, Less
<1>. QED  BY <1>2, <1>3

\* The head of a chain that runs or is rejected is a well-formed operation.
LEMMA HeadType ==
  ASSUME TypeOK, NEW v \in Venues, operations[v] # <<>>
  PROVE  /\ Head(operations[v]) \in Operation
         /\ Head(operations[v]).kind \in {"acquire", "release", "dispose"}
         /\ Head(operations[v]).kind # "dispose" =>
              /\ HeadClient(v) \in Clients
              /\ HeadRequest(v) \in Requests
<1>1. operations[v] \in Seq(Operation)
  BY DEF TypeOK
<1>2. Head(operations[v]) \in Operation
  BY <1>1, TailFacts
<1>. QED  BY <1>2 DEF Operation, HeadClient, HeadRequest, TypeOK

\* A settled operation leaves a queue of operations.
LEMMA SettleType ==
  ASSUME TypeOK, NEW v \in Venues, operations[v] # <<>>, Settle(v)
  PROVE  operations' \in [Venues -> Seq(Operation)]
<1>1. Tail(operations[v]) \in Seq(Operation)
  BY TailFacts DEF TypeOK
<1>. QED  BY <1>1 DEF Settle, TypeOK

\* An operation is appended to a queue of operations.
LEMMA EnqueueType ==
  ASSUME TypeOK, NEW v \in Venues, NEW op \in Operation, Enqueue(v, op)
  PROVE  operations' \in [Venues -> Seq(Operation)]
<1>1. Append(operations[v], op) \in Seq(Operation)
  BY AppendProperties DEF TypeOK
<1>. QED  BY <1>1 DEF Enqueue, TypeOK

\* The flag that a rejection reaches a next operation is a Boolean.
LEMMA LastType ==
  ASSUME TypeOK, NEW v \in Venues
  PROVE  [rejecting EXCEPT ![v] = Len(operations[v]) > 1] \in [Venues -> BOOLEAN]
<1>1. (Len(operations[v]) > 1) \in BOOLEAN
  OBVIOUS
<1>2. ASSUME NEW b \in BOOLEAN PROVE [rejecting EXCEPT ![v] = b] \in [Venues -> BOOLEAN]
  BY DEF TypeOK
<1>. QED  BY <1>1, <1>2, Zenon

\* TypeOK is inductive once the heads of running chains are known to exist.
LEMMA TypeStep ==
  ASSUME TypeOK, \A v \in Venues : HeadFits(v), [Next]_vars
  PROVE  TypeOK'
<1>. USE DEF TypeOK, AdapterTypeOK, adapterVars
<1>1. ASSUME NEW c \in Clients, Acquire(c) PROVE TypeOK'
  <2>1. target[c][1] \in Venues /\ [kind |-> "acquire", client |-> c] \in Operation
    BY DEF Operation
  <2>2. operations' \in [Venues -> Seq(Operation)]
    BY <1>1, <2>1, EnqueueType DEF Acquire
  <2>. QED  BY <1>1, <2>2 DEF Acquire, Phase
<1>2. ASSUME NEW c \in Clients, Release(c) PROVE TypeOK'
  <2>1. target[c][1] \in Venues /\ [kind |-> "release", client |-> c] \in Operation
    BY DEF Operation
  <2>2. operations' \in [Venues -> Seq(Operation)]
    BY <1>2, <2>1, EnqueueType DEF Release
  <2>. QED  BY <1>2, <2>2 DEF Release, Phase
<1>3. CASE DisposeCall
  BY <1>3 DEF DisposeCall
<1>4. CASE DisposeReturn
  BY <1>4 DEF DisposeReturn
<1>5. ASSUME NEW v \in Venues, DisposeVisit(v) PROVE TypeOK'
  <2>1. [kind |-> "dispose"] \in Operation
    BY DEF Operation
  <2>2. operations' \in [Venues -> Seq(Operation)]
    BY <1>5, <2>1, EnqueueType DEF DisposeVisit
  <2>. QED  BY <1>5, <2>2 DEF DisposeVisit
<1>6. ASSUME NEW v \in Venues, JoinEntry(v) PROVE TypeOK'
  <2>1. HeadClient(v) \in Clients /\ HeadRequest(v) \in Requests
    BY <1>6, HeadType DEF JoinEntry, Ready
  <2>2. operations' \in [Venues -> Seq(Operation)]
    BY <1>6, SettleType DEF JoinEntry, Ready
  <2>3. refCount' \in [Venues -> [Requests -> Nat]]
    BY <1>6, <2>1 DEF JoinEntry
  <2>4. listeners' \in [Venues -> [Requests -> SUBSET Clients]]
    BY <1>6, <2>1 DEF JoinEntry
  <2>5. phase' \in [Clients -> Phase]
    BY <1>6, <2>1 DEF JoinEntry, Phase
  <2>. QED  BY <1>6, <2>2, <2>3, <2>4, <2>5 DEF JoinEntry
<1>7. ASSUME NEW v \in Venues, SubscribeUpstream(v) PROVE TypeOK'
  <2>1. HeadRequest(v) \in Requests
    BY <1>7, HeadType DEF SubscribeUpstream, Ready
  <2>. QED  BY <1>7, <2>1 DEF SubscribeUpstream, CountSubscribe
<1>8. ASSUME NEW v \in Venues, Subscribed(v) PROVE TypeOK'
  <2>1. operations[v] # <<>> /\ Head(operations[v]).kind = "acquire"
    BY <1>8 DEF Subscribed, HeadFits
  <2>2. HeadClient(v) \in Clients /\ HeadRequest(v) \in Requests
    BY <2>1, HeadType
  <2>3. operations' \in [Venues -> Seq(Operation)]
    BY <1>8, <2>1, SettleType DEF Subscribed
  <2>. QED  BY <1>8, <2>2, <2>3 DEF Subscribed, Phase
<1>9. ASSUME NEW v \in Venues, SubscribeRejected(v) PROVE TypeOK'
  <2>1. operations[v] # <<>> /\ Head(operations[v]).kind = "acquire"
    BY <1>9 DEF SubscribeRejected, HeadFits
  <2>2. HeadClient(v) \in Clients
    BY <2>1, HeadType
  <2>3. operations' \in [Venues -> Seq(Operation)]
    BY <1>9, <2>1, SettleType DEF SubscribeRejected
  <2>4. rejecting' \in [Venues -> BOOLEAN]
    BY <1>9, LastType DEF SubscribeRejected
  <2>5. phase' \in [Clients -> Phase]
    BY <1>9, <2>2 DEF SubscribeRejected, Phase
  <2>6. /\ running' \in [Venues -> {"none", "subscribing", "subscribed", "unsubscribing"}]
        /\ failures' \in Nat
    BY <1>9 DEF SubscribeRejected
  <2>7. UNCHANGED <<requestRefCounts, handlerRefCounts, wire, venueEntries, refCount,
                    listeners, dropping, target, disposer>>
    BY <1>9 DEF SubscribeRejected
  <2>. QED  BY <2>3, <2>4, <2>5, <2>6, <2>7
<1>10. ASSUME NEW v \in Venues, SkipRejected(v) PROVE TypeOK'
  <2>1. operations[v] # <<>>
    BY <1>10 DEF SkipRejected, HeadFits
  <2>2. operations' \in [Venues -> Seq(Operation)]
    BY <1>10, <2>1, SettleType DEF SkipRejected
  <2>3. Head(operations[v]).kind # "dispose" => Head(operations[v]).client \in Clients
    BY <2>1, HeadType DEF HeadClient
  <2>4. phase' \in [Clients -> Phase]
    BY <1>10, <2>3 DEF SkipRejected, Phase
  <2>5. rejecting' \in [Venues -> BOOLEAN]
    BY <1>10, LastType DEF SkipRejected
  <2>6. disposer' \in {"idle", "visiting", "done", "failed"}
    BY <1>10 DEF SkipRejected
  <2>. QED  BY <1>10, <2>2, <2>4, <2>5, <2>6 DEF SkipRejected
<1>11. ASSUME NEW v \in Venues, ReleaseNothing(v) PROVE TypeOK'
  <2>1. HeadClient(v) \in Clients
    BY <1>11, HeadType DEF ReleaseNothing, Ready
  <2>2. operations' \in [Venues -> Seq(Operation)]
    BY <1>11, SettleType DEF ReleaseNothing, Ready
  <2>. QED  BY <1>11, <2>1, <2>2 DEF ReleaseNothing, Phase
<1>12. ASSUME NEW v \in Venues, ReleaseShared(v) PROVE TypeOK'
  <2>1. HeadClient(v) \in Clients /\ HeadRequest(v) \in Requests
    BY <1>12, HeadType DEF ReleaseShared, Ready
  <2>2. operations' \in [Venues -> Seq(Operation)]
    BY <1>12, SettleType DEF ReleaseShared, Ready
  <2>3. refCount' \in [Venues -> [Requests -> Nat]]
    BY <1>12, <2>1 DEF ReleaseShared
  <2>4. listeners' \in [Venues -> [Requests -> SUBSET Clients]]
    BY <1>12, <2>1 DEF ReleaseShared
  <2>5. phase' \in [Clients -> Phase]
    BY <1>12, <2>1 DEF ReleaseShared, Phase
  <2>. QED  BY <1>12, <2>2, <2>3, <2>4, <2>5 DEF ReleaseShared
<1>13. ASSUME NEW v \in Venues, ReleaseLast(v) PROVE TypeOK'
  <2>1. HeadClient(v) \in Clients /\ HeadRequest(v) \in Requests
    BY <1>13, HeadType DEF ReleaseLast, Ready
  <2>2. venueEntries[v] \in Handlers
    BY <1>13 DEF ReleaseLast
  <2>3. /\ handlerRefCounts' \in [Venues -> [Handlers -> Nat]]
        /\ requestRefCounts' \in [Venues -> [Requests -> Nat]]
    <3>1. {HeadRequest(v)} \in SUBSET Requests
      BY <2>1
    <3>2. CountRelease(v, {HeadRequest(v)}, venueEntries[v])
      BY <1>13 DEF ReleaseLast
    <3>. QED  BY <2>2, <3>1, <3>2, CountReleaseType
  <2>. QED  BY <1>13, <2>1, <2>3 DEF ReleaseLast, LastReferences, Phase
<1>14. ASSUME NEW v \in Venues, DisposeVenue(v) PROVE TypeOK'
  <2>1. venueEntries[v] \in Handlers
    BY <1>14 DEF DisposeVenue
  <2>2. /\ handlerRefCounts' \in [Venues -> [Handlers -> Nat]]
        /\ requestRefCounts' \in [Venues -> [Requests -> Nat]]
    <3>. DEFINE R == {r \in Requests : refCount[v][r] > 0}
    <3>1. R \in SUBSET Requests
      OBVIOUS
    <3>2. CountRelease(v, R, venueEntries[v])
      BY <1>14 DEF DisposeVenue
    <3>. HIDE DEF R
    <3>. QED  BY <2>1, <3>1, <3>2, CountReleaseType
  <2>3. phase' \in [Clients -> Phase]
    BY <1>14 DEF DisposeVenue, Phase
  <2>. QED  BY <1>14, <2>2, <2>3 DEF DisposeVenue, LastReferences
<1>15. ASSUME NEW v \in Venues, DisposeNothing(v) PROVE TypeOK'
  <2>1. operations' \in [Venues -> Seq(Operation)]
    BY <1>15, SettleType DEF DisposeNothing, Ready
  <2>. QED  BY <1>15, <2>1 DEF DisposeNothing
<1>16. ASSUME NEW v \in Venues, Unsubscribed(v) PROVE TypeOK'
  <2>1. operations[v] # <<>>
    BY <1>16 DEF Unsubscribed, HeadFits
  <2>2. operations' \in [Venues -> Seq(Operation)]
    BY <1>16, <2>1, SettleType DEF Unsubscribed
  <2>3. Head(operations[v]).kind = "release" => HeadClient(v) \in Clients
    BY <2>1, HeadType
  <2>4. phase' \in [Clients -> Phase]
    BY <1>16, <2>3 DEF Unsubscribed, Phase
  <2>. QED  BY <1>16, <2>2, <2>4 DEF Unsubscribed
<1>17. CASE UNCHANGED vars
  BY <1>17 DEF vars, coordinatorVars
<1>. QED
  BY <1>1, <1>2, <1>3, <1>4, <1>5, <1>6, <1>7, <1>8, <1>9, <1>10, <1>11, <1>12,
     <1>13, <1>14, <1>15, <1>16, <1>17 DEF Next, ChainStep
-----------------------------------------------------------------------------
(* The inductive invariant: what a step of one venue leaves alone *)

\* A venue whose queue, entries and clients stay as they are keeps its
\* invariant, whatever happens elsewhere.
LEMMA OtherVenue ==
  ASSUME TypeOK, NEW w \in Venues, VenueInv(w),
         UNCHANGED <<operations[w], running[w], rejecting[w], refCount[w],
                     listeners[w], venueEntries[w], target>>,
         phase' \in [Clients -> Phase],
         \A c \in Clients : target[c][1] = w => phase'[c] = phase[c],
         disposer # "idle" => disposer' # "idle"
  PROVE  VenueInv(w)'
<1>1. ASSUME NEW i \in DOMAIN operations[w], IsCall(operations[w][i])
      PROVE  operations[w][i].client \in Clients
  BY <1>1, ElementOfSeq, LenProperties DEF TypeOK, Operation, IsCall
<1>2. QueuePhases(w)'
  BY <1>1 DEF VenueInv, QueuePhases, IsCall
<1>3. OneCallEach(w)' /\ UsedHasEntry(w)' /\ DisposeIsLast(w)'
  BY DEF VenueInv, OneCallEach, UsedHasEntry, DisposeIsLast, IsCall
<1>4. HeadFits(w)'
  <2>1. CASE operations[w] = <<>>
    BY <2>1 DEF VenueInv, HeadFits, TypeOK
  <2>2. CASE operations[w] # <<>>
    <3>1. Head(operations[w]) = operations[w][1] /\ 1 \in DOMAIN operations[w]
      BY <2>2, TailFacts DEF TypeOK
    <3>2. Head(operations[w]).kind = "release" => phase'[HeadClient(w)] = phase[HeadClient(w)]
      BY <3>1, <1>1 DEF VenueInv, QueuePhases, IsCall, HeadClient
    <3>. QED  BY <3>2 DEF VenueInv, HeadFits, HeadClient, HeadRequest
  <2>. QED  BY <2>1, <2>2
<1>5. LostToDispose(w)'
  BY DEF VenueInv, LostToDispose, Closed, DrainingHead, HeadClient
<1>6. \A r \in Requests : Holders(w, r)' = Holders(w, r)
  BY DEF Holders
<1>7. RefCountExactAt(w)'
  BY <1>6 DEF VenueInv, RefCountExactAt
<1>. QED  BY <1>2, <1>3, <1>4, <1>5, <1>7 DEF VenueInv

\* The head of a chain, when it is a call: whose it is, and that it is the
\* only call of that client.
LEMMA HeadCall ==
  ASSUME TypeOK, NEW v \in Venues, VenueInv(v), operations[v] # <<>>,
         Head(operations[v]).kind # "dispose"
  PROVE  /\ HeadClient(v) \in Clients /\ HeadRequest(v) \in Requests
         /\ target[HeadClient(v)] = <<v, HeadRequest(v)>>
         /\ Head(operations[v]).kind = "acquire" => phase[HeadClient(v)] = "acquiring"
         /\ Head(operations[v]).kind = "release" =>
              phase[HeadClient(v)] \in {"releasing", "draining"}
         /\ \A i \in DOMAIN operations[v] :
              i # 1 /\ IsCall(operations[v][i]) => operations[v][i].client # HeadClient(v)
<1>1. Head(operations[v]) = operations[v][1] /\ 1 \in DOMAIN operations[v]
  BY TailFacts DEF TypeOK
<1>2. HeadClient(v) \in Clients /\ HeadRequest(v) \in Requests
  BY HeadType
<1>3. target[HeadClient(v)][1] = v
  BY <1>1 DEF VenueInv, QueuePhases, IsCall, HeadClient
<1>4. target[HeadClient(v)] \in Venues \X Requests
  BY <1>2 DEF TypeOK
<1>5. target[HeadClient(v)] = <<v, HeadRequest(v)>>
  BY <1>3, <1>4 DEF HeadRequest
<1>. QED  BY <1>1, <1>2, <1>5 DEF VenueInv, QueuePhases, OneCallEach, IsCall, HeadClient

\* The queue's own invariants after its head has settled, when no other
\* client's phase has changed.
LEMMA SettleQueue ==
  ASSUME TypeOK, NEW v \in Venues, VenueInv(v), operations[v] # <<>>,
         Settle(v), UNCHANGED target,
         \A c \in Clients :
           phase'[c] = phase[c] \/
           (Head(operations[v]).kind # "dispose" /\ c = HeadClient(v)),
         disposer # "idle" => disposer' # "idle"
  PROVE  QueuePhases(v)' /\ OneCallEach(v)' /\ DisposeIsLast(v)'
<1>. DEFINE q == operations[v]
<1>0. operations'[v] = Tail(q)
  BY DEF Settle, TypeOK
<1>1. /\ DOMAIN q = 1 .. Len(q) /\ Len(q) \in Nat \ {0}
      /\ DOMAIN Tail(q) = 1 .. (Len(q) - 1)
      /\ \A i \in DOMAIN Tail(q) : i + 1 \in DOMAIN q /\ Tail(q)[i] = q[i + 1]
  BY TailFacts DEF TypeOK
<1>2. \A i \in DOMAIN q : IsCall(q[i]) => q[i].client \in Clients
  BY ElementOfSeq, LenProperties DEF TypeOK, Operation, IsCall
<1>3. ASSUME NEW i \in DOMAIN Tail(q), IsCall(q[i + 1])
      PROVE  phase'[q[i + 1].client] = phase[q[i + 1].client]
  BY <1>1, <1>2, <1>3, HeadCall
<1>4. QueuePhases(v)'
  BY <1>0, <1>1, <1>3 DEF VenueInv, QueuePhases, IsCall
<1>5. OneCallEach(v)'
  BY <1>0, <1>1 DEF VenueInv, OneCallEach, IsCall
<1>6. DisposeIsLast(v)'
  BY <1>0, <1>1 DEF VenueInv, DisposeIsLast
<1>. QED  BY <1>4, <1>5, <1>6

\* Nothing is queued again by settling: a closed venue stays closed.
LEMMA SettleClosed ==
  ASSUME TypeOK, NEW v \in Venues, operations[v] # <<>>, Settle(v), Closed(v),
         UNCHANGED refCount[v], disposer # "idle" => disposer' # "idle"
  PROVE  Closed(v)'
<1>1. operations'[v] = Tail(operations[v])
  BY DEF Settle, TypeOK
<1>2. \A i \in DOMAIN Tail(operations[v]) :
        i + 1 \in DOMAIN operations[v] /\ Tail(operations[v])[i] = operations[v][i + 1]
  BY TailFacts DEF TypeOK
<1>. QED  BY <1>1, <1>2 DEF Closed
-----------------------------------------------------------------------------
(* The inductive invariant: who is counted *)

\* Phases in which a client is counted.
Counted == {"held", "releasing", "stranded"}

\* Counted clients are finitely many.
LEMMA HoldersFinite ==
  ASSUME NEW v, NEW r
  PROVE  IsFiniteSet(Holders(v, r)) /\ Cardinality(Holders(v, r)) \in Nat
BY ClientsAssumption, FS_Subset, FS_CardinalityType DEF Holders

\* One client becomes counted.
LEMMA HoldersGain ==
  ASSUME NEW v \in Venues, NEW c \in Clients, NEW r \in Requests,
         target[c] = <<v, r>>, UNCHANGED target,
         phase[c] \notin Counted, phase'[c] \in Counted,
         \A d \in Clients \ {c} : phase'[d] = phase[d]
  PROVE  /\ Holders(v, r)' = Holders(v, r) \cup {c}
         /\ Cardinality(Holders(v, r))' = Cardinality(Holders(v, r)) + 1
         /\ \A s \in Requests \ {r} : Holders(v, s)' = Holders(v, s)
<1>1. Holders(v, r)' = Holders(v, r) \cup {c} /\ c \notin Holders(v, r)
  BY DEF Holders, Counted
<1>2. \A s \in Requests \ {r} : Holders(v, s)' = Holders(v, s)
  BY DEF Holders, Counted
<1>. QED  BY <1>1, <1>2, HoldersFinite, FS_AddElement

\* One client is no longer counted.
LEMMA HoldersLose ==
  ASSUME NEW v \in Venues, NEW c \in Clients, NEW r \in Requests,
         target[c] = <<v, r>>, UNCHANGED target,
         phase[c] \in Counted, phase'[c] \notin Counted,
         \A d \in Clients \ {c} : phase'[d] = phase[d]
  PROVE  /\ Holders(v, r)' = Holders(v, r) \ {c}
         /\ c \in Holders(v, r)
         /\ Cardinality(Holders(v, r))' = Cardinality(Holders(v, r)) - 1
         /\ \A s \in Requests \ {r} : Holders(v, s)' = Holders(v, s)
<1>1. Holders(v, r)' = Holders(v, r) \ {c} /\ c \in Holders(v, r)
  BY DEF Holders, Counted
<1>2. \A s \in Requests \ {r} : Holders(v, s)' = Holders(v, s)
  BY DEF Holders, Counted
<1>. QED  BY <1>1, <1>2, HoldersFinite, FS_RemoveElement

\* Nobody becomes counted and nobody stops being counted.
LEMMA HoldersKeep ==
  ASSUME NEW v \in Venues, RefCountExactAt(v),
         UNCHANGED <<target, refCount[v], listeners[v]>>,
         \A d \in Clients : target[d][1] = v =>
            (phase'[d] \in Counted <=> phase[d] \in Counted)
  PROVE  RefCountExactAt(v)'
<1>1. \A r \in Requests : Holders(v, r)' = Holders(v, r)
  BY DEF Holders, Counted
<1>. QED  BY <1>1 DEF RefCountExactAt

\* A request that is counted zero times has no holder, and conversely.
LEMMA NoHolder ==
  ASSUME NEW v \in Venues, NEW r \in Requests, RefCountExactAt(v)
  PROVE  refCount[v][r] = 0 <=> Holders(v, r) = {}
BY HoldersFinite, FS_EmptySet DEF RefCountExactAt
-----------------------------------------------------------------------------
(* The inductive invariant: calls *)

\* A call or a dispose joins the end of a chain.
LEMMA EnqueueQueue ==
  ASSUME TypeOK, NEW v \in Venues, VenueInv(v), NEW op \in Operation,
         Enqueue(v, op),
         UNCHANGED <<target, disposer, running, rejecting, refCount, venueEntries>>,
         op.kind = "acquire" => disposer = "idle",
         op.kind = "dispose" => disposer # "idle" /\ UNCHANGED phase,
         op.kind # "dispose" =>
           /\ target[op.client][1] = v
           /\ phase[op.client] \notin {"acquiring", "releasing", "draining"}
           /\ op.kind = "acquire" => phase'[op.client] = "acquiring"
           /\ op.kind = "release" => phase'[op.client] \in {"releasing", "draining"}
           /\ \A d \in Clients \ {op.client} : phase'[d] = phase[d]
  PROVE  /\ QueuePhases(v)' /\ OneCallEach(v)' /\ DisposeIsLast(v)' /\ HeadFits(v)'
         /\ op.kind # "acquire" /\ Closed(v) => Closed(v)'
         /\ \A c \in Clients : DrainingHead(v, c) => DrainingHead(v, c)'
<1>. DEFINE q == operations[v]
<1>0. operations'[v] = Append(q, op) /\ q \in Seq(Operation)
  BY DEF Enqueue, TypeOK
<1>1. /\ Append(q, op) # <<>>
      /\ DOMAIN q = 1 .. Len(q) /\ Len(q) \in Nat
      /\ DOMAIN Append(q, op) = 1 .. (Len(q) + 1)
      /\ \A i \in DOMAIN q : Append(q, op)[i] = q[i]
      /\ Append(q, op)[Len(q) + 1] = op
      /\ q # <<>> => Head(Append(q, op)) = Head(q)
  BY <1>0, AppendFacts
<1>2. op.kind \in {"acquire", "release", "dispose"}
  BY DEF Operation
<1>3. \A i \in DOMAIN q : IsCall(q[i]) =>
        /\ q[i].client \in Clients
        /\ q[i].kind \in {"acquire", "release"}
  BY ElementOfSeq, LenProperties DEF TypeOK, Operation, IsCall
<1>4. \A i \in DOMAIN q : IsCall(q[i]) =>
        /\ phase'[q[i].client] = phase[q[i].client]
        /\ op.kind # "dispose" => q[i].client # op.client
  BY <1>2, <1>3 DEF VenueInv, QueuePhases
<1>5. QueuePhases(v)'
  BY <1>0, <1>1, <1>2, <1>4 DEF VenueInv, QueuePhases, IsCall
<1>6. OneCallEach(v)'
  BY <1>0, <1>1, <1>2, <1>4 DEF VenueInv, OneCallEach, IsCall
<1>7. DisposeIsLast(v)'
  BY <1>0, <1>1 DEF VenueInv, DisposeIsLast
<1>8. HeadFits(v)'
  <2>1. CASE q = <<>>
    BY <2>1, <1>0, <1>1 DEF VenueInv, HeadFits, TypeOK
  <2>2. CASE q # <<>>
    <3>1. Head(q) = q[1] /\ 1 \in DOMAIN q /\ Head(operations'[v]) = Head(q)
      BY <2>2, <1>0, <1>1, TailFacts
    <3>2. Head(q).kind = "release" => phase'[Head(q).client] = phase[Head(q).client]
      BY <3>1, <1>4 DEF IsCall
    <3>. QED  BY <2>2, <3>1, <3>2, <1>0, <1>1 DEF VenueInv, HeadFits, HeadClient, HeadRequest
  <2>. QED  BY <2>1, <2>2
<1>9. op.kind # "acquire" /\ Closed(v) => Closed(v)'
  BY <1>0, <1>1 DEF Closed
<1>10. \A c \in Clients : DrainingHead(v, c) => DrainingHead(v, c)'
  BY <1>0, <1>1 DEF VenueInv, HeadFits, DrainingHead, HeadClient
<1>. QED  BY <1>5, <1>6, <1>7, <1>8, <1>9, <1>10

\* acquire keeps its venue's invariant.
LEMMA AcquireVenue ==
  ASSUME TypeOK, NEW c \in Clients, VenueInv(target[c][1]), Acquire(c)
  PROVE  VenueInv(target[c][1])'
<1>. DEFINE v == target[c][1]
            op == [kind |-> "acquire", client |-> c]
<1>1. v \in Venues /\ op \in Operation /\ op.kind = "acquire" /\ op.client = c
  BY DEF TypeOK, Operation
<1>2. /\ phase[c] = "free" /\ phase'[c] = "acquiring"
      /\ \A d \in Clients \ {c} : phase'[d] = phase[d]
      /\ disposer = "idle"
      /\ UNCHANGED <<target, disposer, running, rejecting, refCount, listeners, venueEntries>>
      /\ Enqueue(v, op)
  BY DEF Acquire, TypeOK
<1>. HIDE DEF v, op
<1>3. /\ QueuePhases(v)' /\ OneCallEach(v)' /\ DisposeIsLast(v)' /\ HeadFits(v)'
      /\ \A d \in Clients : DrainingHead(v, d) => DrainingHead(v, d)'
  BY <1>1, <1>2, EnqueueQueue DEF v
<1>4. LostToDispose(v)'
  BY <1>2, <1>3 DEF v, VenueInv, LostToDispose, Closed
<1>5. RefCountExactAt(v)'
  BY <1>1, <1>2, HoldersKeep DEF v, VenueInv, Counted
<1>6. UsedHasEntry(v)'
  BY <1>2 DEF v, VenueInv, UsedHasEntry
<1>. QED  BY <1>3, <1>4, <1>5, <1>6 DEF VenueInv, v

\* release keeps its venue's invariant.
LEMMA ReleaseVenue ==
  ASSUME TypeOK, NEW c \in Clients, VenueInv(target[c][1]), Release(c)
  PROVE  VenueInv(target[c][1])'
<1>. DEFINE v == target[c][1]
            op == [kind |-> "release", client |-> c]
<1>1. v \in Venues /\ op \in Operation /\ op.kind = "release" /\ op.client = c
  BY DEF TypeOK, Operation
<1>2. /\ \/ phase[c] = "held" /\ phase'[c] = "releasing"
         \/ phase[c] = "orphaned" /\ phase'[c] = "draining"
      /\ \A d \in Clients \ {c} : phase'[d] = phase[d]
      /\ UNCHANGED <<target, disposer, running, rejecting, refCount, listeners, venueEntries>>
      /\ Enqueue(v, op)
  BY DEF Release, TypeOK
<1>. HIDE DEF v, op
<1>3. /\ QueuePhases(v)' /\ OneCallEach(v)' /\ DisposeIsLast(v)' /\ HeadFits(v)'
      /\ Closed(v) => Closed(v)'
      /\ \A d \in Clients : DrainingHead(v, d) => DrainingHead(v, d)'
  BY <1>1, <1>2, EnqueueQueue DEF v
<1>4. LostToDispose(v)'
  BY <1>2, <1>3 DEF v, VenueInv, LostToDispose
<1>5. RefCountExactAt(v)'
  BY <1>1, <1>2, HoldersKeep DEF v, VenueInv, Counted
<1>6. UsedHasEntry(v)'
  BY <1>2 DEF v, VenueInv, UsedHasEntry
<1>. QED  BY <1>3, <1>4, <1>5, <1>6 DEF VenueInv, v

\* So does dispose when it queues its operation.
LEMMA DisposeVisitVenue ==
  ASSUME TypeOK, NEW v \in Venues, VenueInv(v), DisposeVisit(v)
  PROVE  VenueInv(v)'
<1>. DEFINE op == [kind |-> "dispose"]
<1>1. op \in Operation /\ op.kind = "dispose"
  BY DEF Operation
<1>2. /\ UNCHANGED <<target, disposer, running, rejecting, refCount, listeners,
                    venueEntries, phase>>
      /\ disposer # "idle" /\ Enqueue(v, op)
  BY DEF DisposeVisit
<1>. HIDE DEF op
<1>3. /\ QueuePhases(v)' /\ OneCallEach(v)' /\ DisposeIsLast(v)' /\ HeadFits(v)'
      /\ Closed(v) => Closed(v)'
      /\ \A d \in Clients : DrainingHead(v, d) => DrainingHead(v, d)'
  BY <1>1, <1>2, EnqueueQueue
<1>4. LostToDispose(v)'
  BY <1>2, <1>3 DEF VenueInv, LostToDispose
<1>5. RefCountExactAt(v)'
  BY <1>2, HoldersKeep DEF VenueInv
<1>6. UsedHasEntry(v)'
  BY <1>2 DEF VenueInv, UsedHasEntry
<1>. QED  BY <1>3, <1>4, <1>5, <1>6 DEF VenueInv
-----------------------------------------------------------------------------
(* The inductive invariant: steps of a chain *)

\* While an acquire is the head, dispose has not taken anything from a client.
LEMMA AcquireAtHead ==
  ASSUME TypeOK, NEW v \in Venues, VenueInv(v), operations[v] # <<>>,
         Head(operations[v]).kind = "acquire"
  PROVE  /\ ~ Closed(v)
         /\ \A c \in Clients : target[c][1] = v =>
              phase[c] # "orphaned" /\ phase[c] # "draining"
<1>1. Head(operations[v]) = operations[v][1] /\ 1 \in DOMAIN operations[v]
  BY TailFacts DEF TypeOK
<1>. QED  BY <1>1 DEF VenueInv, LostToDispose, Closed, DrainingHead

\* A chain at rest with a request in use: dispose has taken nothing either.
LEMMA UsedAtRest ==
  ASSUME TypeOK, NEW v \in Venues, VenueInv(v), running[v] = "none",
         NEW r \in Requests, refCount[v][r] > 0
  PROVE  \A c \in Clients : target[c][1] = v =>
            phase[c] # "orphaned" /\ phase[c] # "draining"
<1>1. ~ Closed(v)
  BY DEF Closed, TypeOK
<1>. QED  BY <1>1 DEF VenueInv, LostToDispose, DrainingHead

\* Between two operations nothing is waited for.
LEMMA SettleHead ==
  ASSUME TypeOK, NEW v \in Venues, operations[v] # <<>>, Settle(v),
         running'[v] = "none",
         rejecting'[v] = FALSE \/ rejecting'[v] = (Len(operations[v]) > 1)
  PROVE  HeadFits(v)'
<1>1. operations'[v] = Tail(operations[v])
  BY DEF Settle, TypeOK
<1>2. Len(operations[v]) > 1 => Tail(operations[v]) # <<>>
  BY TailNotEmpty DEF TypeOK
<1>. QED  BY <1>1, <1>2 DEF HeadFits

\* Settling the head takes nothing from a client.
LEMMA SettleLost ==
  ASSUME TypeOK, NEW v \in Venues, VenueInv(v), operations[v] # <<>>, Settle(v),
         UNCHANGED <<target, refCount[v]>>,
         disposer # "idle" => disposer' # "idle",
         \A c \in Clients : \/ phase'[c] = phase[c] /\ ~ DrainingHead(v, c)
                            \/ phase'[c] \notin {"orphaned", "draining"}
  PROVE  LostToDispose(v)'
BY SettleClosed DEF VenueInv, LostToDispose

\* acquire of a request in use.
LEMMA JoinEntryVenue ==
  ASSUME TypeOK, NEW v \in Venues, VenueInv(v), JoinEntry(v)
  PROVE  VenueInv(v)'
<1>1. operations[v] # <<>> /\ Head(operations[v]).kind = "acquire"
  BY DEF JoinEntry, Ready
<1>2. PICK c \in Clients, r \in Requests :
        /\ c = HeadClient(v) /\ r = HeadRequest(v)
        /\ target[c] = <<v, r>> /\ phase[c] = "acquiring"
  BY <1>1, HeadCall
<1>3. /\ refCount[v][r] > 0 /\ refCount'[v][r] = refCount[v][r] + 1
      /\ \A s \in Requests \ {r} : refCount'[v][s] = refCount[v][s]
  BY <1>2 DEF JoinEntry, TypeOK
<1>4. /\ listeners'[v][r] = listeners[v][r] \cup {c}
      /\ \A s \in Requests \ {r} : listeners'[v][s] = listeners[v][s]
  BY <1>2 DEF JoinEntry, TypeOK
<1>5. phase'[c] = "held" /\ \A d \in Clients \ {c} : phase'[d] = phase[d]
  BY <1>2 DEF JoinEntry, TypeOK
<1>6. /\ Settle(v) /\ running'[v] = "none" /\ rejecting'[v] = FALSE
      /\ UNCHANGED <<target, disposer, venueEntries>>
  BY DEF JoinEntry, Ready, TypeOK
<1>7. QueuePhases(v)' /\ OneCallEach(v)' /\ DisposeIsLast(v)' /\ HeadFits(v)'
  <2>1. \A d \in Clients : phase'[d] = phase[d] \/ d = HeadClient(v)
    BY <1>2, <1>5
  <2>. QED  BY <1>1, <1>6, <2>1, SettleQueue, SettleHead
<1>8. LostToDispose(v)'
  BY <1>1, <1>5, <1>6, AcquireAtHead DEF LostToDispose
<1>9. UsedHasEntry(v)'
  BY <1>2, <1>3, <1>6 DEF VenueInv, UsedHasEntry
<1>10. RefCountExactAt(v)'
  <2>1. /\ Holders(v, r)' = Holders(v, r) \cup {c}
        /\ Cardinality(Holders(v, r))' = Cardinality(Holders(v, r)) + 1
        /\ \A s \in Requests \ {r} : Holders(v, s)' = Holders(v, s)
    BY <1>2, <1>5, <1>6, HoldersGain DEF Counted
  <2>. QED  BY <1>2, <1>3, <1>4, <2>1 DEF VenueInv, RefCountExactAt
<1>. QED  BY <1>7, <1>8, <1>9, <1>10 DEF VenueInv

\* acquire of an unused request, up to its await.
LEMMA SubscribeUpstreamVenue ==
  ASSUME TypeOK, NEW v \in Venues, VenueInv(v), SubscribeUpstream(v)
  PROVE  VenueInv(v)'
<1>1. /\ operations[v] # <<>> /\ Head(operations[v]).kind = "acquire"
      /\ refCount[v][HeadRequest(v)] = 0 /\ rejecting'[v] = FALSE
      /\ UNCHANGED <<operations, refCount, listeners, phase, target, disposer>>
  BY DEF SubscribeUpstream, Ready, TypeOK
<1>2. running'[v] \in {"subscribing", "subscribed"} /\ venueEntries'[v] # NoHandlers
  BY NoHandlersAssumption DEF SubscribeUpstream, TypeOK
<1>3. QueuePhases(v)' /\ OneCallEach(v)' /\ DisposeIsLast(v)'
  BY <1>1 DEF VenueInv, QueuePhases, OneCallEach, DisposeIsLast, IsCall
<1>4. HeadFits(v)'
  BY <1>1, <1>2 DEF HeadFits, HeadRequest, HeadClient
<1>5. LostToDispose(v)'
  BY <1>1, AcquireAtHead DEF LostToDispose
<1>6. UsedHasEntry(v)'
  BY <1>2 DEF UsedHasEntry
<1>7. RefCountExactAt(v)'
  BY <1>1, HoldersKeep DEF VenueInv
<1>. QED  BY <1>3, <1>4, <1>5, <1>6, <1>7 DEF VenueInv

\* The first holder of a request.
LEMMA SubscribedVenue ==
  ASSUME TypeOK, NEW v \in Venues, VenueInv(v), Subscribed(v)
  PROVE  VenueInv(v)'
<1>1. /\ operations[v] # <<>> /\ Head(operations[v]).kind = "acquire"
      /\ refCount[v][HeadRequest(v)] = 0 /\ venueEntries[v] # NoHandlers
      /\ rejecting[v] = FALSE
  BY DEF Subscribed, VenueInv, HeadFits, TypeOK
<1>2. PICK c \in Clients, r \in Requests :
        /\ c = HeadClient(v) /\ r = HeadRequest(v)
        /\ target[c] = <<v, r>> /\ phase[c] = "acquiring"
  BY <1>1, HeadCall
<1>3. /\ refCount'[v][r] = 1
      /\ \A s \in Requests \ {r} : refCount'[v][s] = refCount[v][s]
  BY <1>2 DEF Subscribed, TypeOK
<1>4. /\ listeners'[v][r] = {c}
      /\ \A s \in Requests \ {r} : listeners'[v][s] = listeners[v][s]
  BY <1>2 DEF Subscribed, TypeOK
<1>5. phase'[c] = "held" /\ \A d \in Clients \ {c} : phase'[d] = phase[d]
  BY <1>2 DEF Subscribed, TypeOK
<1>6. /\ Settle(v) /\ running'[v] = "none" /\ rejecting'[v] = FALSE
      /\ UNCHANGED <<target, disposer, venueEntries>>
  BY <1>1 DEF Subscribed, TypeOK
<1>7. QueuePhases(v)' /\ OneCallEach(v)' /\ DisposeIsLast(v)' /\ HeadFits(v)'
  <2>1. \A d \in Clients : phase'[d] = phase[d] \/ d = HeadClient(v)
    BY <1>2, <1>5
  <2>. QED  BY <1>1, <1>6, <2>1, SettleQueue, SettleHead
<1>8. RefCountExactAt(v)'
  <2>1. /\ Holders(v, r)' = Holders(v, r) \cup {c}
        /\ Cardinality(Holders(v, r))' = Cardinality(Holders(v, r)) + 1
        /\ \A s \in Requests \ {r} : Holders(v, s)' = Holders(v, s)
    BY <1>2, <1>5, <1>6, HoldersGain DEF Counted
  <2>2. Holders(v, r) = {} /\ Cardinality(Holders(v, r)) = 0
    BY <1>1, <1>2, NoHolder DEF VenueInv, RefCountExactAt
  <2>3. Holders(v, r)' = {c} /\ Cardinality(Holders(v, r))' = 1
    BY <2>1, <2>2
  <2>. QED  BY <1>2, <1>3, <1>4, <2>1, <2>3 DEF VenueInv, RefCountExactAt
<1>9. LostToDispose(v)'
  <2>. QED  BY <1>1, <1>5, <1>6, AcquireAtHead DEF LostToDispose
<1>10. UsedHasEntry(v)'
  BY <1>1, <1>6 DEF UsedHasEntry
<1>. QED  BY <1>7, <1>8, <1>9, <1>10 DEF VenueInv

\* A rejected subscription.
LEMMA SubscribeRejectedVenue ==
  ASSUME TypeOK, NEW v \in Venues, VenueInv(v), SubscribeRejected(v)
  PROVE  VenueInv(v)'
<1>. DEFINE c == HeadClient(v)
<1>1. operations[v] # <<>> /\ Head(operations[v]).kind = "acquire"
  BY DEF SubscribeRejected, VenueInv, HeadFits
<1>2. c \in Clients /\ phase[c] = "acquiring"
  BY <1>1, HeadCall
<1>3. phase'[c] = "free" /\ \A d \in Clients \ {c} : phase'[d] = phase[d]
  BY <1>2 DEF SubscribeRejected, TypeOK
<1>4. /\ Settle(v) /\ running'[v] = "none" /\ rejecting'[v] = (Len(operations[v]) > 1)
      /\ UNCHANGED <<target, disposer, venueEntries, refCount, listeners>>
  BY DEF SubscribeRejected, TypeOK
<1>5. QueuePhases(v)' /\ OneCallEach(v)' /\ DisposeIsLast(v)' /\ HeadFits(v)'
  <2>1. \A d \in Clients : phase'[d] = phase[d] \/ d = HeadClient(v)
    BY <1>3
  <2>. QED  BY <1>1, <1>4, <2>1, SettleQueue, SettleHead
<1>. HIDE DEF c
<1>6. LostToDispose(v)'
  BY <1>1, <1>3, <1>4, AcquireAtHead DEF LostToDispose
<1>7. UsedHasEntry(v)'
  BY <1>4 DEF VenueInv, UsedHasEntry
<1>8. RefCountExactAt(v)'
  BY <1>2, <1>3, <1>4, HoldersKeep DEF VenueInv, Counted
<1>. QED  BY <1>5, <1>6, <1>7, <1>8 DEF VenueInv

\* A rejection passes an operation by.
LEMMA SkipRejectedVenue ==
  ASSUME TypeOK, NEW v \in Venues, VenueInv(v), SkipRejected(v)
  PROVE  VenueInv(v)'
<1>. DEFINE op == Head(operations[v])
<1>1. /\ operations[v] # <<>> /\ running[v] = "none"
      /\ op.kind \in {"acquire", "release", "dispose"}
  <2>1. operations[v] # <<>> /\ running[v] = "none"
    BY DEF SkipRejected, VenueInv, HeadFits
  <2>. QED  BY <2>1, HeadType
<1>2. /\ Settle(v) /\ running'[v] = "none" /\ rejecting'[v] = (Len(operations[v]) > 1)
      /\ UNCHANGED <<target, venueEntries, refCount, listeners>>
      /\ op.kind = "dispose" => phase' = phase /\ disposer' = "failed"
      /\ op.kind # "dispose" => disposer' = disposer
  BY <1>1 DEF SkipRejected, TypeOK
<1>3. disposer # "idle" => disposer' # "idle"
  BY <1>2
<1>4. ASSUME op.kind # "dispose"
      PROVE  \E c \in Clients :
               /\ c = HeadClient(v) /\ target[c][1] = v
               /\ \/ phase[c] = "acquiring" /\ phase'[c] = "free"
                  \/ phase[c] = "releasing" /\ phase'[c] = "stranded"
                  \/ phase[c] = "draining" /\ phase'[c] = "free"
               /\ \A d \in Clients \ {c} : phase'[d] = phase[d]
  <2>1. /\ HeadClient(v) \in Clients /\ target[HeadClient(v)][1] = v
        /\ phase[HeadClient(v)] \in {"acquiring", "releasing", "draining"}
    BY <1>1, <1>4, HeadCall
  <2>2. phase' = [phase EXCEPT ![HeadClient(v)] =
                    CASE @ = "acquiring" -> "free"
                      [] @ = "releasing" -> "stranded"
                      [] OTHER -> "free"]
    BY <1>4 DEF SkipRejected, HeadClient
  <2>. QED  BY <2>1, <2>2 DEF TypeOK
<1>5. \A d \in Clients :
        \/ phase'[d] = phase[d]
        \/ op.kind # "dispose" /\ d = HeadClient(v) /\ phase'[d] \in {"free", "stranded"}
  BY <1>2, <1>4
<1>6. QueuePhases(v)' /\ OneCallEach(v)' /\ DisposeIsLast(v)' /\ HeadFits(v)'
  BY <1>1, <1>2, <1>3, <1>5, SettleQueue, SettleHead
<1>7. LostToDispose(v)'
  <2>1. \A d \in Clients : ~ DrainingHead(v, d)
    BY <1>1 DEF DrainingHead
  <2>. QED  BY <1>1, <1>2, <1>3, <1>5, <2>1, SettleLost
<1>8. UsedHasEntry(v)'
  BY <1>2 DEF VenueInv, UsedHasEntry
<1>9. RefCountExactAt(v)'
  <2>1. \A d \in Clients : phase'[d] \in Counted <=> phase[d] \in Counted
    BY <1>2, <1>4 DEF Counted
  <2>. QED  BY <1>2, <2>1, HoldersKeep DEF VenueInv
<1>. QED  BY <1>6, <1>7, <1>8, <1>9 DEF VenueInv

\* A release that finds no request entry: dispose has been there.
LEMMA ReleaseNothingVenue ==
  ASSUME TypeOK, NEW v \in Venues, VenueInv(v), ReleaseNothing(v)
  PROVE  VenueInv(v)'
<1>1. /\ operations[v] # <<>> /\ Head(operations[v]).kind = "release"
      /\ running[v] = "none" /\ rejecting[v] = FALSE
  BY DEF ReleaseNothing, Ready, TypeOK
<1>2. PICK c \in Clients, r \in Requests :
        /\ c = HeadClient(v) /\ r = HeadRequest(v)
        /\ target[c] = <<v, r>> /\ phase[c] \in {"releasing", "draining"}
  BY <1>1, HeadCall
<1>3. phase[c] = "draining"
  <2>1. refCount[v][r] = 0
    BY <1>2 DEF ReleaseNothing, VenueInv, UsedHasEntry, TypeOK
  <2>2. Holders(v, r) = {}
    BY <2>1, NoHolder DEF VenueInv
  <2>. QED  BY <1>2, <2>2 DEF Holders
<1>4. phase'[c] = "free" /\ \A d \in Clients \ {c} : phase'[d] = phase[d]
  BY <1>2 DEF ReleaseNothing, TypeOK
<1>5. /\ Settle(v) /\ running'[v] = "none" /\ rejecting'[v] = FALSE
      /\ UNCHANGED <<target, disposer, venueEntries, refCount, listeners>>
  BY <1>1 DEF ReleaseNothing, TypeOK
<1>6. QueuePhases(v)' /\ OneCallEach(v)' /\ DisposeIsLast(v)' /\ HeadFits(v)'
  <2>1. \A d \in Clients : phase'[d] = phase[d] \/ d = HeadClient(v)
    BY <1>2, <1>4
  <2>. QED  BY <1>1, <1>5, <2>1, SettleQueue, SettleHead
<1>7. LostToDispose(v)'
  <2>1. \A d \in Clients : ~ DrainingHead(v, d)
    BY <1>1 DEF DrainingHead
  <2>. QED  BY <1>1, <1>4, <1>5, <2>1, SettleLost
<1>8. UsedHasEntry(v)'
  BY <1>5 DEF VenueInv, UsedHasEntry
<1>9. RefCountExactAt(v)'
  BY <1>2, <1>3, <1>4, <1>5, HoldersKeep DEF VenueInv, Counted
<1>. QED  BY <1>6, <1>7, <1>8, <1>9 DEF VenueInv

\* A release that leaves other holders.
LEMMA ReleaseSharedVenue ==
  ASSUME TypeOK, NEW v \in Venues, VenueInv(v), ReleaseShared(v)
  PROVE  VenueInv(v)'
<1>1. /\ operations[v] # <<>> /\ Head(operations[v]).kind = "release"
      /\ running[v] = "none" /\ rejecting[v] = FALSE
  BY DEF ReleaseShared, Ready, TypeOK
<1>2. PICK c \in Clients, r \in Requests :
        /\ c = HeadClient(v) /\ r = HeadRequest(v)
        /\ target[c] = <<v, r>> /\ phase[c] \in {"releasing", "draining"}
  BY <1>1, HeadCall
<1>3. /\ refCount[v][r] > 0 /\ refCount'[v][r] = refCount[v][r] - 1
      /\ \A s \in Requests \ {r} : refCount'[v][s] = refCount[v][s]
  BY <1>2 DEF ReleaseShared, TypeOK
<1>4. /\ listeners'[v][r] = listeners[v][r] \ {c}
      /\ \A s \in Requests \ {r} : listeners'[v][s] = listeners[v][s]
  BY <1>2 DEF ReleaseShared, TypeOK
<1>5. phase'[c] = "free" /\ \A d \in Clients \ {c} : phase'[d] = phase[d]
  BY <1>2 DEF ReleaseShared, TypeOK
<1>6. /\ Settle(v) /\ running'[v] = "none" /\ rejecting'[v] = FALSE
      /\ UNCHANGED <<target, disposer, venueEntries>>
  BY <1>1 DEF ReleaseShared, TypeOK
<1>7. \A d \in Clients : target[d][1] = v =>
         phase[d] # "orphaned" /\ phase[d] # "draining"
  BY <1>1, <1>2, <1>3, UsedAtRest
<1>8. QueuePhases(v)' /\ OneCallEach(v)' /\ DisposeIsLast(v)' /\ HeadFits(v)'
  <2>1. \A d \in Clients : phase'[d] = phase[d] \/ d = HeadClient(v)
    BY <1>2, <1>5
  <2>. QED  BY <1>1, <1>6, <2>1, SettleQueue, SettleHead
<1>9. LostToDispose(v)'
  BY <1>5, <1>6, <1>7 DEF LostToDispose
<1>10. UsedHasEntry(v)'
  BY <1>2, <1>3, <1>6 DEF VenueInv, UsedHasEntry
<1>11. RefCountExactAt(v)'
  <2>1. /\ Holders(v, r)' = Holders(v, r) \ {c}
        /\ Cardinality(Holders(v, r))' = Cardinality(Holders(v, r)) - 1
        /\ \A s \in Requests \ {r} : Holders(v, s)' = Holders(v, s)
    BY <1>2, <1>5, <1>6, <1>7, HoldersLose DEF Counted
  <2>. QED  BY <1>2, <1>3, <1>4, <2>1 DEF VenueInv, RefCountExactAt
<1>. QED  BY <1>8, <1>9, <1>10, <1>11 DEF VenueInv

\* The release of the last holder, up to its await.
LEMMA ReleaseLastVenue ==
  ASSUME TypeOK, NEW v \in Venues, VenueInv(v), ReleaseLast(v)
  PROVE  VenueInv(v)'
<1>1. /\ operations[v] # <<>> /\ Head(operations[v]).kind = "release"
      /\ running[v] = "none" /\ rejecting[v] = FALSE
  BY DEF ReleaseLast, Ready, TypeOK
<1>2. PICK c \in Clients, r \in Requests :
        /\ c = HeadClient(v) /\ r = HeadRequest(v)
        /\ target[c] = <<v, r>> /\ phase[c] \in {"releasing", "draining"}
  BY <1>1, HeadCall
<1>3. /\ refCount[v][r] = 1 /\ refCount'[v][r] = 0
      /\ \A s \in Requests \ {r} : refCount'[v][s] = refCount[v][s]
  BY <1>2 DEF ReleaseLast, LastHolder, TypeOK
<1>4. /\ listeners'[v][r] = {}
      /\ \A s \in Requests \ {r} : listeners'[v][s] = listeners[v][s]
  BY <1>2 DEF ReleaseLast, TypeOK
<1>5. phase'[c] = "draining" /\ \A d \in Clients \ {c} : phase'[d] = phase[d]
  BY <1>2 DEF ReleaseLast, TypeOK
<1>6. /\ running'[v] = "unsubscribing" /\ rejecting'[v] = FALSE
      /\ venueEntries[v] # NoHandlers
      /\ UNCHANGED <<target, disposer, venueEntries, operations>>
  BY <1>1 DEF ReleaseLast, TypeOK
<1>7. \A d \in Clients : target[d][1] = v =>
         phase[d] # "orphaned" /\ phase[d] # "draining"
  BY <1>1, <1>2, <1>3, UsedAtRest
<1>8. QueuePhases(v)'
  <2>1. \A i \in DOMAIN operations[v] : IsCall(operations[v][i]) =>
          operations[v][i].client \in Clients
    BY ElementOfSeq, LenProperties DEF TypeOK, Operation, IsCall
  <2>2. \A i \in DOMAIN operations[v] : i # 1 /\ IsCall(operations[v][i]) =>
          operations[v][i].client # c
    BY <1>1, <1>2, HeadCall
  <2>3. Head(operations[v]) = operations[v][1] /\ 1 \in DOMAIN operations[v]
    BY <1>1, TailFacts DEF TypeOK
  <2>. QED  BY <1>1, <1>2, <1>5, <1>6, <2>1, <2>2, <2>3
            DEF VenueInv, QueuePhases, IsCall, HeadClient
<1>9. OneCallEach(v)' /\ DisposeIsLast(v)' /\ UsedHasEntry(v)'
  BY <1>6 DEF VenueInv, OneCallEach, DisposeIsLast, UsedHasEntry, IsCall
<1>10. HeadFits(v)'
  BY <1>1, <1>2, <1>5, <1>6 DEF HeadFits, HeadClient
<1>11. LostToDispose(v)'
  <2>1. DrainingHead(v, c)'
    BY <1>1, <1>2, <1>6 DEF DrainingHead, HeadClient
  <2>. QED  BY <1>5, <1>6, <1>7, <2>1 DEF LostToDispose
<1>12. RefCountExactAt(v)'
  <2>1. /\ Cardinality(Holders(v, r))' = Cardinality(Holders(v, r)) - 1
        /\ \A s \in Requests \ {r} : Holders(v, s)' = Holders(v, s)
    BY <1>2, <1>5, <1>6, <1>7, HoldersLose DEF Counted
  <2>2. Cardinality(Holders(v, r)') = 0
    BY <1>2, <1>3, <2>1 DEF VenueInv, RefCountExactAt
  <2>3. Holders(v, r)' = {}
    <3>1. IsFiniteSet(Holders(v, r)')
      BY ClientsAssumption, FS_Subset DEF Holders
    <3>. QED  BY <2>2, <3>1, FS_EmptySet
  <2>. QED  BY <1>2, <1>3, <1>4, <2>1, <2>2, <2>3 DEF VenueInv, RefCountExactAt
<1>. QED  BY <1>8, <1>9, <1>10, <1>11, <1>12 DEF VenueInv

\* dispose's operation on a venue in use.
LEMMA DisposeVenueVenue ==
  ASSUME TypeOK, NEW v \in Venues, VenueInv(v), DisposeVenue(v)
  PROVE  VenueInv(v)'
<1>1. /\ operations[v] # <<>> /\ Head(operations[v]).kind = "dispose"
      /\ rejecting'[v] = FALSE /\ running'[v] = "unsubscribing"
      /\ UNCHANGED <<target, disposer, operations>>
  BY DEF DisposeVenue, Ready, TypeOK
<1>2. \A r \in Requests : refCount'[v][r] = 0 /\ listeners'[v][r] = {}
  BY DEF DisposeVenue, TypeOK
<1>3. \A c \in Clients : target[c][1] = v =>
        /\ phase'[c] \notin Counted
        /\ phase[c] = "acquiring" => phase'[c] = "acquiring"
        /\ phase[c] \in {"releasing", "draining"} => phase'[c] = "draining"
  BY DEF DisposeVenue, Counted
<1>4. \A i \in DOMAIN operations[v] : IsCall(operations[v][i]) =>
        operations[v][i].client \in Clients
  BY ElementOfSeq, LenProperties DEF TypeOK, Operation, IsCall
<1>5. Head(operations[v]) = operations[v][1] /\ DOMAIN operations[v] = 1 .. Len(operations[v])
      /\ 1 \in DOMAIN operations[v]
  BY <1>1, TailFacts DEF TypeOK
<1>6. QueuePhases(v)'
  BY <1>1, <1>3, <1>4 DEF VenueInv, QueuePhases, IsCall
<1>7. OneCallEach(v)' /\ DisposeIsLast(v)'
  BY <1>1 DEF VenueInv, OneCallEach, DisposeIsLast, IsCall
<1>8. HeadFits(v)'
  BY <1>1 DEF HeadFits
<1>9. UsedHasEntry(v)'
  BY <1>2 DEF UsedHasEntry
<1>10. LostToDispose(v)'
  <2>1. disposer # "idle" /\ \A i \in DOMAIN operations[v] : operations[v][i].kind # "acquire"
    BY <1>1, <1>5 DEF VenueInv, DisposeIsLast
  <2>2. Closed(v)'
    BY <1>1, <1>2, <2>1 DEF Closed
  <2>. QED  BY <2>2 DEF LostToDispose
<1>11. RefCountExactAt(v)'
  <2>1. \A r \in Requests : Holders(v, r)' = {}
    BY <1>1, <1>3 DEF Holders, Counted
  <2>. QED  BY <1>2, <2>1, FS_EmptySet DEF RefCountExactAt
<1>. QED  BY <1>6, <1>7, <1>8, <1>9, <1>10, <1>11 DEF VenueInv

\* dispose's operation on a venue nobody uses any more.
LEMMA DisposeNothingVenue ==
  ASSUME TypeOK, NEW v \in Venues, VenueInv(v), DisposeNothing(v)
  PROVE  VenueInv(v)'
<1>1. /\ operations[v] # <<>> /\ Head(operations[v]).kind = "dispose"
      /\ running[v] = "none" /\ running'[v] = "none" /\ rejecting'[v] = FALSE
      /\ Settle(v)
      /\ UNCHANGED <<target, disposer, phase, refCount, listeners, venueEntries>>
  BY DEF DisposeNothing, Ready, TypeOK
<1>2. QueuePhases(v)' /\ OneCallEach(v)' /\ DisposeIsLast(v)' /\ HeadFits(v)'
  BY <1>1, SettleQueue, SettleHead
<1>3. LostToDispose(v)'
  <2>1. \A d \in Clients : phase'[d] = phase[d] /\ ~ DrainingHead(v, d)
    BY <1>1 DEF DrainingHead
  <2>. QED  BY <1>1, <2>1, SettleLost
<1>4. UsedHasEntry(v)'
  BY <1>1 DEF VenueInv, UsedHasEntry
<1>5. RefCountExactAt(v)'
  BY <1>1, HoldersKeep DEF VenueInv
<1>. QED  BY <1>2, <1>3, <1>4, <1>5 DEF VenueInv

\* The upstream release has resolved, for a release or a dispose.
LEMMA UnsubscribedVenue ==
  ASSUME TypeOK, NEW v \in Venues, VenueInv(v), Unsubscribed(v)
  PROVE  VenueInv(v)'
<1>1. /\ running[v] = "unsubscribing" /\ operations[v] # <<>> /\ rejecting[v] = FALSE
      /\ Head(operations[v]).kind \in {"release", "dispose"}
      /\ Head(operations[v]).kind = "release" => phase[HeadClient(v)] = "draining"
  <2>1. /\ running[v] = "unsubscribing" /\ operations[v] # <<>> /\ rejecting[v] = FALSE
        /\ Head(operations[v]).kind # "acquire"
        /\ Head(operations[v]).kind = "release" => phase[HeadClient(v)] = "draining"
    BY DEF Unsubscribed, VenueInv, HeadFits, TypeOK
  <2>. QED  BY <2>1, HeadType
<1>2. /\ Settle(v) /\ running'[v] = "none" /\ rejecting'[v] = FALSE
      /\ UNCHANGED <<target, disposer, refCount, listeners>>
  BY <1>1 DEF Unsubscribed, TypeOK
<1>3. \A d \in Clients :
        \/ phase'[d] = phase[d] /\ ~ DrainingHead(v, d)
        \/ /\ Head(operations[v]).kind = "release" /\ d = HeadClient(v)
           /\ phase[d] = "draining" /\ phase'[d] = "free"
  BY <1>1 DEF Unsubscribed, DrainingHead, TypeOK
<1>4. QueuePhases(v)' /\ OneCallEach(v)' /\ DisposeIsLast(v)' /\ HeadFits(v)'
  BY <1>1, <1>2, <1>3, SettleQueue, SettleHead
<1>5. LostToDispose(v)'
  BY <1>1, <1>2, <1>3, SettleLost
<1>6. UsedHasEntry(v)'
  BY <1>2 DEF Unsubscribed, VenueInv, UsedHasEntry, TypeOK
<1>7. RefCountExactAt(v)'
  BY <1>2, <1>3, HoldersKeep DEF VenueInv, Counted
<1>. QED  BY <1>4, <1>5, <1>6, <1>7 DEF VenueInv
-----------------------------------------------------------------------------
(* The inductive invariant: every step *)

\* A step of the chain of v touches neither the queue nor the entries of
\* another venue, nor the clients of another venue.
LEMMA ChainFrame ==
  ASSUME TypeOK, NEW v \in Venues, VenueInv(v), NEW w \in Venues \ {v}, ChainStep(v)
  PROVE  /\ UNCHANGED <<operations[w], running[w], rejecting[w], refCount[w],
                       listeners[w], venueEntries[w], target>>
         /\ \A c \in Clients : target[c][1] = w => phase'[c] = phase[c]
         /\ disposer # "idle" => disposer' # "idle"
<1>1. operations[v] # <<>>
  BY DEF ChainStep, JoinEntry, SubscribeUpstream, Subscribed, SubscribeRejected,
     SkipRejected, ReleaseNothing, ReleaseShared, ReleaseLast, DisposeVenue,
     DisposeNothing, Unsubscribed, Ready, VenueInv, HeadFits
<1>2. UNCHANGED <<operations[w], running[w], rejecting[w], target>>
  BY DEF ChainStep, JoinEntry, SubscribeUpstream, Subscribed, SubscribeRejected,
     SkipRejected, ReleaseNothing, ReleaseShared, ReleaseLast, DisposeVenue,
     DisposeNothing, Unsubscribed, Settle, TypeOK
<1>3. UNCHANGED <<refCount[w], listeners[w], venueEntries[w]>>
  BY DEF ChainStep, JoinEntry, SubscribeUpstream, Subscribed, SubscribeRejected,
     SkipRejected, ReleaseNothing, ReleaseShared, ReleaseLast, DisposeVenue,
     DisposeNothing, Unsubscribed, TypeOK
<1>4. disposer # "idle" => disposer' # "idle"
  BY DEF ChainStep, JoinEntry, SubscribeUpstream, Subscribed, SubscribeRejected,
     SkipRejected, ReleaseNothing, ReleaseShared, ReleaseLast, DisposeVenue,
     DisposeNothing, Unsubscribed
<1>5. ASSUME NEW c \in Clients, target[c][1] = w PROVE phase'[c] = phase[c]
  <2>1. Head(operations[v]).kind # "dispose" => c # HeadClient(v)
    BY <1>1, <1>5, HeadCall
  <2>2. Head(operations[v]).kind \in {"acquire", "release", "dispose"}
    BY <1>1, HeadType
  <2>3. ASSUME Subscribed(v) \/ SubscribeRejected(v)
        PROVE  Head(operations[v]).kind = "acquire"
    BY <2>3 DEF Subscribed, SubscribeRejected, VenueInv, HeadFits
  <2>4. CASE JoinEntry(v) \/ ReleaseNothing(v) \/ ReleaseShared(v) \/ ReleaseLast(v)
    BY <2>1, <2>4 DEF JoinEntry, ReleaseNothing, ReleaseShared, ReleaseLast, Ready, TypeOK
  <2>5. CASE Subscribed(v) \/ SubscribeRejected(v)
    BY <2>1, <2>3, <2>5 DEF Subscribed, SubscribeRejected, TypeOK
  <2>6. CASE SkipRejected(v)
    BY <2>1, <2>6 DEF SkipRejected, HeadClient, TypeOK
  <2>7. CASE Unsubscribed(v)
    BY <2>1, <2>7 DEF Unsubscribed, TypeOK
  <2>8. CASE SubscribeUpstream(v) \/ DisposeNothing(v)
    BY <2>8 DEF SubscribeUpstream, DisposeNothing
  <2>9. CASE DisposeVenue(v)
    BY <1>5, <2>9 DEF DisposeVenue
  <2>. QED  BY <2>4, <2>5, <2>6, <2>7, <2>8, <2>9 DEF ChainStep
<1>. QED  BY <1>2, <1>3, <1>4, <1>5

\* IInv is inductive.
LEMMA InvStep ==
  ASSUME IInv, [Next]_vars
  PROVE  IInv'
<1>1. TypeOK /\ \A v \in Venues : VenueInv(v) /\ HeadFits(v)
  BY DEF IInv, VenueInv
<1>2. TypeOK'
  BY <1>1, TypeStep
<1>3. phase' \in [Clients -> Phase]
  BY <1>2 DEF TypeOK
<1>4. ASSUME NEW w \in Venues PROVE VenueInv(w)'
  <2>1. ASSUME NEW c \in Clients, Acquire(c) \/ Release(c) PROVE VenueInv(w)'
    <3>1. CASE target[c][1] = w
      <4>1. UNCHANGED target
        BY <2>1 DEF Acquire, Release
      <4>. QED  BY <1>1, <2>1, <3>1, <4>1, AcquireVenue, ReleaseVenue
    <3>2. CASE target[c][1] # w
      <4>1. /\ UNCHANGED <<operations[w], running[w], rejecting[w], refCount[w],
                          listeners[w], venueEntries[w], target, disposer>>
            /\ \A d \in Clients : target[d][1] = w => phase'[d] = phase[d]
        BY <1>1, <2>1, <3>2 DEF Acquire, Release, Enqueue, TypeOK
      <4>. QED  BY <1>1, <1>3, <4>1, OtherVenue
    <3>. QED  BY <3>1, <3>2
  <2>2. CASE DisposeCall \/ DisposeReturn
    <3>1. /\ UNCHANGED <<operations, running, rejecting, refCount, listeners,
                        venueEntries, target, phase>>
          /\ disposer # "idle" => disposer' # "idle"
      BY <2>2 DEF DisposeCall, DisposeReturn
    <3>. QED  BY <1>1, <1>3, <3>1, OtherVenue
  <2>3. ASSUME NEW v \in Venues, DisposeVisit(v) PROVE VenueInv(w)'
    <3>1. CASE v = w
      BY <1>1, <2>3, <3>1, DisposeVisitVenue
    <3>2. CASE v # w
      <4>1. UNCHANGED <<operations[w], running[w], rejecting[w], refCount[w],
                        listeners[w], venueEntries[w], target, phase, disposer>>
        BY <1>1, <2>3, <3>2 DEF DisposeVisit, Enqueue, TypeOK
      <4>. QED  BY <1>1, <1>3, <4>1, OtherVenue
    <3>. QED  BY <3>1, <3>2
  <2>4. ASSUME NEW v \in Venues, ChainStep(v) PROVE VenueInv(w)'
    <3>1. CASE v = w
      BY <1>1, <2>4, <3>1, JoinEntryVenue, SubscribeUpstreamVenue, SubscribedVenue,
         SubscribeRejectedVenue, SkipRejectedVenue, ReleaseNothingVenue,
         ReleaseSharedVenue, ReleaseLastVenue, DisposeVenueVenue, DisposeNothingVenue,
         UnsubscribedVenue DEF ChainStep
    <3>2. CASE v # w
      BY <1>1, <1>3, <2>4, <3>2, ChainFrame, OtherVenue
    <3>. QED  BY <3>1, <3>2
  <2>5. CASE UNCHANGED vars
    <3>1. UNCHANGED <<operations, running, rejecting, refCount, listeners,
                      venueEntries, target, phase, disposer>>
      BY <2>5 DEF vars, coordinatorVars
    <3>. QED  BY <1>1, <1>3, <3>1, OtherVenue
  <2>. QED  BY <2>1, <2>2, <2>3, <2>4, <2>5 DEF Next
<1>. QED  BY <1>2, <1>4 DEF IInv

\* Nothing is queued and nobody holds anything at the start.
LEMMA InitInv ==
  ASSUME Init
  PROVE  IInv
<1>1. TypeOK
  <2>1. operations \in [Venues -> Seq(Operation)]
    BY EmptySeq DEF Init
  <2>. QED  BY <2>1 DEF Init, AdapterInit, TypeOK, AdapterTypeOK, Phase
<1>2. ASSUME NEW v \in Venues PROVE VenueInv(v)
  <2>1. DOMAIN operations[v] = {}
    BY EmptySeq, LenProperties DEF Init
  <2>2. QueuePhases(v) /\ OneCallEach(v) /\ DisposeIsLast(v)
    BY <2>1 DEF QueuePhases, OneCallEach, DisposeIsLast
  <2>3. HeadFits(v) /\ UsedHasEntry(v)
    BY DEF Init, HeadFits, UsedHasEntry
  <2>4. LostToDispose(v)
    BY DEF Init, LostToDispose
  <2>5. RefCountExactAt(v)
    <3>1. \A r \in Requests : Holders(v, r) = {}
      BY DEF Init, Holders
    <3>. QED  BY <3>1, FS_EmptySet DEF Init, RefCountExactAt
  <2>. QED  BY <2>2, <2>3, <2>4, <2>5 DEF VenueInv
<1>. QED  BY <1>1, <1>2 DEF IInv

\* IInv holds in every state of the coordinator.
THEOREM Invariance == Spec => []IInv
<1>1. Init => IInv
  BY InitInv
<1>2. IInv /\ [Next]_vars => IInv'
  BY InvStep
<1>. QED  BY <1>1, <1>2, PTL DEF Spec

\* The coordinator and its adapters keep their types: the counts of the
\* adapter never go below zero, and dispose and release only ever find calls.
THEOREM TypeCorrect == Spec => []TypeOK
<1>1. IInv => TypeOK
  BY DEF IInv
<1>. QED  BY <1>1, Invariance, PTL

\* For any number of venues, requests and clients, and any interleaving of
\* acquire, release, dispose, adapter answers and rejections: refCount counts
\* exactly the clients whose release has not run, and their listeners are the
\* ones registered.
THEOREM RefCountsAreExact == Spec => []RefCountExact
<1>1. IInv => RefCountExact
  BY DEF IInv, VenueInv, RefCountExact
<1>. QED  BY <1>1, Invariance, PTL
-----------------------------------------------------------------------------
(* Without rejections: the adapter's counts and the wire agree             *)

\* The requests that have an entry.
Used(v) == {r \in Requests : refCount[v][r] > 0}

\* What the adapter should count: the entries, and the one the head waits for.
Counting(v) ==
  Used(v) \cup (IF running[v] \in {"subscribing", "subscribed"} THEN {HeadRequest(v)} ELSE {})

CountsAgree(v) ==
  /\ \A r \in Requests : requestRefCounts[v][r] = IF r \in Counting(v) THEN 1 ELSE 0
  /\ \A h \in Handlers :
       handlerRefCounts[v][h] = IF h = venueEntries[v] THEN Cardinality(Counting(v)) ELSE 0

\* What is used is streamed, and is not what is being unsubscribed.
UsedIsStreamed(v) ==
  /\ Used(v) \subseteq wire[v] \ dropping[v]
  /\ running[v] # "unsubscribing" => dropping[v] = {}

CleanVenue(v) ==
  /\ rejecting[v] = FALSE /\ running[v] # "subscribed"
  /\ CountsAgree(v)
  /\ UsedIsStreamed(v)

CleanInv == IInv /\ \A v \in Venues : CleanVenue(v)

\* Used and counted requests are finitely many.
LEMMA CountingFinite ==
  ASSUME TypeOK, NEW v \in Venues
  PROVE  IsFiniteSet(Used(v)) /\ Cardinality(Used(v)) \in Nat
  BY RequestsAssumption, FS_Subset, FS_CardinalityType DEF Used

\* A venue whose entries and counts stay as they are, and whose head does while
\* it waits, stays clean.
LEMMA CleanKeeps ==
  ASSUME NEW v \in Venues, CleanVenue(v),
         UNCHANGED <<running[v], rejecting[v], refCount[v], venueEntries[v], dropping[v],
                     requestRefCounts[v], handlerRefCounts[v], wire[v]>>,
         running[v] # "none" => HeadRequest(v)' = HeadRequest(v)
  PROVE  CleanVenue(v)'
<1>1. Used(v)' = Used(v)
  BY DEF Used
<1>2. Counting(v)' = Counting(v)
  BY <1>1 DEF Counting
<1>. QED  BY <1>1, <1>2 DEF CleanVenue, CountsAgree, UsedIsStreamed

\* What is appended to a queue is not what its head waits for.
LEMMA EnqueueClean ==
  ASSUME TypeOK, NEW v \in Venues, VenueInv(v), CleanVenue(v),
         NEW w \in Venues, NEW op \in Operation, Enqueue(w, op),
         UNCHANGED <<adapterVars, running, rejecting, refCount, venueEntries, dropping, target>>
  PROVE  CleanVenue(v)'
<1>1. ASSUME running[v] # "none" PROVE HeadRequest(v)' = HeadRequest(v)
  <2>1. operations[v] # <<>> /\ operations[v] \in Seq(Operation)
    BY <1>1 DEF VenueInv, HeadFits, TypeOK
  <2>2. Head(operations'[v]) = Head(operations[v])
    BY <2>1, AppendFacts DEF Enqueue, TypeOK
  <2>. QED  BY <2>2 DEF HeadRequest, HeadClient
<1>. QED  BY <1>1, CleanKeeps DEF adapterVars

\* acquire of a request that has its entry: the adapter is not asked.
LEMMA JoinEntryClean ==
  ASSUME TypeOK, NEW v \in Venues, VenueInv(v), CleanVenue(v), JoinEntry(v)
  PROVE  CleanVenue(v)'
<1>1. HeadRequest(v) \in Requests
  BY HeadType DEF JoinEntry, Ready
<1>2. /\ running[v] = "none" /\ running'[v] = "none"
      /\ UNCHANGED <<rejecting, venueEntries, dropping, adapterVars>>
  BY DEF JoinEntry, Ready
<1>3. \A r \in Requests : refCount'[v][r] > 0 <=> refCount[v][r] > 0
  BY <1>1 DEF JoinEntry, TypeOK
<1>4. Used(v)' = Used(v) /\ Counting(v)' = Counting(v)
  BY <1>2, <1>3 DEF Used, Counting
<1>. QED  BY <1>2, <1>4 DEF CleanVenue, CountsAgree, UsedIsStreamed, adapterVars

\* The adapter counts the request the head now waits for, under the venue's one
\* handlers object; nobody has counted the request before.
LEMMA SubscribeUpstreamClean ==
  ASSUME TypeOK, NEW v \in Venues, VenueInv(v), CleanVenue(v), SubscribeUpstream(v)
  PROVE  CleanVenue(v)'
<1>1. PICK r \in Requests : r = HeadRequest(v) /\ refCount[v][r] = 0
  BY HeadType DEF SubscribeUpstream, Ready
<1>2. PICK h \in Handlers :
        /\ IF venueEntries[v] = NoHandlers THEN handlerRefCounts[v][h] = 0
           ELSE h = venueEntries[v]
        /\ venueEntries' = [venueEntries EXCEPT ![v] = h]
        /\ CountSubscribe(v, r, h)
  BY <1>1 DEF SubscribeUpstream
<1>3. /\ running[v] = "none" /\ rejecting'[v] = FALSE
      /\ UNCHANGED <<refCount, dropping, wire, operations, target>>
  BY DEF SubscribeUpstream, Ready, CleanVenue
<1>4. Counting(v) = Used(v) /\ r \notin Used(v) /\ Used(v)' = Used(v)
  BY <1>1, <1>3 DEF Counting, Used
<1>5. requestRefCounts[v][r] = 0
  BY <1>4 DEF CleanVenue, CountsAgree
<1>6. running'[v] = "subscribing"
  <2>1. FirstReference(v, HeadRequest(v))
    BY <1>1, <1>5 DEF FirstReference
  <2>2. running' = [running EXCEPT ![v] = "subscribing"]
    BY <2>1 DEF SubscribeUpstream
  <2>. QED  BY <2>2 DEF TypeOK
<1>7. Counting(v)' = Used(v) \cup {r}
  BY <1>1, <1>3, <1>4, <1>6 DEF Counting, HeadRequest, HeadClient
<1>8. \A s \in Requests : requestRefCounts'[v][s] = IF s \in Counting(v)' THEN 1 ELSE 0
  BY <1>2, <1>4, <1>5, <1>7 DEF CountSubscribe, CleanVenue, CountsAgree, TypeOK, AdapterTypeOK
<1>9. Cardinality(Used(v) \cup {r}) = Cardinality(Used(v)) + 1 /\ Cardinality(Used(v)) \in Nat
  BY <1>4, CountingFinite, FS_AddElement
<1>10. handlerRefCounts[v][h] = Cardinality(Used(v))
  <2>1. CASE venueEntries[v] = NoHandlers
    <3>1. Used(v) = {}
      BY <2>1 DEF VenueInv, UsedHasEntry, Used
    <3>. QED  BY <1>2, <2>1, <3>1, FS_EmptySet
  <2>2. CASE venueEntries[v] # NoHandlers
    BY <1>2, <1>4, <2>2 DEF CleanVenue, CountsAgree
  <2>. QED  BY <2>1, <2>2
<1>11. \A g \in Handlers \ {h} : handlerRefCounts[v][g] = 0
  BY <1>2, NoHandlersAssumption DEF CleanVenue, CountsAgree
<1>12. \A g \in Handlers :
         handlerRefCounts'[v][g] = IF g = venueEntries'[v] THEN Cardinality(Counting(v)') ELSE 0
  <2>1. venueEntries'[v] = h
    BY <1>2 DEF TypeOK
  <2>2. /\ handlerRefCounts'[v][h] = handlerRefCounts[v][h] + 1
        /\ \A g \in Handlers \ {h} : handlerRefCounts'[v][g] = handlerRefCounts[v][g]
    BY <1>2 DEF CountSubscribe, TypeOK, AdapterTypeOK
  <2>. QED  BY <1>7, <1>9, <1>10, <1>11, <2>1, <2>2
<1>. QED  BY <1>3, <1>4, <1>6, <1>8, <1>12 DEF CleanVenue, CountsAgree, UsedIsStreamed

\* The request the adapter has counted gets its entry, and is streamed.
LEMMA SubscribedClean ==
  ASSUME TypeOK, NEW v \in Venues, VenueInv(v), CleanVenue(v), Subscribed(v)
  PROVE  CleanVenue(v)'
<1>1. /\ running[v] = "subscribing" /\ running'[v] = "none" /\ dropping[v] = {}
      /\ operations[v] # <<>> /\ Head(operations[v]).kind = "acquire"
      /\ UNCHANGED <<requestRefCounts, handlerRefCounts, venueEntries, dropping, rejecting>>
  BY DEF Subscribed, CleanVenue, UsedIsStreamed, VenueInv, HeadFits, TypeOK
<1>2. PICK r \in Requests : r = HeadRequest(v)
  BY <1>1, HeadType
<1>3. /\ refCount'[v][r] = 1
      /\ \A s \in Requests \ {r} : refCount'[v][s] = refCount[v][s]
      /\ wire'[v] = wire[v] \cup {r}
  BY <1>1, <1>2 DEF Subscribed, TypeOK, AdapterTypeOK
<1>4. Used(v)' = Used(v) \cup {r}
  BY <1>3 DEF Used
<1>5. Counting(v)' = Counting(v)
  BY <1>1, <1>2, <1>4 DEF Counting
<1>. QED  BY <1>1, <1>3, <1>4, <1>5 DEF CleanVenue, CountsAgree, UsedIsStreamed

\* A release that is not the last leaves its request's entry.
LEMMA ReleaseSharedClean ==
  ASSUME TypeOK, NEW v \in Venues, VenueInv(v), CleanVenue(v), ReleaseShared(v)
  PROVE  CleanVenue(v)'
<1>1. HeadRequest(v) \in Requests
  BY HeadType DEF ReleaseShared, Ready
<1>2. /\ running[v] = "none" /\ running'[v] = "none"
      /\ UNCHANGED <<rejecting, venueEntries, dropping, adapterVars>>
  BY DEF ReleaseShared, Ready
<1>3. \A r \in Requests : refCount'[v][r] > 0 <=> refCount[v][r] > 0
  BY <1>1 DEF ReleaseShared, LastHolder, TypeOK
<1>4. Used(v)' = Used(v) /\ Counting(v)' = Counting(v)
  BY <1>2, <1>3 DEF Used, Counting
<1>. QED  BY <1>2, <1>4 DEF CleanVenue, CountsAgree, UsedIsStreamed, adapterVars

\* The last release takes its request off both levels.
LEMMA ReleaseLastClean ==
  ASSUME TypeOK, NEW v \in Venues, VenueInv(v), CleanVenue(v), ReleaseLast(v)
  PROVE  CleanVenue(v)'
<1>1. PICK r \in Requests : r = HeadRequest(v) /\ refCount[v][r] = 1
  BY HeadType DEF ReleaseLast, Ready, LastHolder
<1>2. PICK h \in Handlers : h = venueEntries[v] /\ CountRelease(v, {r}, h)
  BY <1>1 DEF ReleaseLast, TypeOK
<1>3. /\ running[v] = "none" /\ running'[v] = "unsubscribing"
      /\ dropping'[v] \subseteq {r}
      /\ UNCHANGED <<wire, venueEntries, rejecting>>
  BY <1>1 DEF ReleaseLast, Ready, LastReferences, TypeOK
<1>4. refCount'[v][r] = 0 /\ \A s \in Requests \ {r} : refCount'[v][s] = refCount[v][s]
  BY <1>1 DEF ReleaseLast, TypeOK
<1>5. r \in Used(v) /\ Used(v)' = Used(v) \ {r}
  BY <1>1, <1>4 DEF Used
<1>6. Counting(v) = Used(v) /\ Counting(v)' = Used(v) \ {r}
  BY <1>3, <1>5 DEF Counting
<1>7. \A s \in Requests : requestRefCounts'[v][s] = IF s \in Counting(v)' THEN 1 ELSE 0
  BY <1>2, <1>6 DEF CountRelease, Less, CleanVenue, CountsAgree, TypeOK, AdapterTypeOK
<1>8. /\ Cardinality(Used(v) \ {r}) = Cardinality(Used(v)) - 1
      /\ Cardinality(Used(v)) \in Nat /\ Cardinality(Used(v) \ {r}) \in Nat
      /\ Cardinality({r}) = 1
  <2>1. IsFiniteSet(Used(v)) /\ Cardinality(Used(v)) \in Nat
    BY CountingFinite
  <2>2. IsFiniteSet(Used(v) \ {r})
    BY <2>1, FS_Subset
  <2>. QED  BY <1>5, <2>1, <2>2, FS_RemoveElement, FS_CardinalityType, FS_Singleton
<1>9. \A g \in Handlers :
        handlerRefCounts'[v][g] = IF g = venueEntries'[v] THEN Cardinality(Counting(v)') ELSE 0
  <2>1. /\ handlerRefCounts[v][h] = Cardinality(Used(v))
        /\ \A g \in Handlers \ {h} : handlerRefCounts[v][g] = 0
    BY <1>2, <1>6 DEF CleanVenue, CountsAgree
  <2>2. /\ handlerRefCounts'[v][h] = IF handlerRefCounts[v][h] > Cardinality({r})
                                     THEN handlerRefCounts[v][h] - Cardinality({r}) ELSE 0
        /\ \A g \in Handlers \ {h} : handlerRefCounts'[v][g] = handlerRefCounts[v][g]
    BY <1>2 DEF CountRelease, TypeOK, AdapterTypeOK
  <2>. QED  BY <1>2, <1>3, <1>6, <1>8, <2>1, <2>2
<1>. QED  BY <1>3, <1>5, <1>7, <1>9 DEF CleanVenue, CountsAgree, UsedIsStreamed

\* dispose gives back all that its venue's entry has counted.
LEMMA DisposeVenueClean ==
  ASSUME TypeOK, NEW v \in Venues, VenueInv(v), CleanVenue(v), DisposeVenue(v)
  PROVE  CleanVenue(v)'
<1>1. PICK h \in Handlers : h = venueEntries[v]
  BY DEF DisposeVenue, TypeOK
<1>2. /\ CountRelease(v, Used(v), h)
      /\ running[v] = "none" /\ running'[v] = "unsubscribing"
      /\ venueEntries'[v] = NoHandlers
      /\ UNCHANGED <<wire, rejecting>>
  BY <1>1 DEF DisposeVenue, Ready, Used, TypeOK
<1>3. Used(v)' = {} /\ Counting(v)' = {} /\ Counting(v) = Used(v)
  <2>1. \A r \in Requests : refCount'[v][r] = 0
    BY DEF DisposeVenue, TypeOK
  <2>. QED  BY <1>2, <2>1 DEF Used, Counting
<1>4. \A r \in Requests : requestRefCounts'[v][r] = 0
  BY <1>2, <1>3 DEF CountRelease, Less, CleanVenue, CountsAgree, TypeOK, AdapterTypeOK
<1>5. \A g \in Handlers : handlerRefCounts'[v][g] = 0
  <2>1. /\ handlerRefCounts[v][h] = Cardinality(Used(v))
        /\ \A g \in Handlers \ {h} : handlerRefCounts[v][g] = 0
    BY <1>1, <1>3 DEF CleanVenue, CountsAgree
  <2>2. /\ handlerRefCounts'[v][h] = IF handlerRefCounts[v][h] > Cardinality(Used(v))
                                     THEN handlerRefCounts[v][h] - Cardinality(Used(v)) ELSE 0
        /\ \A g \in Handlers \ {h} : handlerRefCounts'[v][g] = handlerRefCounts[v][g]
    BY <1>2 DEF CountRelease, TypeOK, AdapterTypeOK
  <2>. QED  BY <2>1, <2>2, CountingFinite
<1>. QED  BY <1>2, <1>3, <1>4, <1>5, NoHandlersAssumption DEF CleanVenue, CountsAgree, UsedIsStreamed

\* What has been unsubscribed is off the wire, and nobody uses it.
LEMMA UnsubscribedClean ==
  ASSUME TypeOK, NEW v \in Venues, VenueInv(v), CleanVenue(v), Unsubscribed(v)
  PROVE  CleanVenue(v)'
<1>1. /\ running[v] = "unsubscribing" /\ running'[v] = "none"
      /\ wire'[v] = wire[v] \ dropping[v] /\ dropping'[v] = {}
      /\ UNCHANGED <<requestRefCounts, handlerRefCounts, refCount, rejecting>>
  BY DEF Unsubscribed, TypeOK, AdapterTypeOK
<1>2. Used(v)' = Used(v) /\ Counting(v)' = Used(v) /\ Counting(v) = Used(v)
  BY <1>1 DEF Used, Counting
<1>3. \A h \in Handlers :
        handlerRefCounts'[v][h] = IF h = venueEntries'[v] THEN Cardinality(Counting(v)') ELSE 0
  <2>1. CASE \A r \in Requests : refCount[v][r] = 0
    <3>1. Used(v) = {} /\ venueEntries'[v] = NoHandlers
      BY <2>1 DEF Used, Unsubscribed, TypeOK
    <3>. QED  BY <1>1, <1>2, <3>1, NoHandlersAssumption, FS_EmptySet DEF CleanVenue, CountsAgree
  <2>2. CASE ~ \A r \in Requests : refCount[v][r] = 0
    <3>1. venueEntries'[v] = venueEntries[v]
      BY <2>2 DEF Unsubscribed, TypeOK
    <3>. QED  BY <1>1, <1>2, <3>1 DEF CleanVenue, CountsAgree
  <2>. QED  BY <2>1, <2>2
<1>. QED  BY <1>1, <1>2, <1>3 DEF CleanVenue, CountsAgree, UsedIsStreamed

\* A step of the chain of v leaves another venue's adapter as it is.
LEMMA AdapterFrame ==
  ASSUME TypeOK, NEW v \in Venues, NEW w \in Venues \ {v}, ChainStep(v)
  PROVE  UNCHANGED <<requestRefCounts[w], handlerRefCounts[w], wire[w], dropping[w]>>
<1>1. UNCHANGED <<requestRefCounts[w], handlerRefCounts[w]>>
  BY DEF ChainStep, JoinEntry, SubscribeUpstream, Subscribed, SubscribeRejected,
     SkipRejected, ReleaseNothing, ReleaseShared, ReleaseLast, DisposeVenue,
     DisposeNothing, Unsubscribed, CountSubscribe, CountRelease, adapterVars,
     TypeOK, AdapterTypeOK
<1>2. UNCHANGED <<wire[w], dropping[w]>>
  BY DEF ChainStep, JoinEntry, SubscribeUpstream, Subscribed, SubscribeRejected,
     SkipRejected, ReleaseNothing, ReleaseShared, ReleaseLast, DisposeVenue,
     DisposeNothing, Unsubscribed, adapterVars, TypeOK, AdapterTypeOK
<1>. QED  BY <1>1, <1>2

\* A step of a venue's chain keeps the venue clean when nothing is rejected.
LEMMA ChainClean ==
  ASSUME MaxFailures = 0, TypeOK, NEW v \in Venues, VenueInv(v), CleanVenue(v), ChainStep(v)
  PROVE  CleanVenue(v)'
<1>1. CASE ReleaseNothing(v)
  <2>1. running[v] = "none" /\ UNCHANGED <<adapterVars, running, rejecting, refCount,
                                          venueEntries, dropping>>
    BY <1>1 DEF ReleaseNothing, Ready
  <2>. QED  BY <2>1, CleanKeeps DEF adapterVars
<1>2. CASE DisposeNothing(v)
  <2>1. running[v] = "none" /\ UNCHANGED <<adapterVars, running, rejecting, refCount,
                                          venueEntries, dropping>>
    BY <1>2 DEF DisposeNothing, Ready
  <2>. QED  BY <2>1, CleanKeeps DEF adapterVars
<1>3. ~ SubscribeRejected(v)
  BY DEF SubscribeRejected, TypeOK
<1>4. ~ SkipRejected(v)
  BY DEF SkipRejected, CleanVenue
<1>. QED  BY <1>1, <1>2, <1>3, <1>4, JoinEntryClean, SubscribeUpstreamClean, SubscribedClean,
             ReleaseSharedClean, ReleaseLastClean, DisposeVenueClean, UnsubscribedClean
          DEF ChainStep

\* CleanInv is inductive when nothing is rejected.
LEMMA CleanStep ==
  ASSUME MaxFailures = 0, CleanInv, [Next]_vars
  PROVE  CleanInv'
<1>1. TypeOK /\ \A v \in Venues : VenueInv(v) /\ CleanVenue(v)
  BY DEF CleanInv, IInv
<1>2. IInv'
  BY InvStep DEF CleanInv
<1>3. ASSUME NEW w \in Venues PROVE CleanVenue(w)'
  <2>1. ASSUME NEW c \in Clients, Acquire(c) \/ Release(c) PROVE CleanVenue(w)'
    <3>1. target[c][1] \in Venues
      BY <1>1 DEF TypeOK
    <3>2. PICK op \in Operation : Enqueue(target[c][1], op)
      BY <2>1 DEF Acquire, Release, Operation
    <3>3. UNCHANGED <<adapterVars, running, rejecting, refCount, venueEntries, dropping, target>>
      BY <2>1 DEF Acquire, Release
    <3>. QED  BY <1>1, <3>1, <3>2, <3>3, EnqueueClean
  <2>2. CASE DisposeCall \/ DisposeReturn
    <3>1. UNCHANGED <<adapterVars, running, rejecting, refCount, venueEntries, dropping,
                      operations, target>>
      BY <2>2 DEF DisposeCall, DisposeReturn
    <3>. QED  BY <1>1, <3>1, CleanKeeps DEF adapterVars, HeadRequest, HeadClient
  <2>3. ASSUME NEW v \in Venues, DisposeVisit(v) PROVE CleanVenue(w)'
    <3>1. PICK op \in Operation : Enqueue(v, op)
      BY <2>3 DEF DisposeVisit, Operation
    <3>2. UNCHANGED <<adapterVars, running, rejecting, refCount, venueEntries, dropping, target>>
      BY <2>3 DEF DisposeVisit
    <3>. QED  BY <1>1, <3>1, <3>2, EnqueueClean
  <2>4. ASSUME NEW v \in Venues, ChainStep(v) PROVE CleanVenue(w)'
    <3>1. CASE v = w
      BY <1>1, <2>4, <3>1, ChainClean
    <3>2. CASE v # w
      <4>1. UNCHANGED <<operations[w], running[w], rejecting[w], refCount[w],
                        venueEntries[w], target>>
        BY <1>1, <2>4, <3>2, ChainFrame
      <4>2. UNCHANGED <<requestRefCounts[w], handlerRefCounts[w], wire[w], dropping[w]>>
        BY <1>1, <2>4, <3>2, AdapterFrame
      <4>. QED  BY <1>1, <4>1, <4>2, CleanKeeps DEF HeadRequest, HeadClient
    <3>. QED  BY <3>1, <3>2
  <2>5. CASE UNCHANGED vars
    <3>1. UNCHANGED <<adapterVars, running, rejecting, refCount, venueEntries, dropping,
                      operations, target>>
      BY <2>5 DEF vars, coordinatorVars
    <3>. QED  BY <1>1, <3>1, CleanKeeps DEF adapterVars, HeadRequest, HeadClient
  <2>. QED  BY <2>1, <2>2, <2>3, <2>4, <2>5 DEF Next
<1>. QED  BY <1>2, <1>3 DEF CleanInv

\* Nothing is counted at the start.
LEMMA CleanInit ==
  ASSUME Init
  PROVE  CleanInv
<1>1. IInv
  BY InitInv
<1>2. ASSUME NEW v \in Venues PROVE CleanVenue(v)
  <2>1. Used(v) = {} /\ Counting(v) = {}
    BY DEF Init, Used, Counting
  <2>. QED  BY <2>1, FS_EmptySet DEF Init, AdapterInit, CleanVenue, CountsAgree, UsedIsStreamed
<1>. QED  BY <1>1, <1>2 DEF CleanInv

\* Who holds a request, or is about to give it back, holds one in use.
LEMMA HolderUses ==
  ASSUME CleanInv, NEW c \in Clients, phase[c] = "held"
  PROVE  /\ target[c][1] \in Venues /\ target[c][2] \in Used(target[c][1])
         /\ target[c] = <<target[c][1], target[c][2]>>
<1>1. target[c] \in Venues \X Requests
  BY DEF CleanInv, IInv, TypeOK
<1>2. PICK v \in Venues, r \in Requests : target[c] = <<v, r>>
  BY <1>1
<1>3. c \in Holders(v, r)
  BY <1>2 DEF Holders
<1>4. IsFiniteSet(Holders(v, r))
  BY ClientsAssumption, FS_Subset DEF Holders
<1>5. Cardinality(Holders(v, r)) \in Nat /\ Cardinality(Holders(v, r)) # 0
  BY <1>3, <1>4, FS_EmptySet, FS_CardinalityType
<1>6. refCount[v][r] > 0
  BY <1>5 DEF CleanInv, IInv, VenueInv, RefCountExactAt
<1>. QED  BY <1>2, <1>6 DEF Used

\* CleanInv holds in every state, when nothing is rejected.
THEOREM CleanInvariance ==
  ASSUME MaxFailures = 0
  PROVE  Spec => []CleanInv
<1>1. Init => CleanInv
  BY CleanInit
<1>2. CleanInv /\ [Next]_vars => CleanInv'
  BY CleanStep
<1>. QED  BY <1>1, <1>2, PTL DEF Spec

\* As long as subscribeChain does not reject, the counts of the adapters agree
\* with the coordinator's whenever a venue is at rest, whatever the constants.
THEOREM AdaptersAgree ==
  ASSUME MaxFailures = 0
  PROVE  Spec => []AdapterAgrees
<1>1. CleanInv => AdapterAgrees
  <2> SUFFICES ASSUME CleanInv, NEW v \in Venues, running[v] = "none"
               PROVE  /\ \A r \in Requests :
                           requestRefCounts[v][r] = IF refCount[v][r] > 0 THEN 1 ELSE 0
                      /\ deltaHandlers(v) = IF \E r \in Requests : refCount[v][r] > 0
                                            THEN {venueEntries[v]} ELSE {}
    BY DEF AdapterAgrees
  <2>1. TypeOK /\ VenueInv(v) /\ CleanVenue(v)
    BY DEF CleanInv, IInv
  <2>2. Counting(v) = Used(v)
    BY DEF Counting
  <2>3. CASE Used(v) = {}
    BY <2>1, <2>2, <2>3, FS_EmptySet DEF CleanVenue, CountsAgree, deltaHandlers, Used
  <2>4. CASE Used(v) # {}
    <3>1. venueEntries[v] \in Handlers
      BY <2>1, <2>4 DEF VenueInv, UsedHasEntry, Used, TypeOK
    <3>2. Cardinality(Used(v)) \in Nat /\ Cardinality(Used(v)) # 0
      BY <2>1, <2>4, CountingFinite, FS_EmptySet
    <3>. QED  BY <2>1, <2>2, <2>4, <3>1, <3>2 DEF CleanVenue, CountsAgree, deltaHandlers, Used
  <2>. QED  BY <2>3, <2>4
<1>. QED  BY <1>1, CleanInvariance, PTL

\* As long as subscribeChain does not reject, who owns a handle is streamed,
\* whatever the constants.
THEOREM HoldersAreFed ==
  ASSUME MaxFailures = 0
  PROVE  Spec => []HeldIsFed
<1>1. CleanInv => HeldIsFed
  BY HolderUses DEF CleanInv, CleanVenue, UsedIsStreamed, HeldIsFed
<1>. QED  BY <1>1, CleanInvariance, PTL
-----------------------------------------------------------------------------
(* Without rejections: every step is a step of SharedFeed, or none         *)

\* The feed as SharedFeed sees it.
Held == {d \in Clients : phase[d] = "held"}
Holding == {<<c, target[c]>> : c \in Held}
Fed == {t \in Venues \X Requests : t[2] \in wire[t[1]]}

\* Where neither handles nor the wire change, SharedFeed does not.
LEMMA FeedStutters ==
  ASSUME UNCHANGED <<target, wire, Held>>
  PROVE  UNCHANGED Feed!vars
<1>1. Holding' = Holding /\ Fed' = Fed
  BY DEF Holding, Fed
<1>. QED  BY <1>1 DEF Feed!vars, Holding, Fed, Held

\* One client gets a handle on a request that is streamed then.
LEMMA FeedJoins ==
  ASSUME TypeOK, NEW c \in Clients, NEW v \in Venues, NEW r \in Requests, target[c] = <<v, r>>,
         UNCHANGED target, c \notin Held, Held' = Held \cup {c}, Fed' = Fed \cup {<<v, r>>}
  PROVE  Feed!Next
<1>1. <<c, <<v, r>>>> \notin Holding /\ Holding' = Holding \cup {<<c, <<v, r>>>>}
  BY DEF Holding
<1>2. Feed!Join(c, <<v, r>>)
  BY <1>1 DEF Feed!Join, Holding, Fed, Held
<1>. QED  BY <1>2 DEF Feed!Next

\* Some clients lose their handles.
LEMMA FeedLeaves ==
  ASSUME NEW C \in SUBSET Clients, UNCHANGED <<target, wire>>, Held' = Held \ C
  PROVE  Feed!Next
<1>1. Holding' = {p \in Holding : p[1] \notin C} /\ Fed' = Fed
  BY DEF Holding, Fed
<1>2. Feed!Leave(C)
  BY <1>1 DEF Feed!Leave, Holding, Fed, Held
<1>. QED  BY <1>2 DEF Feed!Next

\* Requests that nobody holds are taken off the wire.
LEMMA FeedStops ==
  ASSUME CleanInv, NEW v \in Venues, UNCHANGED <<target, Held>>,
         wire' = [wire EXCEPT ![v] = @ \ dropping[v]]
  PROVE  Feed!Next
<1> DEFINE Dropped == {t \in Venues \X Requests : t[1] = v /\ t[2] \in dropping[v]}
<1>1. TypeOK
  BY DEF CleanInv, IInv
<1>2. Fed' = Fed \ Dropped
  BY <1>1 DEF Fed, TypeOK, AdapterTypeOK
<1>3. Holding' = Holding
  BY DEF Holding
<1>4. ASSUME NEW t \in Dropped, NEW c \in Clients PROVE <<c, t>> \notin Holding
  <2> SUFFICES ASSUME <<c, t>> \in Holding PROVE FALSE
    OBVIOUS
  <2>1. phase[c] = "held" /\ target[c] = t
    BY DEF Holding, Held
  <2>2. t[2] \in Used(v)
    BY <2>1, HolderUses
  <2>. QED  BY <2>2 DEF CleanInv, CleanVenue, UsedIsStreamed
<1>5. Dropped \in SUBSET (Venues \X Requests)
  OBVIOUS
<1> HIDE DEF Dropped
<1>6. PICK T \in SUBSET (Venues \X Requests) : T = Dropped
  BY <1>5
<1>7. Feed!Stop(T)
  BY <1>2, <1>3, <1>4, <1>6 DEF Feed!Stop, Feed!Unheld, Holding, Fed, Held
<1>. QED  BY <1>7 DEF Feed!Next

\* A step of a venue's chain grants one handle, takes back the venue's, stops
\* what is dropped, or changes nothing that SharedFeed sees.
LEMMA ChainImplements ==
  ASSUME MaxFailures = 0, CleanInv, NEW v \in Venues, ChainStep(v)
  PROVE  Feed!Next \/ UNCHANGED Feed!vars
<1>1. TypeOK /\ VenueInv(v) /\ CleanVenue(v)
  BY DEF CleanInv, IInv
<1>2. ASSUME operations[v] # <<>>, Head(operations[v]).kind = "acquire"
      PROVE  /\ HeadClient(v) \in Clients /\ HeadRequest(v) \in Requests
             /\ target[HeadClient(v)] = <<v, HeadRequest(v)>>
             /\ phase[HeadClient(v)] = "acquiring"
  BY <1>1, <1>2, HeadCall
<1>3. ASSUME operations[v] # <<>>, Head(operations[v]).kind = "release"
      PROVE  HeadClient(v) \in Clients /\ phase[HeadClient(v)] # "held"
  BY <1>1, <1>3, HeadCall
<1>4. CASE JoinEntry(v)
  <2>1. operations[v] # <<>> /\ Head(operations[v]).kind = "acquire"
    BY <1>4 DEF JoinEntry, Ready
  <2>2. HeadRequest(v) \in wire[v]
    BY <1>1, <1>2, <1>4, <2>1 DEF JoinEntry, CleanVenue, UsedIsStreamed, Used
  <2>3. Fed' = Fed \cup {<<v, HeadRequest(v)>>}
    BY <1>2, <1>4, <2>1, <2>2 DEF JoinEntry, adapterVars, Fed
  <2>4. UNCHANGED target /\ HeadClient(v) \notin Held /\ Held' = Held \cup {HeadClient(v)}
    BY <1>1, <1>2, <1>4, <2>1 DEF JoinEntry, Held, TypeOK
  <2>. QED  BY <1>1, <1>2, <2>1, <2>3, <2>4, FeedJoins
<1>5. CASE Subscribed(v)
  <2>1. /\ operations[v] # <<>> /\ Head(operations[v]).kind = "acquire"
        /\ running[v] = "subscribing"
    BY <1>1, <1>5 DEF Subscribed, CleanVenue, VenueInv, HeadFits
  <2>2. Fed' = Fed \cup {<<v, HeadRequest(v)>>}
    BY <1>1, <1>2, <1>5, <2>1 DEF Subscribed, Fed, TypeOK, AdapterTypeOK
  <2>3. UNCHANGED target /\ HeadClient(v) \notin Held /\ Held' = Held \cup {HeadClient(v)}
    BY <1>1, <1>2, <1>5, <2>1 DEF Subscribed, Held, TypeOK
  <2>. QED  BY <1>1, <1>2, <2>1, <2>2, <2>3, FeedJoins
<1>6. CASE ReleaseNothing(v) \/ ReleaseShared(v) \/ ReleaseLast(v)
  <2>1. operations[v] # <<>> /\ Head(operations[v]).kind = "release"
    BY <1>6 DEF ReleaseNothing, ReleaseShared, ReleaseLast, Ready
  <2>2. UNCHANGED <<target, wire>>
    BY <1>6 DEF ReleaseNothing, ReleaseShared, ReleaseLast, adapterVars
  <2>3. \A c \in Clients : phase'[c] = "held" <=> phase[c] = "held"
    BY <1>1, <1>3, <1>6, <2>1 DEF ReleaseNothing, ReleaseShared, ReleaseLast, TypeOK
  <2>. QED  BY <2>2, <2>3, FeedStutters DEF Held
<1>7. CASE SubscribeUpstream(v) \/ DisposeNothing(v)
  BY <1>7, FeedStutters DEF SubscribeUpstream, DisposeNothing, adapterVars, Held
<1>8. CASE DisposeVenue(v)
  <2>1. UNCHANGED <<target, wire>>
    BY <1>8 DEF DisposeVenue
  <2>2. Held' = Held \ {c \in Clients : target[c][1] = v}
    BY <1>8 DEF DisposeVenue, Held
  <2>. QED  BY <2>1, <2>2, FeedLeaves
<1>9. CASE Unsubscribed(v)
  <2>1. operations[v] # <<>>
    BY <1>1, <1>9 DEF Unsubscribed, VenueInv, HeadFits
  <2>2. \A c \in Clients : phase'[c] = "held" <=> phase[c] = "held"
    BY <1>1, <1>3, <1>9, <2>1 DEF Unsubscribed, TypeOK
  <2>3. UNCHANGED <<target, Held>> /\ wire' = [wire EXCEPT ![v] = @ \ dropping[v]]
    BY <1>9, <2>2 DEF Unsubscribed, Held
  <2>. QED  BY <2>3, FeedStops
<1>10. ~ SubscribeRejected(v) /\ ~ SkipRejected(v)
  BY <1>1 DEF SubscribeRejected, SkipRejected, CleanVenue, TypeOK
<1>. QED  BY <1>4, <1>5, <1>6, <1>7, <1>8, <1>9, <1>10 DEF ChainStep

\* As long as subscribeChain does not reject, the coordinator over its adapters
\* implements SharedFeed: topics are stopped only while nobody holds them, and a
\* handle is granted only on a topic that is fed.
THEOREM ImplementsSharedFeed ==
  ASSUME MaxFailures = 0
  PROVE  Spec => SharedFeedSpec
<1>1. Init => Feed!Init
  BY DEF Init, Feed!Init
<1>2. CleanInv /\ [Next]_vars => [Feed!Next]_(Feed!vars)
  <2> SUFFICES ASSUME CleanInv, [Next]_vars PROVE Feed!Next \/ UNCHANGED Feed!vars
    OBVIOUS
  <2>1. ASSUME NEW c \in Clients, Acquire(c) PROVE UNCHANGED Feed!vars
    <3>1. \A d \in Clients : phase'[d] = "held" <=> phase[d] = "held"
      BY <2>1 DEF Acquire, CleanInv, IInv, TypeOK
    <3>. QED  BY <2>1, <3>1, FeedStutters DEF Acquire, adapterVars, Held
  <2>2. ASSUME NEW c \in Clients, Release(c) PROVE Feed!Next
    <3>1. Held' = Held \ {c}
      BY <2>2 DEF Release, Held, CleanInv, IInv, TypeOK
    <3>. QED  BY <2>2, <3>1, FeedLeaves DEF Release, adapterVars
  <2>3. CASE DisposeCall \/ DisposeReturn
    BY <2>3, FeedStutters DEF DisposeCall, DisposeReturn, adapterVars, Held
  <2>4. ASSUME NEW v \in Venues, DisposeVisit(v) PROVE UNCHANGED Feed!vars
    BY <2>4, FeedStutters DEF DisposeVisit, adapterVars, Held
  <2>5. ASSUME NEW v \in Venues, ChainStep(v) PROVE Feed!Next \/ UNCHANGED Feed!vars
    BY <2>5, ChainImplements
  <2>6. CASE UNCHANGED vars
    BY <2>6, FeedStutters DEF vars, coordinatorVars, adapterVars, Held
  <2>. QED  BY <2>1, <2>2, <2>3, <2>4, <2>5, <2>6 DEF Next
<1>. QED  BY <1>1, <1>2, CleanInvariance, PTL DEF Spec, SharedFeedSpec, Feed!Spec
=============================================================================
