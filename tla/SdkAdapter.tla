----------------------------- MODULE SdkAdapter -----------------------------
(***************************************************************************)
(* The reference counting of SdkBaseAdapter.subscribe and of the function  *)
(* it returns (packages/core/src/feeds/shared/sdk-base.ts), for every      *)
(* registered venue.  The module has no next-state relation of its own: it *)
(* gives the steps an adapter takes when the coordinator calls it, and     *)
(* SubscriptionCoordinator composes them with its own.                     *)
(*                                                                         *)
(* `wire` abstracts the per-venue planners: the requests whose chain the   *)
(* exchange streams to us.  A Map entry that the code deletes at zero is a *)
(* count of 0 here.                                                        *)
(***************************************************************************)
EXTENDS Integers, FiniteSets

CONSTANTS Venues,    \* registered venue adapters
          Requests,  \* (underlying, expiry) pairs
          Handlers   \* StreamHandlers objects, one per coordinator venue entry

VARIABLES requestRefCounts,  \* [Venues -> [Requests -> Nat]]
          handlerRefCounts,  \* [Venues -> [Handlers -> Nat]]
          wire               \* [Venues -> SUBSET Requests]

adapterVars == <<requestRefCounts, handlerRefCounts, wire>>

AdapterTypeOK ==
  /\ requestRefCounts \in [Venues -> [Requests -> Nat]]
  /\ handlerRefCounts \in [Venues -> [Handlers -> Nat]]
  /\ wire \in [Venues -> SUBSET Requests]

\* loadMarkets has run: the nearest expiries are already streamed, uncounted.
AdapterInit ==
  /\ requestRefCounts = [v \in Venues |-> [r \in Requests |-> 0]]
  /\ handlerRefCounts = [v \in Venues |-> [h \in Handlers |-> 0]]
  /\ wire \in [Venues -> SUBSET Requests]

\* The handlers that emitQuoteUpdates and emitStatus call.
deltaHandlers(v) == {h \in Handlers : handlerRefCounts[v][h] > 0}

Less(n) == IF n > 1 THEN n - 1 ELSE 0

\* Mutant: the handlers are counted once, not once per request.
CountSubscribeHandlersOnce(v, r, h) ==
  /\ handlerRefCounts' = [handlerRefCounts EXCEPT ![v][h] = 1]
  /\ requestRefCounts' = [requestRefCounts EXCEPT ![v][r] = @ + 1]

\* subscribe up to its await: both counts are raised before subscribeChain.
CountSubscribe(v, r, h) ==
  /\ handlerRefCounts' = [handlerRefCounts EXCEPT ![v][h] = @ + 1]
  /\ requestRefCounts' = [requestRefCounts EXCEPT ![v][r] = @ + 1]

\* subscribe calls subscribeChain only for the first reference.
FirstReference(v, r) == requestRefCounts[v][r] = 0

\* The returned function, up to its await, for the requests R that were
\* subscribed with the handlers h (one for a release, several for a dispose).
CountRelease(v, R, h) ==
  /\ handlerRefCounts' =
       [handlerRefCounts EXCEPT ![v][h] =
          IF @ > Cardinality(R) THEN @ - Cardinality(R) ELSE 0]
  /\ requestRefCounts' =
       [requestRefCounts EXCEPT ![v] =
          [r \in Requests |-> IF r \in R THEN Less(@[r]) ELSE @[r]]]

\* It calls unsubscribeChain only for the last reference.
LastReferences(v, R) == {r \in R : requestRefCounts[v][r] <= 1}
=============================================================================
