--------------------------- MODULE ChainProjection ----------------------------
(***************************************************************************)
(* A chain runtime's projection (runtime/chain/projection.ts) and the chain *)
(* its viewers are left with.  A snapshot is enriched whole; the deltas     *)
(* that follow change its contracts in place, enrich the strikes they       *)
(* touched and send those with the whole chain's statistics and gamma       *)
(* exposure.  A delta of a contract the projection does not know makes the  *)
(* runtime take a new snapshot.                                             *)
(*                                                                         *)
(* The feeds' quotes and the instruments they list are the environment's:   *)
(* Snapshots are the chains the adapters may answer with, Deltas the parts  *)
(* of a contract's quote and greeks the feeds may send.                     *)
(***************************************************************************)
EXTENDS Enrichment

CONSTANTS Snapshots, Deltas, MaxDeltas

IsContract(c) ==
  /\ {"symbol", "strike", "right", "quote", "greeks"} \subseteq DOMAIN c
  /\ c.strike \in Int
  /\ {"underlyingPriceUsd", "indexPriceUsd"} \subseteq DOMAIN c.quote
  /\ {"markIv", "delta"} \subseteq DOMAIN c.greeks
  /\ \A f \in DOMAIN c.quote : c.quote[f] \in Number
  /\ \A f \in DOMAIN c.greeks : c.greeks[f] \in Number

\* An adapter answers with each contract once, under its symbol.
IsChains(chains) ==
  /\ IsFiniteSet(DOMAIN chains)
  /\ \A v \in DOMAIN chains :
       /\ DOMAIN chains[v] \subseteq Nat /\ IsFiniteSet(DOMAIN chains[v])
       /\ \A j \in DOMAIN chains[v] : IsContract(chains[v][j])
       /\ \A j, k \in DOMAIN chains[v] : chains[v][j].symbol = chains[v][k].symbol => j = k

ASSUME ChainsAssumption == \A chains \in Snapshots : IsChains(chains)

ASSUME DeltasAssumption ==
  \A d \in Deltas : \A part \in {d.quote, d.greeks} : \A f \in DOMAIN part : part[f] \in Number

VARIABLES
  venueChains,      \* the snapshot's chains, with the deltas since
  comparisonRows,   \* at each strike the places of the venues' contracts
  enrichedStrikes,  \* the projection's strikes
  shown,            \* the chain as the snapshots and patches have left it
  rebuilding        \* a snapshot has been asked for

projectionVars == <<venueChains, comparisonRows, enrichedStrikes, shown, rebuilding>>

\* The runtime keeps one delta for a contract.
Batches == {b \in UNION {[1..n -> Deltas] : n \in 1..MaxDeltas} :
              \A i, j \in DOMAIN b : b[i].venue = b[j].venue /\ b[i].symbol = b[j].symbol => i = j}

Knows(chains, delta) ==
  /\ delta.venue \in DOMAIN chains
  /\ \E j \in DOMAIN chains[delta.venue] : chains[delta.venue][j].symbol = delta.symbol

\* The spread of a partial quote or greeks over the contract's.
Over(change, record) == [f \in DOMAIN record |-> IF f \in DOMAIN change THEN change[f] ELSE record[f]]

OverContract(delta, contract) ==
  [contract EXCEPT !.quote = Over(delta.quote, @), !.greeks = Over(delta.greeks, @)]

\* A contract has one delta of a batch at most, so that their order does not matter.
Applied(chains, deltas) ==
  [v \in DOMAIN chains |->
     [j \in DOMAIN chains[v] |->
        LET own == {n \in DOMAIN deltas :
                      deltas[n].venue = v /\ deltas[n].symbol = chains[v][j].symbol}
        IN IF own = {} THEN chains[v][j]
           ELSE OverContract(deltas[CHOOSE n \in own : TRUE], chains[v][j])]]

StrikeOf(chains, delta) ==
  LET contracts == chains[delta.venue]
  IN contracts[CHOOSE j \in DOMAIN contracts : contracts[j].symbol = delta.symbol].strike

Load(chains) ==
  LET rows == BuildComparisonChain(chains)
  IN /\ venueChains' = chains
     /\ comparisonRows' = rows
     /\ enrichedStrikes' = [s \in DOMAIN rows |-> EnrichComparisonRow(chains, rows[s])]
     /\ shown' = BuildEnrichedChain(chains, rows)
     /\ rebuilding' = FALSE

ProjectionInit ==
  /\ venueChains = <<>>
  /\ comparisonRows = <<>>
  /\ enrichedStrikes = <<>>
  /\ shown = BuildEnrichedChain(<<>>, <<>>)
  /\ rebuilding = TRUE

LoadSnapshot ==
  /\ rebuilding
  /\ \E chains \in Snapshots : Load(chains)

\* A lost subscription, an overflow: the runtime asks of its own accord.
Resync ==
  /\ ~rebuilding
  /\ rebuilding' = TRUE
  /\ UNCHANGED <<venueChains, comparisonRows, enrichedStrikes, shown>>

\* Mutant: only the last delta's strike is enriched again.
LastStrike(chains, deltas) == {StrikeOf(chains, deltas[Len(deltas)])}

ChangedStrikes(chains, deltas) == {StrikeOf(chains, deltas[n]) : n \in DOMAIN deltas}

\* mergeStrikes puts the patch's strikes over those shown.
ApplyDeltas(deltas) ==
  LET chains  == Applied(venueChains, deltas)
      changed == ChangedStrikes(chains, deltas)
      patch   == [s \in changed |-> EnrichComparisonRow(chains, comparisonRows[s])]
      all     == [s \in DOMAIN enrichedStrikes |->
                    IF s \in changed THEN patch[s] ELSE enrichedStrikes[s]]
      stats   == ComputeChainStats(all, chains)
  IN /\ venueChains' = chains
     /\ enrichedStrikes' = all
     /\ shown' = [strikes |-> [s \in DOMAIN shown.strikes |->
                                 IF s \in changed THEN patch[s] ELSE shown.strikes[s]],
                  stats |-> stats,
                  gex |-> ComputeGex(chains, comparisonRows, all, SpotPrice(stats))]
     /\ UNCHANGED <<comparisonRows, rebuilding>>

PushDelta(deltas) ==
  /\ \A n \in DOMAIN deltas : Knows(venueChains, deltas[n])
  /\ ApplyDeltas(deltas)

\* The deltas before the unknown one have changed their contracts by then.
PushUnknown(deltas) ==
  \E n \in DOMAIN deltas :
    /\ ~Knows(venueChains, deltas[n])
    /\ \A k \in 1..(n - 1) : Knows(venueChains, deltas[k])
    /\ venueChains' = Applied(venueChains, SubSeq(deltas, 1, n - 1))
    /\ rebuilding' = TRUE
    /\ UNCHANGED <<comparisonRows, enrichedStrikes, shown>>

ProjectionNext ==
  \/ LoadSnapshot
  \/ Resync
  \/ \E deltas \in Batches : PushDelta(deltas) \/ PushUnknown(deltas)

ProjectionSpec == ProjectionInit /\ [][ProjectionNext]_projectionVars

(***************************************************************************)
(* Properties                                                              *)
(***************************************************************************)

\* What a viewer has put together from a snapshot and the patches since, its
\* strikes, statistics and gamma exposure, is what enriching the contracts
\* whole would give it, unless a snapshot is on its way: applyDeltas enriches
\* every strike whose result a delta can change, and computes what depends on
\* the other strikes from them all.
PatchedIsRebuilt ==
  rebuilding \/ shown = BuildEnrichedChain(venueChains, BuildComparisonChain(venueChains))

===============================================================================
