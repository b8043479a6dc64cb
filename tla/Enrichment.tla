------------------------------ MODULE Enrichment ------------------------------
(***************************************************************************)
(* What is made of the contracts of a chain (core/aggregator.ts and         *)
(* core/enrichment.ts): the venues side by side at a strike, the best of    *)
(* them, the statistics of the chain and its gamma exposure.  All of it is  *)
(* computed from its arguments.  The days to expiry, counted when a chain   *)
(* is built whole and by no delta, are left out.                            *)
(*                                                                         *)
(* Numbers are integers in units small enough for the halves and averages   *)
(* taken of them: an average is rounded down, deltas and volatilities are   *)
(* in thousandths.  Chains are a function from venues to the sequences of   *)
(* their contracts, in the order the adapters list them.                    *)
(***************************************************************************)
EXTENDS Optional, Integers, Sequences, FiniteSets, FiniteSetsExt

ASSUME NoneAssumption == None \notin Int

Number == Int \cup {None}

Sides == {"call", "put"}
Distance(a, b) == IF a < b THEN b - a ELSE a - b

(***************************************************************************)
(* The venues at a strike.  Rows refer to contracts by their places in the  *)
(* chains; where a venue has two contracts for a side of a strike, the last *)
(* one is taken.                                                            *)
(***************************************************************************)
Strikes(chains) ==
  UNION {{chains[v][j].strike : j \in DOMAIN chains[v]} : v \in DOMAIN chains}

Places(contracts, strike, right) ==
  {j \in DOMAIN contracts : contracts[j].strike = strike /\ contracts[j].right = right}

BuildComparisonChain(chains) ==
  [strike \in Strikes(chains) |->
     [right \in Sides |->
        [v \in {w \in DOMAIN chains : Places(chains[w], strike, right) # {}} |->
           Max(Places(chains[v], strike, right))]]]

ContractAt(chains, row, right, v) == chains[v][row[right][v]]

(***************************************************************************)
(* A venue's quote.                                                        *)
(***************************************************************************)
Mid(q) == IF None \notin {q.bid, q.ask} THEN (q.bid + q.ask) \div 2 ELSE q.mark

\* One-sided and inverted markets have no spread.
SpreadPct(q) ==
  IF None \notin {q.bid, q.ask} /\ q.bid > 0 /\ q.ask >= q.bid
    THEN ((q.ask - q.bid) * 100) \div Mid(q) ELSE None

\* Buying pays half the spread above the mid, and the taker's fee.
TotalCost(q) ==
  LET halfSpread == IF None \notin {q.bid, q.ask} THEN (q.ask - q.bid) \div 2 ELSE 0
  IN IF Mid(q) = None THEN None ELSE Mid(q) + halfSpread + OrElse(q.taker, 0)

Volume24hUsd(q) ==
  CASE q.volume24hUsd # None -> q.volume24hUsd
    [] q.volume24hUsd = None /\ None \notin {q.volume24h, q.underlyingPriceUsd} ->
         q.volume24h * q.underlyingPriceUsd
    [] OTHER -> None

ContractToVenueQuote(c) ==
  [bid |-> c.quote.bid, ask |-> c.quote.ask, mid |-> Mid(c.quote),
   markIv |-> c.greeks.markIv, delta |-> c.greeks.delta, gamma |-> c.greeks.gamma,
   spreadPct |-> SpreadPct(c.quote), totalCost |-> TotalCost(c.quote),
   openInterest |-> c.quote.openInterest,
   openInterestUsd |-> c.quote.openInterestUsd,
   volume24hUsd |-> Volume24hUsd(c.quote)]

HasMarket(vq) ==
  /\ \/ vq.bid # None /\ vq.bid > 0
     \/ vq.ask # None /\ vq.ask > 0
  /\ \/ OrElse(vq.openInterest, 0) > 0
     \/ None \notin {vq.bid, vq.ask} /\ vq.bid # vq.ask

\* The lowest volatility of a venue with a market.
BestOfSide(venues) ==
  LET offers == {v \in DOMAIN venues : venues[v].markIv # None /\ HasMarket(venues[v])}
      best   == CHOOSE v \in offers : \A w \in offers : venues[v].markIv <= venues[w].markIv
  IN [venues |-> venues,
      bestIv |-> IF offers = {} THEN None ELSE venues[best].markIv,
      bestVenue |-> IF offers = {} THEN None ELSE best]

BuildEnrichedSide(chains, row, right) ==
  BestOfSide([v \in DOMAIN row[right] |->
                ContractToVenueQuote(ContractAt(chains, row, right, v))])

EnrichComparisonRow(chains, row) ==
  [right \in Sides |-> BuildEnrichedSide(chains, row, right)]

(***************************************************************************)
(* The chain.  Enriched strikes are a function of the strike.              *)
(***************************************************************************)
Average(values) ==
  LET some == {i \in DOMAIN values : values[i] # None}
  IN IF some = {} THEN None
     ELSE MapThenSumSet(LAMBDA i : values[i], some) \div Cardinality(some)

\* The first of a venue's contracts that has the price says the venue's.
PriceOf(contracts, price(_)) ==
  LET some == {j \in DOMAIN contracts : price(contracts[j].quote) # None}
  IN IF some = {} THEN None ELSE price(contracts[Min(some)].quote)

UnderlyingPriceUsd(quote) == quote.underlyingPriceUsd
IndexPriceUsd(quote) == quote.indexPriceUsd

ExtractPrices(chains) ==
  [spotIndexUsd  |-> Average([v \in DOMAIN chains |->
                                PriceOf(chains[v], UnderlyingPriceUsd)]),
   indexPriceUsd |-> Average([v \in DOMAIN chains |->
                                PriceOf(chains[v], IndexPriceUsd)])]

AverageSideDelta(side) == Average([v \in DOMAIN side.venues |-> side.venues[v].delta])
AverageSideIv(side)    == Average([v \in DOMAIN side.venues |-> side.venues[v].markIv])

\* The lowest of the strikes that are the least far away.
Closest(strikes, far(_)) ==
  CHOOSE s \in strikes :
    \A t \in strikes : far(s) < far(t) \/ (far(s) = far(t) /\ s <= t)

MaxTargetDeltaDistance == 150

ClosestDeltaStrike(enriched, target, right) ==
  LET some == {s \in DOMAIN enriched : AverageSideDelta(enriched[s][right]) # None}
      Far(s) == Distance(AverageSideDelta(enriched[s][right]), target)
  IN IF some = {} \/ Far(Closest(some, Far)) > MaxTargetDeltaDistance THEN None
     ELSE Closest(some, Far)

ClosestStrikeToPrice(enriched, price) ==
  LET Far(s) == Distance(s, price)
  IN IF price = None \/ DOMAIN enriched = {} THEN None ELSE Closest(DOMAIN enriched, Far)

OiUsd(enriched, right) ==
  MapThenSumSet(LAMBDA s : MapThenSumSet(
                  LAMBDA v : OrElse(enriched[s][right].venues[v].openInterestUsd, 0),
                  DOMAIN enriched[s][right].venues),
                DOMAIN enriched)

IvAt(enriched, strike, right) ==
  IF strike = None THEN None ELSE AverageSideIv(enriched[strike][right])

Minus(a, b) == IF None \in {a, b} THEN None ELSE a - b

ComputeChainStats(enriched, chains) ==
  LET prices == ExtractPrices(chains)
      atm    == ClosestStrikeToPrice(enriched, OrElse(prices.indexPriceUsd,
                                                      prices.spotIndexUsd))
      put25  == ClosestDeltaStrike(enriched, 0 - 250, "put")
      call25 == ClosestDeltaStrike(enriched, 250, "call")
  IN [spotIndexUsd |-> prices.spotIndexUsd, indexPriceUsd |-> prices.indexPriceUsd,
      basis |-> Minus(prices.indexPriceUsd, prices.spotIndexUsd),
      atmStrike |-> atm, atmIv |-> IvAt(enriched, atm, "call"),
      putOiUsd |-> OiUsd(enriched, "put"), callOiUsd |-> OiUsd(enriched, "call"),
      skew25d |-> Minus(IvAt(enriched, put25, "put"), IvAt(enriched, call25, "call"))]

\* Each venue's part uses its own price where it has one.
GexOf(chains, rows, enriched, strike, right, fallback) ==
  LET side == enriched[strike][right]
      Of(v) == LET c == ContractAt(chains, rows[strike], right, v)
                   spot == OrElse(c.quote.indexPriceUsd,
                                  OrElse(c.quote.underlyingPriceUsd, fallback))
               IN IF None \in {side.venues[v].openInterest, side.venues[v].gamma} THEN 0
                  ELSE side.venues[v].openInterest * side.venues[v].gamma
                         * OrElse(c.contractSize, 1) * spot * spot
  IN MapThenSumSet(Of, DOMAIN side.venues)

ComputeGex(chains, rows, enriched, fallback) ==
  [strike \in DOMAIN enriched |->
     GexOf(chains, rows, enriched, strike, "call", fallback)
       - GexOf(chains, rows, enriched, strike, "put", fallback)]

SpotPrice(stats) == OrElse(stats.spotIndexUsd, OrElse(stats.indexPriceUsd, 0))

BuildEnrichedChain(chains, rows) ==
  LET enriched == [s \in DOMAIN rows |-> EnrichComparisonRow(chains, rows[s])]
      stats    == ComputeChainStats(enriched, chains)
  IN [strikes |-> enriched, stats |-> stats,
      gex |-> ComputeGex(chains, rows, enriched, SpotPrice(stats))]

===============================================================================
