--------------------------- MODULE StrategyBuilder ----------------------------
(***************************************************************************)
(* The strategy builder (web/features/architect): the store of the legs,    *)
(* the templates that fill it, and the page's effects, which after each of  *)
(* its renders drop the legs of another underlying, keep the expiry to one  *)
(* that is listed, and price the legs again by the chain on display.  The   *)
(* chain comes from a query: the one asked for where it is in the cache,    *)
(* else the one displayed last.                                             *)
(*                                                                         *)
(* The effects of a render run before the next event.  A leg is told from   *)
(* another by its place.                                                    *)
(***************************************************************************)
EXTENDS Enrichment, SequencesExt

CONSTANTS
  Underlyings, VenueSets,
  Expiries,       \* by underlying, in order; Viable: those three days away
  Viable,
  Answers,        \* the chain route's, by underlying, expiry and venues
  Contents,       \* theirs: each strike's and side's venue quotes, the index
  Starts,         \* the underlyings and expiries of the other pages before
  Links,          \* strategies a shared address may carry
  UsedTemplates,
  UsedStrikes,    \* those a leg is put at by hand
  Quantities,     \* those entered for one
  MaxLegs,        \* legs of a strategy that is edited
  MaxCached, PayoffPoints,
  Dollar          \* the units of a price in a dollar

VARIABLES
  underlying, globalExpiry, activeVenues,  \* the application's
  builderExpiry,  \* the page's
  listed,         \* underlyings whose expiries are known
  cache,          \* the query's answers by what was asked
  held,           \* the answer displayed last
  link,           \* the strategy in the address, until it is read
  strategy,       \* the store: [underlying, legs]
  pending,        \* a render's effects are to run
  applied         \* the template whose legs nobody has touched since

builderVars == <<underlying, globalExpiry, builderExpiry, activeVenues, listed, cache, held, link,
                 strategy, pending, applied>>

(***************************************************************************)
(* What a strategy is worth at expiry (payoff.ts).  The value before        *)
(* expiry, an approximation in real numbers, the break-evens and the sums   *)
(* of the greeks are left out.                                              *)
(***************************************************************************)
IsLeg(leg) ==
  /\ {"type", "direction", "strike", "expiry", "quantity", "entryPrice"} \subseteq DOMAIN leg
  /\ leg.type \in Sides /\ leg.direction \in {"buy", "sell"}
  /\ {leg.strike, leg.quantity, leg.entryPrice} \subseteq Int

Sign(leg) == IF leg.direction = "buy" THEN 1 ELSE 0 - 1

Intrinsic(leg, price) ==
  Max({0, IF leg.type = "call" THEN price - leg.strike ELSE leg.strike - price})

LegPnlAtExpiry(leg, price) ==
  Sign(leg) * (Intrinsic(leg, price) - leg.entryPrice) * leg.quantity

PnlAt(legs, price) ==
  LET pnl == [i \in DOMAIN legs |-> LegPnlAtExpiry(legs[i], price)]
  IN MapThenSumSet(LAMBDA i : pnl[i], DOMAIN legs)

\* Thirty percent of the spot around it, or more where the strikes are wider.
PayoffRange(legs, spot) ==
  LET strikes == {legs[i].strike : i \in DOMAIN legs}
      half    == Max({((Max(strikes) - Min(strikes)) * 3) \div 2, (spot * 3) \div 10})
  IN [low |-> Max({0, spot - half}), high |-> spot + half]

ComputePayoff(legs, spot, points) ==
  IF legs = <<>> THEN <<>>
  ELSE LET range == PayoffRange(legs, spot)
           Price(i) == range.low + ((i - 1) * (range.high - range.low)) \div points
       IN [i \in 1..(points + 1) |->
             [underlyingPrice |-> Price(i), pnl |-> PnlAt(legs, Price(i))]]

\* Values that are told apart are a dollar apart.
WithinDollar(a, b) == Distance(a, b) < Dollar

\* Mutant: only the low end of the range is looked at.
MetricsOfLowEnd(legs, spot, points) ==
  LET payoff == ComputePayoff(legs, spot, points)
      pnls   == {payoff[i].pnl : i \in DOMAIN payoff}
  IN [maxProfit |-> IF WithinDollar(payoff[1].pnl, Max(pnls)) THEN None ELSE Max(pnls),
      maxLoss   |-> IF WithinDollar(payoff[1].pnl, Min(pnls)) THEN None ELSE Min(pnls)]

\* An extreme that is reached at an end of the range is taken for unlimited.
ComputeMetrics(legs, spot, points) ==
  LET payoff == ComputePayoff(legs, spot, points)
      pnls   == {payoff[i].pnl : i \in DOMAIN payoff}
      edges  == {payoff[1].pnl, payoff[Len(payoff)].pnl}
  IN [maxProfit |-> IF WithinDollar(Max(edges), Max(pnls)) THEN None ELSE Max(pnls),
      maxLoss   |-> IF WithinDollar(Min(edges), Min(pnls)) THEN None ELSE Min(pnls)]

(***************************************************************************)
(* The name of a strategy.                                                 *)
(***************************************************************************)
Way(leg) == IF leg.direction = "buy" THEN "Long" ELSE "Short"

NameOfTwo(a, b) ==
  LET buy  == IF a.direction = "buy" THEN a ELSE b
      sell == IF a.direction = "buy" THEN b ELSE a
      both == a.type # b.type /\ a.direction = b.direction
      vertical == a.type = b.type /\ a.direction # b.direction
  IN CASE both /\ a.strike = b.strike -> <<Way(a), "Straddle">>
       [] both /\ a.strike # b.strike -> <<Way(a), "Strangle">>
       [] vertical /\ a.type = "call" ->
            <<IF buy.strike < sell.strike THEN "Bull" ELSE "Bear", "Call Spread">>
       [] vertical /\ a.type = "put" ->
            <<IF buy.strike > sell.strike THEN "Bear" ELSE "Bull", "Put Spread">>
       [] OTHER -> <<"Custom", 2>>

IsButterfly(legs) ==
  LET strikes == {legs[i].strike : i \in DOMAIN legs}
      At(k)   == legs[CHOOSE i \in DOMAIN legs : legs[i].strike = k]
      middle  == At(CHOOSE k \in strikes : k \notin {Min(strikes), Max(strikes)})
  IN /\ Cardinality(strikes) = 3
     /\ \A i \in DOMAIN legs : legs[i].type = legs[1].type
     /\ middle.quantity = 2
     /\ middle.direction # At(Min(strikes)).direction

IsIronCondor(legs) ==
  \A type \in {"call", "put"}, direction \in {"buy", "sell"} :
    Cardinality({i \in DOMAIN legs : legs[i].type = type /\ legs[i].direction = direction}) = 1

DetectStrategy(legs) ==
  LET n == Len(legs)
      sameExpiry == \A i, j \in DOMAIN legs : legs[i].expiry = legs[j].expiry
  IN CASE n = 0 -> <<"Empty">>
       [] n = 1 -> <<Way(legs[1]), legs[1].type>>
       [] n = 2 /\ sameExpiry -> NameOfTwo(legs[1], legs[2])
       [] n = 3 /\ sameExpiry /\ IsButterfly(legs) -> <<legs[1].type, "Butterfly">>
       [] n = 4 /\ sameExpiry /\ IsIronCondor(legs) -> <<"Iron Condor">>
       [] OTHER -> <<"Custom", n>>

(***************************************************************************)
(* Prices and templates                                                    *)
(***************************************************************************)
PriceFor(quote, direction) == IF direction = "buy" THEN quote.ask ELSE quote.bid

\* The best of the venues that have a price: the lowest ask or highest bid.
BestVenue(side, venues, direction) ==
  LET Price(v) == PriceFor(side.venues[v], direction)
      priced == {v \in DOMAIN side.venues \cap venues : Price(v) # None /\ Price(v) > 0}
  IN IF priced = {} THEN None
     ELSE CHOOSE v \in priced : \A w \in priced :
            IF direction = "buy" THEN Price(v) <= Price(w) ELSE Price(v) >= Price(w)

WithMarket(leg, side, venue) ==
  [type |-> leg.type, direction |-> leg.direction, strike |-> leg.strike,
   expiry |-> leg.expiry, quantity |-> leg.quantity,
   entryPrice |-> PriceFor(side.venues[venue], leg.direction), venue |-> venue,
   delta |-> side.venues[venue].delta]

PricedLeg(chain, venues, leg) ==
  LET side  == chain.strikes[leg.strike][leg.type]
      venue == BestVenue(side, venues, leg.direction)
  IN IF venue = None THEN None ELSE WithMarket(leg, side, venue)

\* At the leg's strike, or at the one nearest to it.
RepriceLeg(chain, venues, leg, exactStrike) ==
  LET strikes == DOMAIN chain.strikes
      Far(s)  == Distance(s, leg.strike)
  IN IF strikes = {} \/ (exactStrike /\ leg.strike \notin strikes) THEN None
     ELSE LET Priced == [s \in strikes |-> PricedLeg(chain, venues, [leg EXCEPT !.strike = s])]
          IN Priced[Closest(strikes, Far)]

FindAtmStrike(chain) ==
  LET ref == OrElse(chain.stats.indexPriceUsd, OrElse(chain.stats.spotIndexUsd, 70000))
      Far(s) == Distance(s, ref)
  IN Closest(DOMAIN chain.strikes, Far)

Rank(chain, strike) == Cardinality({s \in DOMAIN chain.strikes : s <= strike})
Ranks(chain)        == 1..Cardinality(DOMAIN chain.strikes)

OffsetStrike(chain, atm, offset) ==
  LET rank == Max({1, Min({Cardinality(DOMAIN chain.strikes), Rank(chain, atm) + offset})})
  IN CHOOSE s \in DOMAIN chain.strikes : Rank(chain, s) = rank

HasStrikeOffset(chain, offset) ==
  Rank(chain, FindAtmStrike(chain)) + offset \in Ranks(chain)

\* A leg's strike is so many strikes from the one at the money; it goes with
\* the variant's direction or against it.
Part(type, offset, with, quantity) ==
  [type |-> type, offset |-> offset, with |-> with, quantity |-> quantity]

TemplateCards ==
  [Call       |-> <<Part("call", 0, TRUE, 1)>>,
   Put        |-> <<Part("put", 0, TRUE, 1)>>,
   CallSpread |-> <<Part("call", 0, TRUE, 1), Part("call", 3, FALSE, 1)>>,
   PutSpread  |-> <<Part("put", 0, TRUE, 1), Part("put", 0 - 3, FALSE, 1)>>,
   Straddle   |-> <<Part("call", 0, TRUE, 1), Part("put", 0, TRUE, 1)>>,
   Strangle   |-> <<Part("call", 3, TRUE, 1), Part("put", 0 - 3, TRUE, 1)>>,
   IronCondor |-> <<Part("put", 0 - 4, FALSE, 1), Part("put", 0 - 2, TRUE, 1),
                    Part("call", 2, TRUE, 1), Part("call", 4, FALSE, 1)>>,
   Butterfly  |-> <<Part("call", 0 - 2, TRUE, 1), Part("call", 0, FALSE, 2),
                    Part("call", 2, TRUE, 1)>>]

Against(direction) == IF direction = "buy" THEN "sell" ELSE "buy"

\* The template's legs, none where there is no price.  A template takes the
\* best of all the chain's venues.
BuildLegs(chain, expiry, template, direction) ==
  LET atm == FindAtmStrike(chain)
      Leg(p) == LET strike == OffsetStrike(chain, atm, p.offset)
                IN PricedLeg(chain, DOMAIN chain.strikes[strike][p.type].venues,
                             [type |-> p.type, strike |-> strike, quantity |-> p.quantity,
                              expiry |-> expiry,
                              direction |-> IF p.with THEN direction ELSE Against(direction)])
  IN [i \in DOMAIN TemplateCards[template] |-> Leg(TemplateCards[template][i])]

StrikesCover(chain, template) ==
  \A i \in DOMAIN TemplateCards[template] :
    HasStrikeOffset(chain, TemplateCards[template][i].offset)

\* Mutant: a template is built of the legs that have a price.
BuildWhatIsPriced(chain, expiry, template, direction) ==
  IF chain = None \/ expiry = None THEN None
  ELSE IF DOMAIN chain.strikes = {} \/ ~StrikesCover(chain, template) THEN None
  ELSE SelectSeq(BuildLegs(chain, expiry, template, direction), LAMBDA leg : leg # None)

\* No legs where the template cannot be built whole.
BuildTemplateVariant(chain, expiry, template, direction) ==
  IF chain = None \/ expiry = None THEN None
  ELSE IF DOMAIN chain.strikes = {} \/ ~StrikesCover(chain, template) THEN None
  ELSE LET legs == BuildLegs(chain, expiry, template, direction)
       IN IF \E i \in DOMAIN legs : legs[i] = None THEN None ELSE legs

(***************************************************************************)
(* The store                                                               *)
(***************************************************************************)
AddLeg(s, leg, of) ==
  [underlying |-> of,
   legs |-> Append(IF s.underlying = of THEN s.legs ELSE <<>>, leg)]

ClearLegs(s) == [s EXCEPT !.legs = <<>>]

\* One after the other: AddLeg of each.
AddLegs(s, legs, of) ==
  IF legs = <<>> THEN s
  ELSE [underlying |-> of,
        legs |-> (IF s.underlying = of THEN s.legs ELSE <<>>) \o legs]

(***************************************************************************)
(* The page                                                                *)
(***************************************************************************)
\* The expiries a chain is asked for.
Dates == (UNION {ToSet(Expiries[u]) : u \in Underlyings}) \cup {l.legs[1].expiry : l \in Links}

ASSUME BuilderAssumption ==
  /\ UsedTemplates \subseteq DOMAIN TemplateCards
  /\ PayoffPoints \in Nat \ {0}
  /\ Quantities \subseteq Nat \ {0}
  /\ Dollar \in Nat \ {0}
  /\ UNION VenueSets \in VenueSets
  /\ \A start \in Starts : start[1] \in Underlyings
  /\ \A u \in Underlyings : Expiries[u] \in Seq(ToSet(Expiries[u]))
  /\ \A key \in Underlyings \X Dates \X VenueSets : Answers[key] \subseteq DOMAIN Contents
  /\ \A answer \in DOMAIN Contents :
       /\ DOMAIN Contents[answer].strikes \subseteq Int
       /\ IsFiniteSet(DOMAIN Contents[answer].strikes)
       /\ {Contents[answer].stats.spotIndexUsd, Contents[answer].stats.indexPriceUsd}
            \subseteq Nat \cup {None}
       /\ \A s \in DOMAIN Contents[answer].strikes, right \in Sides :
            LET quotes == Contents[answer].strikes[s][right].venues
            IN /\ IsFiniteSet(DOMAIN quotes)
               /\ \A v \in DOMAIN quotes : {quotes[v].bid, quotes[v].ask} \subseteq Number
  /\ \A l \in Links : l.legs \in Seq(ToSet(l.legs)) /\ \A leg \in ToSet(l.legs) : IsLeg(leg)

Asked  == <<underlying, builderExpiry, activeVenues>>
Shown  == IF Asked \in DOMAIN cache THEN cache[Asked] ELSE held
Data   == IF Shown = None THEN None ELSE Contents[Shown]
Spot   == IF Data = None THEN 0
          ELSE OrElse(Data.stats.spotIndexUsd, OrElse(Data.stats.indexPriceUsd, 0))

Listed == IF underlying \in listed THEN Expiries[underlying] ELSE <<>>

ResolveBuilderExpiry ==
  LET later     == {i \in DOMAIN Listed : Listed[i] \in Viable}
      preferred == OrElse(builderExpiry, globalExpiry)
  IN IF Listed = <<>> THEN builderExpiry
     ELSE IF preferred \in ToSet(Listed) THEN preferred
     ELSE Listed[IF later # {} THEN Min(later) ELSE Min({2, Len(Listed)})]

RepriceStrategyLeg(leg, exactStrike) ==
  IF Data = None \/ builderExpiry = None THEN None
  ELSE RepriceLeg(Data, activeVenues, [leg EXCEPT !.expiry = builderExpiry], exactStrike)

Repriced == [i \in DOMAIN strategy.legs |->
               OrElse(RepriceStrategyLeg(strategy.legs[i], FALSE), strategy.legs[i])]

\* Mutant: the legs are stored whether or not they have changed.
AlwaysStored(next, legs) == legs # <<>>

Changed(next, legs) == legs # <<>> /\ next # legs

BuilderInit ==
  /\ \E start \in Starts : underlying = start[1] /\ globalExpiry = start[2]
  /\ builderExpiry = None
  /\ activeVenues = UNION VenueSets
  /\ listed = {}
  /\ cache = <<>>
  /\ held = None
  /\ link \in Links \cup {None}
  /\ strategy = [underlying |-> None, legs |-> <<>>]
  /\ pending = TRUE
  /\ applied = None

\* The effects in their order, each with the render's values: the legs priced
\* again are those of before the clearing, and put it right again.
Cleared == /\ strategy.underlying \notin {None, underlying}
           /\ strategy.legs # <<>>

\* A strike that is not there, or a leg of another expiry without a price.
Misses(leg) ==
  \/ leg.strike \notin DOMAIN Data.strikes
  \/ leg.expiry # builderExpiry /\ RepriceStrategyLeg(leg, TRUE) = None

Effects(legs) ==
  LET moved == Changed(legs, strategy.legs)
  IN /\ builderExpiry' = IF link # None THEN link.legs[1].expiry ELSE ResolveBuilderExpiry
     /\ \/ moved /\ strategy' = [underlying |-> underlying, legs |-> legs]
        \/ ~moved /\ link # None
             /\ strategy' = AddLegs(ClearLegs(strategy), link.legs, link.underlying)
        \/ ~moved /\ link = None /\ Cleared /\ strategy' = ClearLegs(strategy)
        \/ ~moved /\ link = None /\ ~Cleared /\ UNCHANGED strategy
     /\ pending' = (moved \/ link # None \/ Cleared \/ builderExpiry' # builderExpiry)
     /\ link' = None
     /\ held' = Shown
     /\ applied' = IF Data # None /\ \E i \in DOMAIN strategy.legs : Misses(strategy.legs[i])
                     THEN None ELSE applied

RunEffects ==
  /\ pending
  /\ \E legs \in {Repriced} : Effects(legs)
  /\ UNCHANGED <<underlying, globalExpiry, activeVenues, listed, cache>>

\* The query's first answer, and those of every ten seconds after it.
ChainArrives ==
  /\ ~pending
  /\ builderExpiry # None
  /\ Cardinality(DOMAIN cache \cup {Asked}) <= MaxCached
  /\ \E answer \in Answers[Asked] :
       cache' = [k \in DOMAIN cache \cup {Asked} |-> IF k = Asked THEN answer ELSE cache[k]]
  /\ pending' = TRUE
  /\ UNCHANGED <<underlying, globalExpiry, builderExpiry, activeVenues, listed, held, link, strategy,
                 applied>>

\* What is not on display is dropped from the cache five minutes later.
Forgotten ==
  /\ ~pending
  /\ \E key \in DOMAIN cache \ {Asked} :
       cache' = [k \in DOMAIN cache \ {key} |-> cache[k]]
  /\ UNCHANGED <<underlying, globalExpiry, builderExpiry, activeVenues, listed, held, link, strategy,
                 pending, applied>>

ExpiriesArrive ==
  /\ ~pending
  /\ underlying \notin listed
  /\ listed' = listed \cup {underlying}
  /\ pending' = TRUE
  /\ UNCHANGED <<underlying, globalExpiry, builderExpiry, activeVenues, cache, held, link, strategy,
                 applied>>

SetUnderlying ==
  /\ ~pending
  /\ underlying' \in Underlyings \ {underlying}
  /\ pending' = TRUE
  /\ globalExpiry' = None
  /\ applied' = None
  /\ UNCHANGED <<builderExpiry, activeVenues, listed, cache, held, link, strategy>>

PickExpiry ==
  /\ ~pending
  /\ builderExpiry' \in ToSet(Listed) \ {builderExpiry}
  /\ pending' = TRUE
  /\ UNCHANGED <<underlying, globalExpiry, activeVenues, listed, cache, held, link, strategy,
                 applied>>

SetVenues ==
  /\ ~pending
  /\ activeVenues' \in VenueSets \ {activeVenues}
  /\ pending' = TRUE
  /\ UNCHANGED <<underlying, globalExpiry, builderExpiry, listed, cache, held, link, strategy,
                 applied>>

Stored(next, template) ==
  /\ strategy' = next
  /\ applied' = template
  /\ pending' = TRUE
  /\ UNCHANGED <<underlying, globalExpiry, builderExpiry, activeVenues, listed, cache, held, link>>

ApplyTemplate(template, direction) ==
  /\ ~pending
  /\ \E legs \in {BuildTemplateVariant(Data, builderExpiry, template, direction)} \ {None} :
       Stored(AddLegs(ClearLegs(strategy), legs, underlying),
              [template |-> template, direction |-> direction,
               strikes |-> {legs[i].strike : i \in DOMAIN legs}])

Edit(next) ==
  /\ ~pending
  /\ Len(strategy.legs) <= MaxLegs
  /\ Stored(next, None)

HandleAdd(type, direction, strike, quantity) ==
  /\ Data # None /\ builderExpiry # None
  /\ Len(strategy.legs) < MaxLegs
  /\ LET leg == RepriceLeg(Data, activeVenues,
                           [type |-> type, direction |-> direction, strike |-> strike,
                            expiry |-> builderExpiry, quantity |-> quantity], FALSE)
     IN leg # None /\ Edit(AddLeg(strategy, leg, underlying))

\* A strike stepped or dragged, a leg turned to the other side or type.
HandleLegUpdate(i, patched, exactStrike) ==
  LET leg == RepriceStrategyLeg(patched, exactStrike)
  IN leg # None /\ Edit([strategy EXCEPT !.legs[i] = leg])

LegUpdates(i) ==
  LET leg == strategy.legs[i]
  IN \/ \E s \in DOMAIN Data.strikes \cap UsedStrikes : HandleLegUpdate(i, [leg EXCEPT !.strike = s], TRUE)
     \/ HandleLegUpdate(i, [leg EXCEPT !.direction = Against(@)], FALSE)
     \/ HandleLegUpdate(i, [leg EXCEPT !.type = IF @ = "call" THEN "put" ELSE "call"], FALSE)

Builds ==
  \/ \E template \in UsedTemplates, direction \in {"buy", "sell"} :
       ApplyTemplate(template, direction)
  \/ Data # None /\ \E type \in Sides, direction \in {"buy", "sell"},
                       s \in DOMAIN Data.strikes \cap UsedStrikes, quantity \in Quantities :
       HandleAdd(type, direction, s, quantity)
  \/ Data # None /\ \E i \in DOMAIN strategy.legs : LegUpdates(i)
  \/ \E i \in DOMAIN strategy.legs : Edit([strategy EXCEPT !.legs = RemoveAt(@, i)])
  \/ strategy.legs # <<>> /\ Edit(ClearLegs(strategy))

BuilderNext ==
  \/ RunEffects
  \/ ChainArrives \/ Forgotten \/ ExpiriesArrive
  \/ SetUnderlying \/ PickExpiry \/ SetVenues
  \/ Builds

BuilderSpec == BuilderInit /\ [][BuilderNext]_builderVars

(***************************************************************************)
(* Properties                                                              *)
(***************************************************************************)
CardName(template, direction) ==
  LET way == IF direction = "buy" THEN "Long" ELSE "Short"
  IN CASE template = "Call"       -> <<way, "call">>
       [] template = "Put"        -> <<way, "put">>
       [] template = "CallSpread" -> <<IF direction = "buy" THEN "Bull" ELSE "Bear", "Call Spread">>
       [] template = "PutSpread"  -> <<IF direction = "buy" THEN "Bear" ELSE "Bull", "Put Spread">>
       [] template = "Straddle"   -> <<way, "Straddle">>
       [] template = "Strangle"   -> <<way, "Strangle">>
       [] template = "IronCondor" -> <<"Iron Condor">>
       [] template = "Butterfly"  -> <<"call", "Butterfly">>

\* A strategy taken from a card stays what the card says, through every
\* pricing of its legs by later chains, of other venues and other expiries:
\* until the user changes a leg or the underlying, or a chain comes that does
\* not list its strikes or, of another expiry, does not price all its legs,
\* they are all there, at their strikes, and the builder names it as the card
\* does.
StrategyIsKept ==
  applied # None =>
    /\ {strategy.legs[i].strike : i \in DOMAIN strategy.legs} = applied.strikes
    /\ DetectStrategy(strategy.legs) = CardName(applied.template, applied.direction)

\* Where the strategy's value goes on rising beyond an end of the range that
\* is drawn it is given no greatest profit, where it goes on falling no
\* greatest loss.
TellsUnlimited ==
  LET metrics == ComputeMetrics(strategy.legs, Spot, PayoffPoints)
      range   == PayoffRange(strategy.legs, Spot)
      Rises(a, b) == PnlAt(strategy.legs, b) > PnlAt(strategy.legs, a)
      Beyond == {<<range.high, range.high + 1>>}
                  \cup (IF range.low > 0 THEN {<<range.low, range.low - 1>>} ELSE {})
  IN /\ (\E e \in Beyond : Rises(e[1], e[2])) => metrics.maxProfit = None
     /\ (\E e \in Beyond : Rises(e[2], e[1])) => metrics.maxLoss = None

\* A strategy taken from a card is told unlimited wherever it is, at the
\* prices its legs were taken at and at those of every later chain: the legs
\* of a card, of whatever prices, nowhere outdo both ends of the range while
\* an end goes on.
CardsAreTold == applied # None /\ Data # None => TellsUnlimited

\* What computeMetrics says of itself, of any strategy.  It is not so: with
\* quantities to choose a strategy is worth more between two strikes than
\* where the range ends, and has an end beyond which it rises all the same.
UnlimitedIsSaid == strategy.legs # <<>> /\ Data # None => TellsUnlimited
===============================================================================
