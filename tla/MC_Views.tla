------------------------------- MODULE MC_Views -------------------------------
(***************************************************************************)
(* For TLC: what the pages show.  A runtime's projection, the strategy      *)
(* builder and the two history views; a behaviour is of one of them.  The   *)
(* builder meets the projection in the chain, which for it is what the      *)
(* query answers; the history views read what the ingest worker wrote.      *)
(***************************************************************************)
EXTENDS ChainProjection, StrategyBuilder, FlowHistory, TLC

CONSTANT Parts

VARIABLE part

viewVars == <<part, projectionVars, builderVars, vars>>

ViewsInit ==
  /\ part \in Parts
  /\ ProjectionInit /\ BuilderInit /\ Init
  /\ part # "builder" =>
       /\ underlying = "BTC" /\ globalExpiry = None
       /\ link = None
  /\ part # "history" => mode = "live"

OfProjection(A) == part = "projection" /\ A /\ UNCHANGED <<part, builderVars, vars>>
OfBuilder(A)    == part = "builder" /\ A /\ UNCHANGED <<part, projectionVars, vars>>
OfHistory(A)    == part = "history" /\ A /\ UNCHANGED <<part, projectionVars, builderVars>>

ViewsNext == OfProjection(ProjectionNext) \/ OfBuilder(BuilderNext) \/ OfHistory(Next)

\* The effects of a render run.
ViewsSpec ==
  /\ ViewsInit /\ [][ViewsNext]_viewVars
  /\ WF_viewVars(OfBuilder(RunEffects))

\* The page comes to rest: its effects change the legs and the expiry they
\* depend on, and after each event they soon find nothing more to change.
EffectsSettle == []<>(part = "builder" => ~pending)

-------------------------------------------------------------------------------

(* The projection: of two venues one lists two contracts at one place, as    *)
(* Bybit does in two currencies, and may fail to answer; the deltas bring a  *)
(* market with greeks, take an ask and a price away, or move a delta and a   *)
(* volatility alone.                                                         *)
NoQuote == [bid |-> None, ask |-> None, mark |-> 5, taker |-> None, openInterest |-> None,
            openInterestUsd |-> None, volume24h |-> None, volume24hUsd |-> None,
            underlyingPriceUsd |-> None, indexPriceUsd |-> None]
NoGreeks == [markIv |-> None, delta |-> None, gamma |-> None]

Contract(symbol, strike, right, size) ==
  [symbol |-> symbol, strike |-> strike, right |-> right, contractSize |-> size,
   quote |-> NoQuote, greeks |-> NoGreeks]

One   == <<Contract("a", 9, "call", None), Contract("b", 11, "put", 2)>>
Other == <<Contract("a", 9, "call", 1), Contract("c", 9, "call", 1)>>

TheSnapshots == {[deribit |-> One], [deribit |-> One, bybit |-> Other]}

Delta(venue, symbol, quote, greeks) ==
  [venue |-> venue, symbol |-> symbol, quote |-> quote, greeks |-> greeks]

Market(venue, symbol, delta, iv) ==
  Delta(venue, symbol,
        [bid |-> 4, ask |-> 6, openInterest |-> 3, openInterestUsd |-> 30,
         underlyingPriceUsd |-> 10, indexPriceUsd |-> 12],
        [markIv |-> iv, delta |-> delta, gamma |-> 2])

TheDeltas ==
  {Market("deribit", "a", 300, 500), Market("deribit", "b", 0 - 300, 540),
   Market("bybit", "a", 260, 480), Market("bybit", "c", 700, 460),
   Delta("deribit", "a", [ask |-> None, underlyingPriceUsd |-> 8, indexPriceUsd |-> None], <<>>),
   Delta("deribit", "b", <<>>, [markIv |-> 460, delta |-> 0 - 200]),
   Delta("bybit", "c", [underlyingPriceUsd |-> 9], [markIv |-> 440])}

(* The builder: one expiry is wide enough for the template, the other is not; *)
(* the answer for one venue has other prices than that for both, and for the  *)
(* buyer of a put none.                                                       *)
Both   == {"deribit", "okx"}
Single == {"deribit"}

\* The same quotes at every strike.
Chain(strikes, calls, puts, index) ==
  [strikes |-> [s \in strikes |-> [call |-> [venues |-> calls], put |-> [venues |-> puts]]],
   stats   |-> [spotIndexUsd |-> None, indexPriceUsd |-> index]]

AlikeChain(strikes, quotes, index) == Chain(strikes, quotes, quotes, index)

Quote(bid, ask) == [bid |-> bid, ask |-> ask, delta |-> None]

Wide   == {10, 20, 30, 40, 50, 60, 70}
Narrow == {30, 40, 65}

TheContents ==
  [both   |-> AlikeChain(Wide, [deribit |-> Quote(3, 5), okx |-> Quote(2, 4)], 40),
   bids   |-> Chain(Wide, [deribit |-> Quote(4, 6)], [deribit |-> Quote(4, None)], 40),
   june   |-> AlikeChain(Narrow, [deribit |-> Quote(6, 8)], 40),
   other  |-> AlikeChain({3, 4, 5}, [okx |-> Quote(1, 2)], 4),
   empty  |-> AlikeChain({}, <<>>, None)]

TheAnswers ==
  [key \in {"BTC", "ETH"} \X {"march", "june"} \X {Both, Single} |->
     CASE key = <<"BTC", "march", Both>>   -> {"both"}
       [] key = <<"BTC", "march", Single>> -> {"bids"}
       [] key = <<"ETH", "june", Both>>    -> {"other"}
       [] key[1] = "BTC" /\ key[2] = "june" -> {"june"}
       [] OTHER -> {"empty"}]

TheExpiries == [BTC |-> <<"march", "june">>, ETH |-> <<"june">>]

TheStarts == {<<"BTC", None>>, <<"BTC", "june">>, <<"ETH", None>>}

TheLinks ==
  {[underlying |-> "BTC",
    legs |-> <<[type |-> "call", direction |-> "buy", strike |-> 20, expiry |-> "june",
                quantity |-> 2, entryPrice |-> 9, venue |-> "okx", delta |-> None]>>]}

\* The legs of a link that, with a third put in by hand, are worth most at
\* the middle strike of the drawn range and rise beyond its end.
TheHump ==
  {[underlying |-> "BTC",
    legs |-> <<[type |-> "call", direction |-> "buy", strike |-> 30, expiry |-> "june",
                quantity |-> 6, entryPrice |-> 8, venue |-> "deribit", delta |-> None],
               [type |-> "call", direction |-> "sell", strike |-> 40, expiry |-> "june",
                quantity |-> 8, entryPrice |-> 6, venue |-> "deribit", delta |-> None]>>]}

(* The history: two trades of one moment, of two venues, one of the live      *)
(* trades without an id.                                                      *)
MCTrade(venue, id, ts, size) ==
  [venue |-> venue, underlying |-> "BTC", instrument |-> "BTC-C", tradeId |-> id,
   ts |-> ts, price |-> 2, size |-> size, indexPrice |-> None,
   legs |-> <<[price |-> [below |-> TRUE, amount |-> 1], size |-> 1, ratio |-> 1]>>]

MCLiveTrades ==
  {MCTrade("okx", "1", 2, 1), MCTrade("deribit", "2", 2, 1), MCTrade("deribit", None, 1, 2)}
MCBlockTrades ==
  {MCTrade("okx", "1", 2, 1), MCTrade("deribit", "2", 2, 1)}

MCUids == SetToSeq({LiveUid(t) : t \in MCLiveTrades} \cup {BlockUid(t) : t \in MCBlockTrades})
MCBefore(a, b) ==
  (CHOOSE i \in DOMAIN MCUids : MCUids[i] = a) < (CHOOSE i \in DOMAIN MCUids : MCUids[i] = b)
MCDrafts == {[start |-> 0, end |-> 0]}
MCLiveBounds == {[oldest |-> 0, newest |-> 1]}
MCVenueFilters == {{"deribit"}, {"deribit", "okx"}}
===============================================================================
