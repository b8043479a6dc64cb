------------------------------ MODULE MarketData ------------------------------
(***************************************************************************)
(* The instruments and quotes of one venue adapter from its start on: the  *)
(* snapshots fetched before the catalogue is cached (fetchInstruments), the *)
(* messages and polls after it, listings and expiries, and what a viewer   *)
(* of the venue's chains holds of it: the chain it fetched, and what was    *)
(* told of its contracts since (SdkBaseAdapter.emitQuoteUpdates).          *)
(*                                                                         *)
(* Which streams are asked for is the part of the feed modules; here any   *)
(* message may come for any instrument of the exchange, listed or expired. *)
(* A message is one item of a batch.                                       *)
(***************************************************************************)
EXTENDS Quotes, Sequences

CONSTANTS
  Venues,      \* the venues looked at, one in each behaviour
  Ids,         \* the exchange symbols
  Listing,     \* [venue -> [id -> the listing the venue gives of it]]
  NewListing,  \* the same, of one told after the start
  Messages,    \* [venue -> [kind -> the messages looked at]]
  LastDay      \* bound of the calendar

VARIABLES
  venue,        \* the adapter's venue
  stage,        \* how many snapshots were fetched
  marketsLoaded,
  instruments,  \* CachedInstruments
  quoteStore,   \* [id -> the LiveQuote, None when there is none]
  liveIndex,    \* Deribit: the price of the index, None before the first
  tickers,      \* Deribit: subscribedTickers
  today,
  watched,      \* there is a viewer
  view,         \* [id -> what the viewer holds of it, None when nothing]
  unsaid        \* ids whose quote was fetched again, or removed, and not told since

adapterVars == <<instruments, quoteStore, liveIndex, tickers>>
viewVars == <<watched, view, unsaid>>
vars == <<venue, stage, marketsLoaded, adapterVars, today, viewVars>>

\* What is fetched before the instruments are cached, in this order.
Snapshots ==
  [binance |-> <<"restTicker", "restOi">>,
   okx     |-> <<"restSnapshot", "optSummary", "restOi", "restMark">>,
   bybit   |-> <<"restSnapshot">>,
   deribit |-> <<"summary">>,
   derive  |-> <<"ticker">>]

Streams ==
  [binance |-> {"markPrice", "oi"},
   okx     |-> {"ticker", "optSummary", "markPrice"},
   bybit   |-> {"ticker"},
   deribit |-> {"markPrice", "ticker"},
   derive  |-> {"ticker"}]

\* Binance asks for the open interest when it knows none, and the answers may come
\* when it knows some.
Polled ==
  [v \in DOMAIN Streams |->
     CASE v = "binance" -> {"restTicker", "restOi"}
       [] v = "okx" -> {"restOi", "restMark"}
       [] OTHER -> {}]

Known(id) == id \in Listed(instruments)
Size(id) == InstrumentOf(instruments, id).contractSize

ParsedListing(v, l) ==
  CASE v = "binance" -> BinanceInstrument(l)
    [] v = "okx"     -> OkxInstrument(l)
    [] v = "bybit"   -> BybitInstrument(l)
    [] v = "deribit" -> DeribitInstrument(l)
    [] v = "derive"  -> DeriveInstrument(l)

ParsedNewListing(v, l) ==
  CASE v = "binance" -> BinanceNewInstrument(l)
    [] v = "okx"     -> OkxNewInstrument(l)
    [] OTHER         -> ParsedListing(v, l)

Parsed(id) == ParsedListing(venue, Listing[venue][id])
ParsedNew(id) == ParsedNewListing(venue, NewListing[venue][id])

(***************************************************************************)
(* The quote a message makes, None when it is passed over.                 *)
(***************************************************************************)
BinanceQuoted(kind, id, m) ==
  LET prev == quoteStore[id] IN
  CASE kind = "markPrice" -> BinanceMarkPrice(prev, m)
    [] kind # "markPrice" /\ prev = None -> None
    [] kind = "oi" /\ prev # None -> BinanceOiEvent(prev, m)
    [] kind = "restTicker" /\ prev # None -> BinanceRestTicker(prev, m)
    [] kind = "restOi" /\ prev # None -> BinanceRestOpenInterest(prev, m)

OkxQuoted(kind, id, m) ==
  LET prev == quoteStore[id] IN
  CASE kind = "restSnapshot" -> OkxTicker(m, IF Known(id) THEN Size(id) ELSE None)
    [] kind = "optSummary" /\ (Known(id) \/ ~marketsLoaded) -> OkxOptSummary(prev, m)
    [] kind = "ticker" /\ Known(id) ->
         OkxWsTicker(prev, m, InstrumentOf(instruments, id))
    [] kind = "markPrice" /\ Known(id) /\ prev # None -> OkxMarkPrice(prev, m)
    [] kind = "restMark" /\ prev # None -> OkxRestMarkPrice(prev, m)
    [] kind = "restOi" /\ prev # None -> OkxRestOpenInterest(prev, m)
    [] OTHER -> None

BybitQuoted(kind, id, m) ==
  CASE kind = "restSnapshot" -> BybitRestQuote(m)
    [] kind = "ticker" /\ Known(id) -> BybitWsQuote(m)
    [] OTHER -> None

DeribitQuoted(kind, id, m) ==
  CASE kind = "summary" ->
         DeribitBookSummary(m, IF Known(id) THEN Size(id) ELSE 1)
    [] kind = "ticker" /\ Known(id) -> DeribitTicker(m, Size(id))
    [] kind = "markPrice" /\ Known(id) ->
         DeribitMarkPrice(quoteStore[id], m, liveIndex, id \in tickers)
    [] OTHER -> None

DeriveQuoted(kind, id, m) ==
  IF Known(id) \/ ~marketsLoaded THEN DeriveQuote(m) ELSE None

Quoted(kind, id, m) ==
  CASE venue = "binance" -> BinanceQuoted(kind, id, m)
    [] venue = "okx"     -> OkxQuoted(kind, id, m)
    [] venue = "bybit"   -> BybitQuoted(kind, id, m)
    [] venue = "deribit" -> DeribitQuoted(kind, id, m)
    [] venue = "derive"  -> DeriveQuoted(kind, id, m)

(***************************************************************************)
(* What is shown of a quote: the delta of emitQuoteUpdates, and the        *)
(* contract of a fetched chain, which has the last price as well.          *)
(***************************************************************************)
Price(raw, inst, q) ==
  IF venue = "deribit" THEN DeribitNormPrice(raw, inst, q.underlyingPrice)
  ELSE NormPrice(raw, inst, q.underlyingPrice)

Delta(inst, q) ==
  [bid |-> Price(q.bidPrice, inst, q), mark |-> Price(q.markPrice, inst, q),
   bidSize |-> q.bidSize,
   underlyingPriceUsd |-> q.underlyingPrice, indexPriceUsd |-> q.indexPrice,
   volume24h |-> q.volume24h, openInterest |-> q.openInterest,
   openInterestUsd |-> OpenInterestUsd(inst, q.openInterest, q.openInterestUsd,
                                       q.underlyingPrice),
   volume24hUsd |-> q.volume24hUsd,
   estimatedFee |-> EstimatedFee(venue, inst, Price(q.markPrice, inst, q).usd,
                                 q.underlyingPrice),
   greeks |-> q.greeks]

Contract(inst) ==
  LET q == OrElse(quoteStore[inst.exchangeSymbol], EmptyQuote) IN
  [greeks |-> q.greeks,
   bid |-> Price(q.bidPrice, inst, q), mark |-> Price(q.markPrice, inst, q),
   last |-> IF q.lastPrice # None THEN Price(q.lastPrice, inst, q) ELSE None,
   bidSize |-> q.bidSize,
   underlyingPriceUsd |-> q.underlyingPrice, indexPriceUsd |-> q.indexPrice,
   volume24h |-> q.volume24h, openInterest |-> q.openInterest,
   openInterestUsd |-> OpenInterestUsd(inst, q.openInterest, q.openInterestUsd,
                                       q.underlyingPrice),
   volume24hUsd |-> q.volume24hUsd,
   estimatedFee |-> EstimatedFee(venue, inst, Price(q.markPrice, inst, q).usd,
                                 q.underlyingPrice)]

Init ==
  /\ venue \in Venues
  /\ stage = 0 /\ marketsLoaded = FALSE
  /\ instruments = {} /\ quoteStore = [id \in Ids |-> None]
  /\ liveIndex = None /\ tickers = {}
  /\ today = 0
  /\ watched = FALSE /\ view = [id \in Ids |-> None] /\ unsaid = {}

\* The quotes are stored, and told to the viewers when their instrument is known:
\* what is told of a contract replaces what the viewer had of it.  One that it does
\* not have makes it fetch the chain again (Watch).
Emit(quotes) ==
  LET told == {id \in Ids : watched /\ quotes[id] # None /\ Known(id)} IN
  /\ quoteStore' = [id \in Ids |-> OrElse(quotes[id], quoteStore[id])]
  /\ view' = [id \in Ids |->
                IF id \in told /\ view[id] # None
                  THEN Changed(view[id], Delta(InstrumentOf(instruments, id), quotes[id]))
                  ELSE view[id]]
  /\ unsaid' = unsaid \ told

Only(id, quote) == [i \in Ids |-> IF i = id THEN quote ELSE None]

(***************************************************************************)
(* The start.  A snapshot answers for some instruments, or not at all.     *)
(***************************************************************************)
FetchSnapshot ==
  /\ ~marketsLoaded /\ stage < Len(Snapshots[venue])
  /\ stage' = stage + 1
  /\ LET kind == Snapshots[venue][stage + 1] IN
     \E answered \in SUBSET Ids :
       \E m \in [answered -> Messages[venue][kind]] :
         quoteStore' = [id \in Ids |->
                          IF id \in answered
                            THEN OrElse(Quoted(kind, id, m[id]), quoteStore[id])
                            ELSE quoteStore[id]]
  /\ UNCHANGED <<venue, marketsLoaded, instruments, liveIndex, tickers, today,
                 viewVars>>

\* Binance streams before it fetches: a quote of an instrument that is not in the
\* catalogue yet, or is not any more, is kept.
BinanceEarly(id, m) ==
  /\ venue = "binance" /\ ~Known(id)
  /\ quoteStore' = [quoteStore EXCEPT ![id] = BinanceMarkPrice(@, m)]
  /\ UNCHANGED <<venue, stage, marketsLoaded, instruments, liveIndex, tickers,
                 today, viewVars>>

\* Derive lists expiries nothing is quoted in: those are left out.
LoadMarkets ==
  /\ ~marketsLoaded /\ stage = Len(Snapshots[venue])
  /\ marketsLoaded' = TRUE
  /\ \E offered \in SUBSET Ids :
       instruments' = {Parsed(id) : id \in {i \in offered :
                         /\ Parsed(i) # None
                         /\ venue = "derive" => quoteStore[i] # None}}
  /\ UNCHANGED <<venue, stage, quoteStore, liveIndex, tickers, today, viewVars>>

(***************************************************************************)
(* Messages and polls.                                                     *)
(***************************************************************************)
Receive(id, kind, m) ==
  /\ marketsLoaded /\ kind \in Streams[venue]
  /\ ~(venue = "binance" /\ kind = "markPrice" /\ ~Known(id))
  /\ Emit(Only(id, Quoted(kind, id, m)))
  /\ UNCHANGED <<venue, stage, marketsLoaded, instruments, liveIndex, tickers,
                 today, watched>>

\* A defect: what a poll brings is stored and told nobody.
PollStores(id, kind, m) ==
  /\ marketsLoaded /\ kind \in Polled[venue]
  /\ LET quote == Quoted(kind, id, m) IN
     quoteStore' = [quoteStore EXCEPT ![id] = OrElse(quote, @)]
  /\ UNCHANGED <<venue, stage, marketsLoaded, instruments, liveIndex, tickers,
                 today, viewVars>>

Poll(id, kind, m) ==
  /\ marketsLoaded /\ kind \in Polled[venue]
  /\ Emit(Only(id, Quoted(kind, id, m)))
  /\ UNCHANGED <<venue, stage, marketsLoaded, instruments, liveIndex, tickers,
                 today, watched>>

\* Every quoted instrument of the index takes its price for the underlying's.
PriceIndex(price) ==
  /\ venue = "deribit" /\ marketsLoaded
  /\ liveIndex' = price
  /\ Emit([id \in Ids |->
             IF Known(id) /\ quoteStore[id] # None
               THEN DeribitPriceIndex(quoteStore[id], price) ELSE None])
  /\ UNCHANGED <<venue, stage, marketsLoaded, instruments, tickers, today,
                 watched>>

SubscribeTicker(id) ==
  /\ venue = "deribit" /\ Known(id) /\ id \notin tickers
  /\ tickers' = tickers \cup {id}
  /\ UNCHANGED <<venue, stage, marketsLoaded, instruments, quoteStore, liveIndex,
                 today, viewVars>>

\* Whenever a chain is subscribed, and for strikes listed in one that is, Derive
\* fetches the tickers of the expiry, stores those of all names it is given, and
\* tells nobody.
Refetch(id, m) ==
  /\ venue = "derive" /\ marketsLoaded
  /\ quoteStore' = [quoteStore EXCEPT ![id] = DeriveQuote(m)]
  /\ unsaid' = unsaid \cup {id}
  /\ UNCHANGED <<venue, stage, marketsLoaded, instruments, liveIndex, tickers,
                 today, watched, view>>

(***************************************************************************)
(* Listings and removals.                                                  *)
(***************************************************************************)
\* Whatever is not in the catalogue is listed, also when it was removed from it.
List(id) ==
  /\ marketsLoaded /\ ~Known(id) /\ ParsedNew(id) # None
  /\ instruments' = instruments \cup {ParsedNew(id)}
  /\ UNCHANGED <<venue, stage, marketsLoaded, quoteStore, liveIndex, tickers,
                 today, viewVars>>

NextDay ==
  /\ marketsLoaded /\ today < LastDay
  /\ today' = today + 1
  /\ UNCHANGED <<venue, stage, marketsLoaded, adapterVars, viewVars>>

\* What may be removed at once: Deribit's instruments as it tells that they were
\* delivered or archived, Bybit's that its list does not have as trading (all of a
\* coin when the answer is no list), those of past days of the others.
Removable ==
  IF venue \in {"bybit", "deribit"} THEN SUBSET Listed(instruments)
  ELSE {Listed(Expired(instruments, today))}

\* The instruments go, with their quotes.  The viewers are not told.
Remove(ids) ==
  /\ marketsLoaded /\ ids # {}
  /\ instruments' = {i \in instruments : i.exchangeSymbol \notin ids}
  /\ quoteStore' = [id \in Ids |-> IF id \in ids THEN None ELSE quoteStore[id]]
  /\ tickers' = tickers \ ids
  /\ unsaid' = unsaid \cup ids
  /\ UNCHANGED <<venue, stage, marketsLoaded, liveIndex, today, watched, view>>

(***************************************************************************)
(* The viewer.                                                             *)
(***************************************************************************)
\* The chain is fetched once the venue is subscribed, and again when a contract is
\* told that the viewer does not have.
Watch ==
  /\ marketsLoaded
  /\ watched' = TRUE
  /\ view' = [id \in Ids |-> IF Known(id) THEN Contract(InstrumentOf(instruments, id))
                             ELSE None]
  /\ unsaid' = {}
  /\ UNCHANGED <<venue, stage, marketsLoaded, adapterVars, today>>

Leave ==
  /\ watched
  /\ watched' = FALSE /\ view' = [id \in Ids |-> None] /\ unsaid' = {}
  /\ UNCHANGED <<venue, stage, marketsLoaded, adapterVars, today>>

Of(kind) == IF kind \in DOMAIN Messages[venue] THEN Messages[venue][kind] ELSE {}

Next ==
  \/ FetchSnapshot \/ LoadMarkets
  \/ \E id \in Ids :
       \/ \E m \in Of("markPrice") : BinanceEarly(id, m)
       \/ \E kind \in Streams[venue] : \E m \in Of(kind) : Receive(id, kind, m)
       \/ \E kind \in Polled[venue] : \E m \in Of(kind) : Poll(id, kind, m)
       \/ \E m \in Of("ticker") : Refetch(id, m)
       \/ SubscribeTicker(id) \/ List(id)
  \/ \E price \in Of("index") : PriceIndex(price)
  \/ \E ids \in Removable : Remove(ids)
  \/ NextDay \/ Watch \/ Leave

Spec == Init /\ [][Next]_vars

(***************************************************************************)
(* Properties.                                                             *)
(***************************************************************************)
\* What a viewer holds of a contract is what a chain fetched now would say of it,
\* but for the last price, which is never told: no message, poll or index price
\* changes a stored quote behind its back (SdkBaseAdapter.emitQuoteUpdates against
\* buildContract).  Only a removal does and what Derive fetches, until the next quote
\* is told, and a contract that is listed again is one like any other then.
ViewIsStore ==
  \A i \in instruments :
    LET id == i.exchangeSymbol IN
    watched /\ view[id] # None /\ id \notin unsaid
      => \A f \in DOMAIN Contract(i) \ {"last"} : view[id][f] = Contract(i)[f]

===============================================================================
