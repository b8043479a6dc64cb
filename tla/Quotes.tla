-------------------------------- MODULE Quotes --------------------------------
(***************************************************************************)
(* The data of a venue adapter: the instrument catalogue and the quotes.   *)
(***************************************************************************)
EXTENDS Integers, FiniteSets

CONSTANTS
  None,                \* null or undefined
  Absent,              \* undefined
  DefaultFee,          \* what the code assumes where a venue does not say its fees
  DefaultContractSize  \* of an OKX instrument the adapter does not know

(***************************************************************************)
(* How each venue's listing becomes a CachedInstrument (parseInstrument of *)
(* the five ws-clients), and what the adapter answers from its instruments *)
(* (feeds/shared/sdk-base.ts).                                             *)
(*                                                                         *)
(* A listing carries the fields of the venue's schema the code reads, None *)
(* where the schema lets one be missing, and `name`: what the venue's      *)
(* pattern reads from the exchange symbol, None when it does not match.    *)
(* Days are numbers; tick sizes and minimum quantities are left out, and   *)
(* one fee stands for the maker's and the taker's.                         *)
(***************************************************************************)

OrElse(value, other) == IF value # None THEN value ELSE other

\* An expiry as a venue writes it: one of the forms the code knows is read as
\* its day, anything else is kept as it is.
ExpiryForms == {"YYMMDD", "YYYYMMDD", "DMMMYY", "epoch"}
ParseExpiry(raw) == IF raw.form \in ExpiryForms THEN raw.day ELSE raw

CanonicalSymbol(base, settle, expiry, strike, right) ==
  <<base, settle, expiry, strike, right>>

Instrument(l, base, settle, expiry, strike, right) ==
  [symbol |-> CanonicalSymbol(base, settle, expiry, strike, right),
   exchangeSymbol |-> l.id, base |-> base, settle |-> settle,
   expiry |-> expiry, strike |-> strike, right |-> right]

\* The rest of a CachedInstrument.
Terms(inverse, size, currency, fee) ==
  [inverse |-> inverse, contractSize |-> size,
   contractValueCurrency |-> currency, fee |-> fee]

With(inst, terms) == [f \in DOMAIN inst \cup DOMAIN terms |->
                        IF f \in DOMAIN inst THEN inst[f] ELSE terms[f]]

(***************************************************************************)
(* The venues.  The fields of the answer go before what the name says.     *)
(***************************************************************************)
BinanceInstrument(l) ==
  IF l.status \notin {None, "TRADING"} \/ l.name = None THEN None
  ELSE LET settle == OrElse(l.quoteAsset, "USDT")
           right  == IF l.side \in {"call", "put"} THEN l.side ELSE l.name.right
           expiry == OrElse(l.expiryDate, ParseExpiry(l.name.expiry))
       IN With(Instrument(l, l.name.base, settle, expiry,
                          OrElse(l.strikePrice, l.name.strike), right),
               Terms(FALSE, OrElse(l.unit, 1), l.name.base, DefaultFee))

\* A listing told on the socket says everything but the base.
BinanceNewInstrument(l) ==
  IF l.status \notin {None, "TRADING"} \/ l.name = None THEN None
  ELSE With(Instrument(l, l.name.base, l.quoteAsset, l.expiryDate,
                       l.strikePrice, l.side),
            Terms(FALSE, OrElse(l.unit, 1), l.name.base, DefaultFee))

OkxInstrument(l) ==
  IF l.name = None THEN None
  ELSE LET settle == OrElse(l.settleCcy, l.name.base)
           right  == IF l.optType \in {"call", "put"} THEN l.optType
                     ELSE l.name.right
       IN With(Instrument(l, l.name.base, settle, ParseExpiry(l.name.expiry),
                          OrElse(l.stk, l.name.strike), right),
               Terms(settle = l.name.base, OrElse(l.ctMult, OrElse(l.ctVal, 1)),
                     OrElse(l.ctValCcy, settle), DefaultFee))

\* A listing on the instruments channel is taken only when it is live.
OkxNewInstrument(l) ==
  IF l.state \notin {None, "live"} THEN None ELSE OkxInstrument(l)

\* optionsType and settleCoin are there, if empty (None) perhaps; the suffix of
\* a new name is its settlement.
BybitInstrument(l) ==
  IF l.name = None THEN None
  ELSE With(Instrument(l, l.name.base,
                       OrElse(l.settleCoin, OrElse(l.name.settle, "USDT")),
                       ParseExpiry(l.name.expiry), l.name.strike,
                       IF l.optionsType = "Call" THEN "call" ELSE "put"),
            Terms(FALSE, 1, l.name.base, DefaultFee))

DeribitInstrument(l) ==
  IF l.name = None THEN None
  ELSE With(Instrument(l, l.name.base,
                       OrElse(l.settlement_currency, l.name.base),
                       ParseExpiry(l.name.expiry),
                       OrElse(l.strike, l.name.strike),
                       OrElse(l.option_type, l.name.right)),
            Terms(l.instrument_type = "reversed", OrElse(l.contract_size, 1),
                  l.name.base, l.commission))

\* The terms Derive gives, or else what the name says.
DeriveDetails(l) == IF l.option_details # None THEN l.option_details ELSE l.name

DeriveInstrument(l) ==
  IF l.instrument_type # "option" \/ l.is_active = FALSE \/ DeriveDetails(l) = None
    THEN None
  ELSE LET d == DeriveDetails(l)
       IN With(Instrument(l, d.base, OrElse(l.quote_currency, "USDC"),
                          ParseExpiry(d.expiry), d.strike, d.right),
               Terms(FALSE, 1, d.base, l.fee_rate))

(***************************************************************************)
(* The adapter's instruments, a set of them.                               *)
(***************************************************************************)
Listed(instruments) == {i.exchangeSymbol : i \in instruments}

InstrumentOf(instruments, id) ==
  CHOOSE i \in instruments : i.exchangeSymbol = id

Underlyings(instruments) == {i.base : i \in instruments}

Expiries(instruments, underlying) ==
  {i.expiry : i \in {j \in instruments : j.base = underlying}}

Matching(instruments, underlying, expiry) ==
  {i \in instruments : i.base = underlying /\ i.expiry = expiry}

\* The nearest expiries, which are subscribed at once.
Nearest(instruments, underlying, count) ==
  {e \in Expiries(instruments, underlying) :
     Cardinality({f \in Expiries(instruments, underlying) : f < e}) < count}

Expired(instruments, today) == {i \in instruments : i.expiry < today}

(***************************************************************************)
(* The LiveQuote of an instrument, as each venue's messages build it out of *)
(* the message and the quote before it (state.ts of the five feeds), and   *)
(* the prices, the open interest and the fees the adapter makes of it      *)
(* (feeds/shared/sdk-base.ts).                                             *)
(*                                                                         *)
(* A message carries the fields of the venue's schema under the source's   *)
(* names; the bid stands for both sides, delta for the greeks the code     *)
(* treats alike, and timestamps are left out.  None is null or a blank     *)
(* string, Absent a field the message does not have.                       *)
(***************************************************************************)

SafeNum(value) == IF value \in {None, Absent} THEN None ELSE value

\* A number that is not positive says that there is none.
PositiveOrNull(value) ==
  IF SafeNum(value) # None /\ SafeNum(value) > 0 THEN SafeNum(value) ELSE None

\* Number(null) is zero, so an IV that is null is taken for an IV of zero.
IvToFraction(value) ==
  IF value = Absent THEN None ELSE IF value = None THEN 0 ELSE value

Times(a, b) == IF a = None \/ b = None THEN None ELSE a * b

EmptyGreeks == [delta |-> None, markIv |-> None, bidIv |-> None]

EmptyQuote ==
  [bidPrice |-> None, bidSize |-> None, markPrice |-> None, lastPrice |-> None,
   underlyingPrice |-> None, indexPrice |-> None, volume24h |-> None,
   openInterest |-> None, openInterestUsd |-> None, volume24hUsd |-> None,
   greeks |-> EmptyGreeks]

\* The quote before a message, if there is one.
Before(prev) == OrElse(prev, EmptyQuote)

\* A quote with the fields of f put into it.
Changed(quote, f) == [x \in DOMAIN quote |->
                        IF x \in DOMAIN f THEN f[x] ELSE quote[x]]

(***************************************************************************)
(* Binance.                                                                *)
(***************************************************************************)
BinanceMarkPrice(prev, item) ==
  LET bid == PositiveOrNull(item.bo) IN
  [Before(prev) EXCEPT
     !.bidPrice = bid,
     !.bidSize  = IF bid # None THEN SafeNum(item.bq) ELSE None,
     !.markPrice = SafeNum(item.mp),
     !.underlyingPrice = SafeNum(item.i),
     !.indexPrice = SafeNum(item.i),
     !.greeks = [delta |-> SafeNum(item.d), markIv |-> SafeNum(item.vo),
                 bidIv |-> PositiveOrNull(item.b)]]

BinanceOiEvent(prev, item) ==
  [prev EXCEPT !.openInterest = SafeNum(item.o), !.openInterestUsd = SafeNum(item.h)]

BinanceRestTicker(prev, ticker) ==
  [prev EXCEPT
     !.volume24h = IF ticker.volume # Absent THEN SafeNum(ticker.volume) ELSE @,
     !.lastPrice = IF ticker.lastPrice # Absent THEN SafeNum(ticker.lastPrice) ELSE @]

BinanceRestOpenInterest(prev, item) ==
  [prev EXCEPT !.openInterest = SafeNum(item.sumOpenInterest),
               !.openInterestUsd = SafeNum(item.sumOpenInterestUsd)]

(***************************************************************************)
(* OKX.                                                                    *)
(***************************************************************************)
OkxGreeks(item) ==
  [delta |-> OrElse(SafeNum(item.deltaBS), SafeNum(item.delta)),
   markIv |-> SafeNum(item.markVol), bidIv |-> SafeNum(item.bidVol)]

\* The ticker of a snapshot: contractSize is None for an unknown instrument.
OkxTicker(ticker, contractSize) ==
  Changed(EmptyQuote,
    [bidPrice  |-> SafeNum(ticker.bidPx), bidSize |-> SafeNum(ticker.bidSz),
     lastPrice |-> SafeNum(ticker.last),
     volume24h |-> Times(SafeNum(ticker.vol24h),
                         OrElse(contractSize, DefaultContractSize))])

OkxOptSummary(prev, item) ==
  [Before(prev) EXCEPT !.underlyingPrice = OrElse(SafeNum(item.fwdPx), @),
                       !.greeks = OkxGreeks(item)]

OkxWsTicker(prev, ticker, inst) ==
  LET volume == OrElse(Times(SafeNum(ticker.vol24h),
                             OrElse(inst.contractSize, DefaultContractSize)),
                       Before(prev).volume24h)
  IN [Before(prev) EXCEPT
        !.bidPrice = SafeNum(ticker.bidPx), !.bidSize = SafeNum(ticker.bidSz),
        !.lastPrice = SafeNum(ticker.last),
        !.indexPrice = None,
        !.volume24h = volume,
        !.volume24hUsd = OrElse(Times(volume, Before(prev).underlyingPrice), @)]

OkxMarkPrice(prev, item) == [prev EXCEPT !.markPrice = SafeNum(item.markPx)]

OkxRestMarkPrice(prev, item) == [prev EXCEPT !.markPrice = SafeNum(item.markPx)]

\* The dollars OKX states are not the notional: they are dropped.
OkxRestOpenInterest(prev, item) ==
  [prev EXCEPT !.openInterest = SafeNum(item.oi), !.openInterestUsd = None]

(***************************************************************************)
(* Bybit: every message is the whole quote, under different names.         *)
(***************************************************************************)
BybitQuote(t, bidPrice, bidSize, markIv, bidIv) ==
  [bidPrice |-> SafeNum(bidPrice), bidSize |-> SafeNum(bidSize),
   markPrice |-> SafeNum(t.markPrice), lastPrice |-> SafeNum(t.lastPrice),
   underlyingPrice |-> SafeNum(t.underlyingPrice),
   indexPrice |-> SafeNum(t.indexPrice),
   volume24h |-> SafeNum(t.volume24h), openInterest |-> SafeNum(t.openInterest),
   openInterestUsd |-> SafeNum(t.openInterestValue),
   volume24hUsd |-> SafeNum(t.turnover24h),
   greeks |-> [delta |-> SafeNum(t.delta), markIv |-> SafeNum(markIv),
               bidIv |-> SafeNum(bidIv)]]

BybitRestQuote(t) == BybitQuote(t, t.bid1Price, t.bid1Size, t.markIv, t.bid1Iv)

BybitWsQuote(t) == BybitQuote(t, t.bidPrice, t.bidSize, t.markPriceIv, t.bidIv)

(***************************************************************************)
(* Deribit.  Open interest comes in the underlying and is divided by the   *)
(* contract size the adapter knows.                                        *)
(***************************************************************************)
InContracts(amount, contractSize) ==
  IF SafeNum(amount) # None /\ contractSize # None /\ contractSize > 0
    THEN amount \div contractSize
    ELSE SafeNum(amount)

DeribitBookSummary(s, contractSize) ==
  Changed(EmptyQuote,
    [bidPrice |-> SafeNum(s.bid_price), markPrice |-> SafeNum(s.mark_price),
     lastPrice |-> SafeNum(s.last),
     underlyingPrice |-> SafeNum(s.underlying_price),
     volume24h |-> SafeNum(s.volume),
     openInterest |-> InContracts(s.open_interest, contractSize),
     volume24hUsd |-> SafeNum(s.volume_usd),
     greeks |-> [EmptyGreeks EXCEPT !.markIv = IvToFraction(s.mark_iv)]])

DeribitPriceIndex(prev, price) ==
  [prev EXCEPT !.underlyingPrice = price, !.indexPrice = price]

\* An instrument without a ticker has no bid, whatever the snapshot said.
DeribitMarkPrice(prev, item, underlying, hasTicker) ==
  [Before(prev) EXCEPT
     !.bidPrice = IF hasTicker THEN @ ELSE None,
     !.bidSize  = IF hasTicker THEN @ ELSE None,
     !.markPrice = item.mark_price,
     !.underlyingPrice = OrElse(underlying, @),
     !.indexPrice = OrElse(underlying, @),
     !.greeks = [@ EXCEPT !.markIv = SafeNum(item.iv)]]

DeribitTicker(t, contractSize) ==
  Changed(EmptyQuote,
    [bidPrice |-> SafeNum(t.best_bid_price), bidSize |-> SafeNum(t.best_bid_amount),
     markPrice |-> SafeNum(t.mark_price), lastPrice |-> SafeNum(t.last_price),
     underlyingPrice |-> SafeNum(t.underlying_price),
     indexPrice |-> SafeNum(t.index_price), volume24h |-> SafeNum(t.volume),
     openInterest |-> InContracts(t.open_interest, contractSize),
     greeks |-> [delta |-> SafeNum(t.delta), markIv |-> IvToFraction(t.mark_iv),
                 bidIv |-> IvToFraction(t.bid_iv)]])

(***************************************************************************)
(* Derive: the short name of a field, or else the long one.                *)
(***************************************************************************)
Either(short, long) == IF short \in {None, Absent} THEN long ELSE short

DeriveQuote(t) ==
  Changed(EmptyQuote,
    [bidPrice |-> SafeNum(Either(t.b, t.best_bid_price)),
     bidSize  |-> SafeNum(Either(t.B, t.best_bid_amount)),
     markPrice |-> SafeNum(Either(t.pricing.m, Either(t.M, t.mark_price))),
     underlyingPrice |-> SafeNum(Either(t.I, t.index_price)),
     indexPrice |-> SafeNum(Either(t.I, t.index_price)),
     volume24h |-> SafeNum(t.stats.c), openInterest |-> SafeNum(t.stats.oi),
     volume24hUsd |-> SafeNum(t.stats.v),
     greeks |-> [delta |-> SafeNum(t.pricing.d), markIv |-> SafeNum(t.pricing.i),
                 bidIv |-> SafeNum(t.pricing.bi)]])

(***************************************************************************)
(* What the adapter tells of a quote.  Money of an inverse instrument is   *)
(* raw times the underlying; Deribit quotes a linear contract by the unit  *)
(* of the underlying.                                                      *)
(***************************************************************************)
NormPrice(raw, inst, underlying) ==
  [raw |-> raw,
   usd |-> IF inst.inverse THEN Times(raw, underlying) ELSE raw]

DeribitNormPrice(raw, inst, underlying) ==
  IF ~inst.inverse /\ OrElse(inst.contractSize, 1) # 1
    THEN [raw |-> raw, usd |-> Times(raw, inst.contractSize)]
    ELSE NormPrice(raw, inst, underlying)

OpenInterestUsd(inst, contracts, native, underlying) ==
  LET value    == Times(contracts, OrElse(inst.contractSize, 1))
      currency == OrElse(inst.contractValueCurrency, inst.base)
  IN CASE native # None -> native
       [] native = None /\ currency = inst.base -> Times(value, underlying)
       [] native = None /\ currency # inst.base
            /\ currency \in {"USD", "USDT", "USDC"} -> value
       [] OTHER -> None

\* In thousandths: a rate of the contract's value, at most a share of the price.
FeeCap(venue) == IF venue = "binance" THEN 100 ELSE 125

EstimatedFee(venue, inst, priceUsd, underlying) ==
  IF None \in {inst.fee, priceUsd, underlying} THEN None
  ELSE LET base == inst.fee * underlying * OrElse(inst.contractSize, 1)
           cap  == FeeCap(venue) * priceUsd
       IN IF base < cap THEN base ELSE cap
===============================================================================
