-------------------------- MODULE MC_MarketServices --------------------------
(* MarketServices for TLC: of every venue an exchange that is well and one    *)
(* that is not in the ways its endpoints say it, two chains, two symbols and  *)
(* overlapping polls, years with and without a range, and values in and out   *)
(* of it.                                                                     *)
EXTENDS MarketServices

MCReports ==
  [binance |-> {[error |-> FALSE, serverTime |-> 1, symbols |-> s] : s \in BOOLEAN}
               \cup {[error |-> TRUE, serverTime |-> None, symbols |-> FALSE]},
   okx     |-> {[states |-> s] : s \in {{}, {"completed", "pre_open"}}},
   bybit   |-> {[error |-> FALSE, retCode |-> 0, states |-> s] :
                  s \in {{"completed"}, {"completed", "ongoing"}}}
               \cup {[error |-> FALSE, retCode |-> 1, states |-> {}]},
   deribit |-> {[error |-> FALSE, locked |-> l, platformMaintenance |-> FALSE,
                 lockedPriceIndexes |-> s] :
                  l \in {"false", "partial"}, s \in {{}, {"btc_usd"}}}
               \cup {[error |-> FALSE, locked |-> "false", platformMaintenance |-> TRUE,
                      lockedPriceIndexes |-> {}]},
   derive  |-> {[error |-> FALSE, serverTime |-> t, incidents |-> n] :
                  t \in {1, None}, n \in 0..1}]

MCSymbols == <<"BTCUSDT", "ETHUSDT">>

Candle(high, low, close) == [high |-> high, low |-> low, close |-> close]
MCYears == {<<Candle(50, 50, 50)>>, <<Candle(60, 40, 50), Candle(80, 45, 70)>>}

(* MarketData: an instrument that expires on the first day and one that       *)
(* outlives it, and one or two messages of a kind, between them with the      *)
(* fields that may be missing there and missing.                              *)
Name(base, form, day, settle) ==
  [base |-> base, expiry |-> [form |-> form, day |-> day], strike |-> 5,
   right |-> "call", settle |-> settle]

Bare(id, name) ==
  [id |-> id, name |-> name, status |-> None, quoteAsset |-> None, unit |-> None,
   strikePrice |-> None, side |-> None, expiryDate |-> None]
Okx(id, name, mult, settle, optType) ==
  [id |-> id, name |-> name, settleCcy |-> settle, ctVal |-> 1, ctMult |-> mult,
   ctValCcy |-> None, optType |-> optType, stk |-> None, state |-> "live"]
Bybit(id, name, coin) ==
  [id |-> id, name |-> name, settleCoin |-> coin, optionsType |-> "Call"]
Deribit(id, name, settle, type, size) ==
  [id |-> id, name |-> name, settlement_currency |-> settle, strike |-> None,
   instrument_type |-> type, contract_size |-> size, option_type |-> None,
   commission |-> 1]
Derive(id, name, details) ==
  [id |-> id, name |-> name, instrument_type |-> "option", is_active |-> None,
   quote_currency |-> None, option_details |-> details, fee_rate |-> 1]

MCListing ==
  [binance |->
     [a |-> Bare("a", Name("BTC", "YYMMDD", 0, None)),
      b |-> [Bare("b", Name("BTC", "YYMMDD", 0, None)) EXCEPT
               !.status = "TRADING", !.quoteAsset = "USDT", !.side = "call",
               !.unit = 1, !.strikePrice = 5, !.expiryDate = 1]],
   okx |->
     [a |-> Okx("a", Name("BTC", "YYMMDD", 0, None), None, None, None),
      b |-> Okx("b", Name("ETH", "YYMMDD", 1, None), 10, "ETH", "call")],
   bybit |->
     [a |-> Bybit("a", Name("BTC", "DMMMYY", 0, None), None),
      b |-> Bybit("b", Name("BTC", "DMMMYY", 1, "USDT"), "USDT")],
   deribit |->
     [a |-> Deribit("a", Name("BTC", "DMMMYY", 0, None), "BTC", "reversed", 1),
      b |-> Deribit("b", Name("SOL_USDC", "DMMMYY", 1, None), "USDC", "linear", 10)],
   derive |->
     [a |-> Derive("a", Name("BTC", "YYYYMMDD", 0, None), None),
      b |-> Derive("b", None, Name("BTC", "YYYYMMDD", 1, None))]]

\* Binance tells a new listing in full; the others tell it as they list it.
MCNewListing ==
  [MCListing EXCEPT
     !["binance"]["a"] = [@ EXCEPT !.quoteAsset = "USDT", !.side = "call",
                                   !.strikePrice = 5, !.expiryDate = 0],
     !["okx"]["b"].state = "suspend"]

BinanceMark(bo, mp) ==
  [bo |-> bo, bq |-> 1, mp |-> mp, i |-> 7, d |-> Absent, vo |-> 2, b |-> 0 - 1]
BybitT(bid, oiValue) ==
  [bid1Price |-> bid, bidPrice |-> bid, bid1Size |-> 1, bidSize |-> 1,
   markPrice |-> 3, lastPrice |-> 3, underlyingPrice |-> 7, indexPrice |-> 7,
   volume24h |-> 1, openInterest |-> 2, openInterestValue |-> oiValue,
   turnover24h |-> 9, delta |-> 1, markIv |-> 2, markPriceIv |-> 2, bid1Iv |-> None,
   bidIv |-> None]
DeribitT(bid, iv) ==
  [best_bid_price |-> bid, best_bid_amount |-> Absent, mark_price |-> 3,
   last_price |-> None, underlying_price |-> 8, index_price |-> 7,
   volume |-> Absent, open_interest |-> 10, delta |-> 1, mark_iv |-> iv,
   bid_iv |-> iv]
DeriveT(b, m, oi) ==
  [b |-> b, best_bid_price |-> 4, B |-> None, best_bid_amount |-> 1, I |-> 7,
   index_price |-> Absent, M |-> Absent, mark_price |-> 3,
   pricing |-> [m |-> m, d |-> 1, i |-> 2, bi |-> None],
   stats |-> [c |-> 1, oi |-> oi, v |-> None]]

MCMessages ==
  [binance |->
     [markPrice  |-> {BinanceMark(4, 3), BinanceMark(0, 2)},
      oi         |-> {[o |-> 2, h |-> 9]},
      restTicker |-> {[volume |-> 6, lastPrice |-> Absent]},
      restOi     |-> {[sumOpenInterest |-> 3, sumOpenInterestUsd |-> None]}],
   okx |->
     [restSnapshot |-> {[bidPx |-> 4, bidSz |-> 1, last |-> 3, vol24h |-> 2]},
      ticker       |-> {[bidPx |-> None, bidSz |-> None, last |-> 3, vol24h |-> None]},
      optSummary   |-> {[fwdPx |-> 7, deltaBS |-> None, delta |-> 1, markVol |-> 2,
                         bidVol |-> None]},
      markPrice    |-> {[markPx |-> 3]},
      restMark     |-> {[markPx |-> 3]},
      restOi       |-> {[oi |-> 2]}],
   bybit |->
     [restSnapshot |-> {BybitT(4, Absent)},
      ticker       |-> {BybitT(None, 9), BybitT(5, Absent)}],
   deribit |->
     [summary   |-> {[bid_price |-> 4, mark_price |-> 3, last |-> None,
                      underlying_price |-> 8, volume |-> 1, volume_usd |-> 9,
                      open_interest |-> 10, mark_iv |-> None]},
      ticker    |-> {DeribitT(None, None), DeribitT(5, 2)},
      markPrice |-> {[mark_price |-> 3, iv |-> 2]},
      index     |-> {7, 9}],
   derive |-> [ticker |-> {DeriveT(5, None, 2), DeriveT(None, 3, None)}]]
==============================================================================
