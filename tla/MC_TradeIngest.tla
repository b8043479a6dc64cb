---------------------------- MODULE MC_TradeIngest ----------------------------
(* TradeIngest for TLC: a queue of three, batches of two, one per insert; and  *)
(* two of Deribit's USDC underlyings on one connection, and one underlying of  *)
(* every other venue.                                                          *)
EXTENDS TradeIngest

CONSTANTS t1, t2

MCVenues == {"deribit", "okx", "bybit", "binance", "derive"}
MCStarted == [v \in MCVenues |-> IF v = "deribit" THEN <<"SOL", "XRP">> ELSE <<"BTC">>]
===============================================================================
