SPECIFICATION FeedSpec
CONSTANTS
  Instruments <- MCInstruments
  Chains <- MCChains
  chainOf <- MCChainOf
  baseOf <- MCBaseOf
  FirstListed <- MCFirstListed
  Eager <- MCEager
  Sockets <- MCSockets
  MaxAttempts = 1
  MaxFaults = 2
  MaxAnsweredFaults = 1
  MaxAwaited = 2
  MaxBadAnswers = 1
  BatchSize = 4
  Venues = {"binance", "okx", "bybit", "deribit", "derive"}
INVARIANTS HeldIsReplayed ReplayedIsStreamed
PROPERTIES ConnectedAgain
CHECK_DEADLOCK FALSE
