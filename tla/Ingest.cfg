SPECIFICATION IngestSpec
CONSTANTS
  Parts = {"writer", "live"}
  t1 = t1
  t2 = t2
  Trades = {t1, t2}
  MaxPending = 3
  FlushBatch = 2
  InsertBatch = 1
  MaxPushes = 6
  MaxFailures = 2
  MaxRestarts = 1
  Venues <- MCVenues
  started <- MCStarted
  OwnCurrency = {"BTC", "ETH"}
  UsdcBases = {"AVAX", "SOL", "TRX", "XRP"}
  BufferSize = 2
  MaxTrades = 2
  MaxCuts = 2
INVARIANTS Accounted MemoryBounded BufferIsNewest DrainIsComplete
PROPERTIES WaitingIsWritten SilenceEnds
CHECK_DEADLOCK FALSE
