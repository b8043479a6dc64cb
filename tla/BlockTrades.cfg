SPECIFICATION Spec
CONSTANTS
  Streams = {"deribit"}
  Windows = {"okx"}
  Cursors = {"derive"}
  BufferSize = 1
  Retention = 1
  Overlap = 1
  Limit = 1
  Lateness = 1
  MaxTime = 3
  MaxTrades = 2
  MaxCuts = 1
  MaxPolls = 2
  MaxBadPages = 1
INVARIANTS ToldOnce CursorKeepsUp
CHECK_DEADLOCK FALSE
