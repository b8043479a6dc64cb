CONSTANTS
  None = None
  Parts = {"builder"}
  Snapshots <- TheSnapshots
  Deltas <- TheDeltas
  MaxDeltas = 2
  Underlyings = {"BTC", "ETH"}
  VenueSets = {{"deribit", "okx"}, {"deribit"}}
  Expiries <- TheExpiries
  Viable = {"june"}
  Answers <- TheAnswers
  Contents <- TheContents
  Starts <- TheStarts
  Links <- TheHump
  UsedTemplates = {"Strangle"}
  UsedStrikes = {65}
  Quantities = {3}
  MaxLegs = 3
  MaxCached = 2
  PayoffPoints = 6
  Dollar = 2
  LiveTrades <- MCLiveTrades
  BlockTrades <- MCBlockTrades
  Spots = {3}
  Before <- MCBefore
  Limit = 1
  Modes = {"live", "institutional"}
  VenueFilters <- MCVenueFilters
  Presets = {"custom"}
  Nows = {3}
  LiveBounds <- MCLiveBounds
  Drafts <- MCDrafts
  HourTicks = 2
  HoursPerDay = 2
  MaxChanges = 1
  RowsChanged = 2
SPECIFICATION ViewsSpec
INVARIANTS UnlimitedIsSaid
