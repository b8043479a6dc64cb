CONSTANTS
  None = None
  Parts = {"projection", "builder", "history"}
  Snapshots <- TheSnapshots
  Deltas <- TheDeltas
  MaxDeltas = 2
  Underlyings = {"BTC", "ETH"}
  VenueSets = {{"deribit", "okx"}, {"deribit"}}
  Expiries <- TheExpiries
  Viable = {"june"}
  Answers <- TheAnswers
  Contents <- TheContents
  Starts <- TheStarts
  Links <- TheLinks
  UsedTemplates = {"Strangle"}
  UsedStrikes = {20}
  Quantities = {2}
  MaxLegs = 1
  MaxCached = 2
  PayoffPoints = 6
  Dollar = 2
  LiveTrades <- MCLiveTrades
  BlockTrades <- MCBlockTrades
  Spots = {3}
  Before <- MCBefore
  Limit = 1
  Modes = {"live", "institutional"}
  VenueFilters <- MCVenueFilters
  Presets = {"custom"}
  Nows = {3}
  LiveBounds <- MCLiveBounds
  Drafts <- MCDrafts
  HourTicks = 2
  HoursPerDay = 2
  MaxChanges = 1
  RowsChanged = 2
SPECIFICATION ViewsSpec
INVARIANTS PatchedIsRebuilt StrategyIsKept CardsAreTold
  NothingSkipped PagesFollowOn PickedIsShown ToldAsTraded
PROPERTIES EffectsSettle
