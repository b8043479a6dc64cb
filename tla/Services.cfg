SPECIFICATION ServicesSpec
CONSTANTS
  None = None
  Parts = {"data", "health", "spot", "dvol", "server"}
  Runtimes = {r1, r2}
  Venues = {"binance", "okx", "bybit", "deribit", "derive"}
  Reports <- MCReports
  Stale = 2
  Symbols <- MCSymbols
  Prices = {1, 2}
  Polls = {p1, p2}
  Currencies = {"BTC", "ETH"}
  Years <- MCYears
  Levels = {30, 60}
  Adapters = {"deribit", "okx"}
  Absent = Absent
  DefaultFee = 1
  DefaultContractSize = 1
  Ids = {"a", "b"}
  Listing <- MCListing
  NewListing <- MCNewListing
  Messages <- MCMessages
  LastDay = 1
INVARIANTS ViewIsStore OutageIsShown RangeIsHistory
PROPERTIES StatusSettles PricesSettle ServesInTheEnd
CHECK_DEADLOCK FALSE
