CONSTANTS
  v1 = v1
  v2 = v2
  s1 = s1
  s2 = s2
  Venues = {v1, v2}
  Strikes = {s1, s2}
  Contracts <- TwoContracts
  Listeners = {l1}
  MaxPending = 2
  MaxUpdates <- Updates
  SlowFetch = {FALSE, TRUE}
SPECIFICATION FairSpec
INVARIANTS MirrorsAgree NothingLost
PROPERTIES QuotesNeverGoBack EventuallyShown
CHECK_DEADLOCK FALSE
