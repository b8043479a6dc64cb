CONSTANTS
  Venues = {v1, v2}
  Requests = {r1, r2}
  Handlers = {h1, h2}
  Clients = {c1, c2, c3}
  NoHandlers = NoHandlers
  MaxFailures = 0
SPECIFICATION Spec
INVARIANTS AdapterAgrees HeldIsFed
PROPERTIES SharedFeedSpec
CHECK_DEADLOCK FALSE
