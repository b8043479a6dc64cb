CONSTANTS
  Venues = {v1}
  Requests = {r1}
  Handlers = {h1, h2}
  Clients = {c1, c2}
  NoHandlers = NoHandlers
  MaxFailures = 1
SPECIFICATION FairSpec
INVARIANTS HeldIsFed
CHECK_DEADLOCK FALSE
