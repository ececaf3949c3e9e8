INIT Init
NEXT Next
CONSTANTS
  Side = "listener"
  MinFrame = 1
  MaxFrame = 2
  None = None
  signing = signing
  recovery = recovery
  worker = worker
  observation = observation
  lookup1 = lookup1
  lookup2 = lookup2
  authority = authority
  mistaken = mistaken
  c1 = c1
  c2 = c2
  c3 = c3
  c4 = c4
  one = one
  two = two
  x1 = x1
  x2 = x2
  ServiceOwners = {signing, recovery, worker, observation, lookup1, lookup2, authority, mistaken}
  Asked <- MCAsked
  Carrier <- MCCarrier
  Grants <- MCGrants
  Clients = {c1, c2, c3, c4}
  Authorized = {c1, c3}
  Scopes = {one, two, "garbled"}
  Transport <- MCTransport
  MaxSession = 2
  MaxLifetime = 2
  Horizon = 2
  Faults = {"path", "signal", "failure", "close"}
  MaxMoves = 2
INVARIANTS
  NoListenerIsStranded
CHECK_DEADLOCK FALSE
