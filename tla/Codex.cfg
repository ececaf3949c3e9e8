SPECIFICATION Spec
CONSTANTS
  None = None
  one = one
  x1 = x1
  x2 = x2
  y1 = y1
  y2 = y2
  Sessions = {one}
  Runs = {x1, x2}
  Authorizations = {y1, y2}
  Controllers = {one}
  EvidenceAge = 1
  FreshFor = 1
  AuthorizationTTL = 1
  HeartbeatTTL = 2
  DispatchTTL = 2
  HandoffTTL = 2
  SessionEnd = 3
  MaxCalls = 1
  Coordinators = {x1, x2}
  Workers = {one}
  HandoffEnd = 1
  DispatchEnd = 2
  LeaseTTL = 2
  MaxProcesses = 2
  MaxCrashes = 1
  Horizon = 2
SYMMETRY Symmetry
INVARIANTS
  AtMostOneFrame
  OneOutcome
CHECK_DEADLOCK FALSE
