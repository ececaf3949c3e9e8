SPECIFICATION Spec
CONSTANTS
  None = None
  one = one
  x1 = x1
  x2 = x2
  y1 = y1
  y2 = y2
  Emails = {"f", "g", "h"}
  Registrants = {"f", "g"}
  Upgraded = {"f"}
  Invitations = {1, 2}
  Sessions = {y1, y2}
  Calls = {x1, x2}
  Roles = {"VIEWER"}
  Plans = {1, 2}
  Trial = 1
  Lifetime = 1
  Horizon = 3
  Dispatches = {one}
  Attempts = {y1, y2}
  Owners = {x1, x2}
  SessionEnd = 3
  OutboxTTL = 3
  ClaimTTL = 1
  InsertWithin = 1
  MaxWriteTimeout = 1
  FreshFor = 2
SYMMETRY Symmetry
INVARIANTS
  ReceiptsTellTheStory
  HandoffsAgree
  MembershipHolds
PROPERTIES
  CancellationWins
CHECK_DEADLOCK FALSE
