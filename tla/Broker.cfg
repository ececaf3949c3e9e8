SPECIFICATION BothSpec
CONSTANTS
  None = None
  r1 = r1
  r2 = r2
  g1 = g1
  g2 = g2
  c1 = c1
  Reservations = {v1, v2}
  Commitments = {v1, v2}
  Groups = {g1, g2}
  Runs = {r1, r2}
  Connections = {c1}
  GroupOf <- MCGroupOf
  Slots <- MCSlots
  RuntimeBudget <- MCSlots
  RuntimeCompute <- MCSlots
  CurrencyOf <- MCCurrencyOf
  Snapshots <- MCSnapshots
  EstimatedCost = 1
  ComputeUnits = 1
  TaskMaximum = 2
  ReservationTTL = 1
  Cents = {1}
  Fundings = {6}
  SingleLimit = 3
  MonthlyLimit = 3
  MaxTime = 2
  MaxMonth = 0
SYMMETRY Symmetry
INVARIANTS
  ReservationsAreExclusive
  FundsAreReserved
  RouteIsBest
  SpendingIsGoverned
CHECK_DEADLOCK FALSE
