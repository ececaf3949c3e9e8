SPECIFICATION Spec
CONSTANTS
  None = None
  Requests = {q1, q2}
  Bindings = {b1, b2}
  Requesters = {"coo"}
  Users = {u1}
  Executors = {e1, e2}
  RequestKeys = {rk1, rk2}
  DecisionKeys = {dk1, dk2, dk3}
  IssueKeys = {ik1, ik2}
  ClaimKeys = {ck1, ck2}
  MaxValidity = 2
  MaxTime = 2
SYMMETRY Symmetry
INVARIANTS
  ClaimIsAuthorised
PROPERTIES
  ImplementsSingleUsePermit
CHECK_DEADLOCK FALSE
