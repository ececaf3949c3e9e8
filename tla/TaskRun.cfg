SPECIFICATION Spec
CONSTANTS
  c1 = c1
  c2 = c2
  x1 = x1
  x2 = x2
  x3 = x3
  t1 = t1
  t2 = t2
  t3 = t3
  r1 = r1
  r2 = r2
  r3 = r3
  r4 = r4
  crit1 = crit1
  crit2 = crit2
  retry = retry
  stop = stop
  fatal = fatal
  o1 = o1
  o2 = o2
  None = None
  Callers = {c1, c2}
  ObjectiveIds = {o1, o2}
  TaskIds = {t1, t2, t3}
  RunIds = {r1, r2, r3}
  ArtifactIds = {x1, x2, x3}
  Assignees = {"a1"}
  Criteria = {crit1, crit2}
  Codes = {retry, stop}
  Keys <- AllKeys
  PlanInputs <- AllPlans
  AssignKeys <- Assigning
  ArtifactKeys <- Recording
  StartKeys <- Starting
  FailKeys <- Ending
  CompleteKeys <- Ending
SYMMETRY Symmetry
INVARIANTS
  OneLiveRun
  CompletionIsEvidenced
  BlockedByDependencies
PROPERTIES
  NoStaleWrite
CHECK_DEADLOCK FALSE
