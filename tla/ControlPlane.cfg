SPECIFICATION MCSpec
CONSTANTS
  boss = boss
  bot = bot
  bot2 = bot2
  rt1 = rt1
  a1 = a1
  t1 = t1
  t2 = t2
  r1 = r1
  r2 = r2
  c1 = c1
  c2 = c2
  h1 = h1
  h2 = h2
  cap1 = cap1
  cap2 = cap2
  tool1 = tool1
  tool2 = tool2
  g1 = g1
  g2 = g2
  e1 = e1
  key1 = key1
  u1 = u1
  x1 = x1
  x2 = x2
  cred1 = cred1
  health = health
  research = research
  x3 = x3
  None = None
  Principals = {boss, bot, bot2}
  Authorizers = {boss}
  Planners = {}
  Credentials = {cred1}
  Runtimes = {rt1}
  AgentIds = {a1}
  CapabilityIds = {cap1}
  ToolIds = {tool1}
  GrantIds = {g1}
  ConnectionIds = {c1}
  HeartbeatIds = {h1}
  TaskIds = {t1, t2}
  RunIds = {r1, r2}
  EventIds = {}
  EventKeys = {}
  UsageIds = {u1}
  ExternalIds = {x1, x2}
  Kinds = {"runtime.health.check"}
  CapabilityInputs <- LifecycleCapabilities
  ToolInputs <- LifecycleTools
  CapabilityGrantInputs <- LifecycleCapabilityGrants
  AgentInputs <- LifecycleAgents
  ToolGrantInputs <- LifecycleToolGrants
  AuthorityInputs <- LifecycleAuthority
  ConnectionInputs <- LifecycleConnections
  HeartbeatInputs <- LifecycleHeartbeats
  TaskInputs <- LifecycleTasks
  UsageInputs <- Usage
  HeartbeatFreshness = 0
  ClockSkew = 0
  MaxTime = 1
  MaxRegistrations = 2
SYMMETRY Symmetry
INVARIANTS
  TaskRunAgreement
  StartAtMostOnce
  StartedRunIsNeverOrphaned
  BoundRunStaysCancellable
  CancelledRunIsStopped
  ConnectedIsEarned
CHECK_DEADLOCK FALSE
