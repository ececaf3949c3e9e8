---------------------------- MODULE ControlPlane ----------------------------
(***************************************************************************)
(* The reference agent control plane of packages/agent-control-plane       *)
(* (InMemoryControlPlane) for one workspace: registry and grants, runtime  *)
(* connections whose status is derived from evidence, tasks and runs, the  *)
(* one-use dispatch and cancellation permits, and the asynchronous calls   *)
(* to a runtime's adapter between whose start and end any other operation  *)
(* may run.                                                                *)
(*                                                                         *)
(* Every public method is an action; p is the authenticated principal of   *)
(* its WorkspaceContext.  A call that throws before it wrote anything is a *)
(* stuttering step, a call that throws after it wrote is an action of its  *)
(* own.  A JavaScript Map is a function whose domain is its key set.       *)
(***************************************************************************)
EXTENDS Integers, FiniteSets

CONSTANTS
    Principals,         \* authenticated callers
    Authorizers,        \* options.authorityPrincipals
    Planners,           \* options.plannerPrincipals
    Credentials,        \* secret references a connection may name
    Runtimes, AgentIds, CapabilityIds, ToolIds, GrantIds,
    ConnectionIds, HeartbeatIds, TaskIds, RunIds, EventIds, EventKeys, UsageIds,
    ExternalIds,        \* external run ids an adapter may answer with
    Kinds,              \* task kinds in use
    CapabilityInputs, ToolInputs, AgentInputs, CapabilityGrantInputs,
    ToolGrantInputs, AuthorityInputs, TaskInputs,   \* <<id, record>> pairs callers submit
    ConnectionInputs, HeartbeatInputs, UsageInputs, \* records they submit
    None,               \* an absent field (undefined)
    HeartbeatFreshness, \* heartbeatFreshnessMs, in clock ticks
    ClockSkew,          \* the 30 s a heartbeat may lie in the future
    MaxTime,            \* bound: the clock stops here
    MaxRegistrations    \* bound: adapter registrations

KindNames == {"business.research", "repository.review", "quality.verify",
              "documentation.prepare", "runtime.health.check"}

HealthCheck == "runtime.health.check"

\* TASK_POLICIES: each kind requires the capability and the tool registered
\* under its own name (the tool with one exact scope) and an authority level.
PolicyLevel == [k \in KindNames |->
    CASE k = "business.research"     -> 1
      [] k = "repository.review"     -> 1
      [] k = "quality.verify"        -> 3
      [] k = "documentation.prepare" -> 2
      [] k = "runtime.health.check"  -> 0]

TaskStatuses == {"READY", "RUNNING", "BLOCKED", "COMPLETED", "FAILED", "CANCELLED"}
RunStatuses  == {"QUEUED", "RUNNING", "PAUSED", "COMPLETED", "FAILED", "CANCELLED"}
ActiveStatuses == {"QUEUED", "RUNNING", "PAUSED"}

TaskTransitions == [s \in TaskStatuses |->
    CASE s = "READY"   -> {"RUNNING", "BLOCKED", "CANCELLED"}
      [] s = "RUNNING" -> {"BLOCKED", "COMPLETED", "FAILED", "CANCELLED"}
      [] s = "BLOCKED" -> {"READY", "CANCELLED"}
      [] OTHER         -> {}]

RunTransitions == [s \in RunStatuses |->
    CASE s = "QUEUED"  -> {"RUNNING", "CANCELLED"}
      [] s = "RUNNING" -> {"PAUSED", "COMPLETED", "FAILED", "CANCELLED"}
      [] s = "PAUSED"  -> {"RUNNING", "CANCELLED"}
      [] OTHER         -> {}]

Times == 0..MaxTime
Limit == [cost : Nat, compute : Nat]

AgentRecord == [runtime : Runtimes, level : Nat, maxRuns : Nat \ {0}]
CapabilityGrant == [agent : AgentIds, capability : CapabilityIds]
\* scoped: the grant's scopes contain the one scope the kind requires
ToolGrant == [agent : AgentIds, tool : ToolIds, scoped : BOOLEAN,
              expiresAt : Times \cup {None}]
AuthorityGrant == [agent : AgentIds, level : Nat, classes : SUBSET Kinds,
                   limit : Limit, maxRuns : Nat \ {0}, expiresAt : Times \cup {None}]
RoundTrip == [task : TaskIds, run : RunIds, event : EventIds]
\* A registration or capability proof is stored only when it is correlated to
\* the connection it is stored in, so its presence is all that is kept.
ConnectionRecord ==
    [runtime : Runtimes, principal : Principals \cup {None}, credential : Credentials \cup {None},
     registered : BOOLEAN, exchanged : {None} \cup SUBSET CapabilityIds,
     heartbeat : HeartbeatIds \cup {None}, roundTrip : RoundTrip \cup {None},
     status : {"CONNECTED", "UNCLAIMED"}]
HeartbeatRecord == [conn : ConnectionIds, principal : Principals, sequence : Nat,
                    healthy : BOOLEAN, observedAt : Times]
TaskInput == [agent : AgentIds, kind : Kinds, capability : CapabilityIds,
              tool : ToolIds, target : ConnectionIds, limit : Limit]
TaskRecord == [agent : AgentIds, kind : Kinds, capability : CapabilityIds,
               tool : ToolIds, target : ConnectionIds, limit : Limit,
               status : TaskStatuses]
Registrations == 1..MaxRegistrations
RunRecord == [task : TaskIds, agent : AgentIds, conn : ConnectionIds,
              status : RunStatuses, ext : ExternalIds \cup {None},
              reg : Registrations \cup {None}]
EventRecord == [run : RunIds \cup {None}, actor : Principals, completed : BOOLEAN,
                key : EventKeys]
DispatchPermit == [run : RunIds, conn : ConnectionIds, reg : Registrations,
                   principal : Principals, tool : ToolIds]
CancellationPermit == [run : RunIds, conn : ConnectionIds, reg : Registrations,
                       principal : Principals, ext : ExternalIds]
AdapterCall == [run : RunIds, principal : Principals, reg : Registrations]

ASSUME PrincipalAssumption ==
    /\ Authorizers \subseteq Principals
    /\ Planners \subseteq Principals
ASSUME KindAssumption == Kinds \subseteq KindNames
ASSUME BoundAssumption ==
    /\ MaxTime \in Nat
    /\ MaxRegistrations \in Nat
    /\ HeartbeatFreshness \in Nat
    /\ ClockSkew \in Nat
ASSUME InputAssumption ==
    /\ CapabilityInputs \subseteq CapabilityIds \X (Kinds \cup {None})
    /\ ToolInputs \subseteq ToolIds \X (Kinds \cup {None})
    /\ AgentInputs \subseteq AgentIds \X AgentRecord
    /\ CapabilityGrantInputs \subseteq GrantIds \X CapabilityGrant
    /\ ToolGrantInputs \subseteq GrantIds \X ToolGrant
    /\ AuthorityInputs \subseteq GrantIds \X AuthorityGrant
    /\ ConnectionInputs \subseteq ConnectionRecord
    /\ HeartbeatInputs \subseteq HeartbeatRecord
    /\ TaskInputs \subseteq TaskIds \X TaskInput
    /\ UsageInputs \subseteq Limit
ASSUME NoneAssumption ==
    /\ None \notin Principals
    /\ None \notin Credentials
    /\ None \notin ExternalIds
    /\ None \notin HeartbeatIds
    /\ None \notin Registrations
    /\ None \notin Times
    /\ None \notin RoundTrip
    /\ \A s \in SUBSET CapabilityIds : None # s
    /\ None \notin RunIds
    /\ None \notin TaskStatuses

VARIABLES
    runtimes,             \* #runtimes
    adapters,             \* #runtimeAdapters: runtime -> registration id
    registrations,        \* registration ids issued so far (randomUUID)
    agents, capabilities, agentCapabilities, tools, toolGrants, authorityGrants,
    connections, heartbeats,
    tasks, runs,
    events,               \* #eventsById with #eventIdempotency
    usageIds, spent,      \* #usage: record ids, and each task's sums
    dispatches,           \* #dispatches: outstanding dispatch permits
    cancellations,        \* #cancellations: outstanding cancellation permits
    dispatchedRuns, claimedDispatchRuns,
    inFlightDispatchAdapters,  \* run -> registration of its start call
    cancelledRuns, successfulCancellations,
    startCalls, cancelCalls,   \* adapter.start / adapter.cancel awaited
    starts,               \* history: adapter.start calls made for each run
    now                   \* #clock

registryVars == <<runtimes, agents, capabilities, agentCapabilities, tools,
                  toolGrants, authorityGrants>>
adapterVars  == <<adapters, registrations>>
evidenceVars == <<connections, heartbeats, events>>
workVars     == <<tasks, runs>>
usageVars    == <<usageIds, spent>>
dispatchVars == <<dispatches, dispatchedRuns, claimedDispatchRuns,
                  inFlightDispatchAdapters, startCalls, starts>>
cancelVars   == <<cancellations, cancelledRuns, successfulCancellations, cancelCalls>>
vars == <<registryVars, adapterVars, evidenceVars, workVars, usageVars,
          dispatchVars, cancelVars, now>>

EmptyMap == [x \in {} |-> x]
\* Map.prototype.set
Put(map, k, v) == [x \in DOMAIN map \cup {k} |-> IF x = k THEN v ELSE map[x]]

-----------------------------------------------------------------------------
(* Derived facts *)

IsActive(r) == runs[r].status \in ActiveStatuses
ActiveRunsOf(t) == {r \in DOMAIN runs : runs[r].task = t /\ IsActive(r)}
ActiveRunsOfAgent(a) == {r \in DOMAIN runs : runs[r].agent = a /\ IsActive(r)}

IsExpired(at) == at # None /\ at <= now

\* #deriveTaskRequirements.findUnique: the ids registered under a kind's name
Named(records, kind) == {id \in DOMAIN records : records[id] = kind}

RequirementsMatch(t) ==
    /\ Named(capabilities, t.kind) = {t.capability}
    /\ Named(tools, t.kind) = {t.tool}

HoldsCapability(t) == \E g \in DOMAIN agentCapabilities :
    agentCapabilities[g] = [agent |-> t.agent, capability |-> t.capability]

HoldsTool(t) == \E g \in DOMAIN toolGrants :
    /\ toolGrants[g].agent = t.agent
    /\ toolGrants[g].tool = t.tool
    /\ toolGrants[g].scoped
    /\ ~IsExpired(toolGrants[g].expiresAt)

ApplicableGrants(t) == {g \in DOMAIN authorityGrants :
    LET grant == authorityGrants[g] IN
    /\ grant.agent = t.agent
    /\ grant.level >= PolicyLevel[t.kind]
    /\ t.kind \in grant.classes
    /\ ~IsExpired(grant.expiresAt)
    /\ grant.limit.cost >= t.limit.cost
    /\ grant.limit.compute >= t.limit.compute}

\* #requireApplicableAuthorityGrant takes the least sufficient level; among
\* equal levels the Map's insertion order decides, which is left open here.
SelectedGrants(t) == {g \in ApplicableGrants(t) :
    \A h \in ApplicableGrants(t) : authorityGrants[g].level <= authorityGrants[h].level}

\* #validateCurrentTaskPolicy (without the grant it returns)
TaskPolicyHolds(t) ==
    /\ t.agent \in DOMAIN agents
    /\ RequirementsMatch(t)
    /\ PolicyLevel[t.kind] <= agents[t.agent].level
    /\ HoldsCapability(t)
    /\ HoldsTool(t)

\* the agent's and the selected grant's concurrency limit
RunsAllowed(t, g) == IF agents[t.agent].maxRuns <= authorityGrants[g].maxRuns
                     THEN agents[t.agent].maxRuns ELSE authorityGrants[g].maxRuns

HeartbeatIsFresh(h) ==
    /\ heartbeats[h].healthy
    /\ now - heartbeats[h].observedAt >= 0 - ClockSkew
    /\ now - heartbeats[h].observedAt <= HeartbeatFreshness

\* the references of a round-trip proof stored in connection c (record cn)
RoundTripCorrelates(c, cn) ==
    LET proof == cn.roundTrip IN
    /\ proof.task \in DOMAIN tasks
    /\ proof.run \in DOMAIN runs
    /\ proof.event \in DOMAIN events
    /\ runs[proof.run].agent \in DOMAIN agents
    /\ runs[proof.run].task = proof.task
    /\ runs[proof.run].conn = c
    /\ tasks[proof.task].agent = runs[proof.run].agent
    /\ agents[runs[proof.run].agent].runtime = cn.runtime
    /\ events[proof.event].run = proof.run
    /\ events[proof.event].completed
    /\ events[proof.event].actor = cn.principal

\* mutant: any reported run proves the round trip, completed or not
RoundTripProvenByReport(c, cn) == RoundTripCorrelates(c, cn)

RoundTripProven(c, cn) ==
    /\ RoundTripCorrelates(c, cn)
    /\ runs[cn.roundTrip.run].status = "COMPLETED"

BootstrapProofs(cn) == cn.registered /\ cn.exchanged # None /\ cn.heartbeat # None
AllProofs(cn) == BootstrapProofs(cn) /\ cn.roundTrip # None
NoProof(cn) == ~cn.registered /\ cn.exchanged = None /\ cn.heartbeat = None /\ cn.roundTrip = None

deriveConnectionStatus(c, cn) ==
    IF cn.credential = None \/ cn.principal = None THEN "NOT_CONFIGURED"
    ELSE IF NoProof(cn) THEN "DISCONNECTED"
    ELSE IF ~AllProofs(cn) \/ heartbeats[cn.heartbeat].conn # c THEN "PARTIAL"
    ELSE IF ~HeartbeatIsFresh(cn.heartbeat) THEN "DEGRADED"
    ELSE IF RoundTripProven(c, cn) THEN "CONNECTED"
    ELSE "PARTIAL"

StatusOf(c) == deriveConnectionStatus(c, connections[c])

IsAuthorizer(p) == p \in Authorizers
\* #assertConnectionOperator, and the same test inlined in startRun,
\* transitionRun and recordUsage
OperatesConnection(p, c) == p \in Authorizers \/ p = connections[c].principal

\* #assertTaskOperator
OperatesTask(p, t) ==
    \/ p \in Authorizers
    \/ /\ tasks[t].agent \in DOMAIN agents
       /\ \E c \in DOMAIN connections :
            /\ connections[c].runtime = agents[tasks[t].agent].runtime
            /\ connections[c].principal = p
            /\ StatusOf(c) = "CONNECTED"

\* #assertConnectionCanRunTask
ConnectionCanRun(c, t) ==
    /\ \/ StatusOf(c) = "CONNECTED"
       \/ /\ t.kind = HealthCheck
          /\ StatusOf(c) = "PARTIAL"
          /\ BootstrapProofs(connections[c])
    /\ t.capability \in connections[c].exchanged

\* #assertRemainingTaskBudget
BudgetRemains(t) ==
    /\ spent[t].cost < tasks[t].limit.cost
    /\ spent[t].compute < tasks[t].limit.compute

-----------------------------------------------------------------------------
(* Registry and grants: authorizers only *)

OutsideRegistryUnchanged == UNCHANGED <<adapterVars, evidenceVars, workVars,
                                        usageVars, dispatchVars, cancelVars, now>>

putRuntime(p, rt) ==
    /\ IsAuthorizer(p)
    /\ runtimes' = runtimes \cup {rt}
    /\ UNCHANGED <<agents, capabilities, agentCapabilities, tools, toolGrants,
                   authorityGrants>>
    /\ OutsideRegistryUnchanged

\* mutant: a start call still in flight does not pin its adapter
AdapterIsPinnedByRunsOnly(rt) ==
    \E r \in DOMAIN runs : /\ runs[r].reg = adapters[rt]
                           /\ IsActive(r)
                           /\ connections[runs[r].conn].runtime = rt

\* A start in flight, or an active run bound through it, pins an adapter.
AdapterIsPinned(rt) ==
    \/ \E r \in DOMAIN inFlightDispatchAdapters :
           inFlightDispatchAdapters[r] = adapters[rt]
    \/ \E r \in DOMAIN runs :
           /\ runs[r].reg = adapters[rt]
           /\ IsActive(r)
           /\ connections[runs[r].conn].runtime = rt

registerRuntimeAdapter(p, rt) ==
    /\ IsAuthorizer(p)
    /\ rt \in runtimes
    /\ rt \in DOMAIN adapters => ~AdapterIsPinned(rt)
    /\ registrations < MaxRegistrations
    /\ registrations' = registrations + 1
    /\ adapters' = Put(adapters, rt, registrations')
    /\ UNCHANGED <<registryVars, evidenceVars, workVars, usageVars, dispatchVars,
                   cancelVars, now>>

\* Capabilities and tools matter only by the task-kind policy their name
\* resolves; putting an id again renames it.
putCapability(p, id, name) ==
    /\ IsAuthorizer(p)
    /\ capabilities' = Put(capabilities, id, name)
    /\ UNCHANGED <<runtimes, agents, agentCapabilities, tools, toolGrants, authorityGrants>>
    /\ OutsideRegistryUnchanged

putTool(p, id, name) ==
    /\ IsAuthorizer(p)
    /\ tools' = Put(tools, id, name)
    /\ UNCHANGED <<runtimes, agents, capabilities, agentCapabilities, toolGrants,
                   authorityGrants>>
    /\ OutsideRegistryUnchanged

putAgent(p, a, agent) ==
    /\ IsAuthorizer(p)
    /\ agent.runtime \in runtimes
    /\ agents' = Put(agents, a, agent)
    /\ UNCHANGED <<runtimes, capabilities, agentCapabilities, tools, toolGrants,
                   authorityGrants>>
    /\ OutsideRegistryUnchanged

grantAgentCapability(p, g, grant) ==
    /\ IsAuthorizer(p)
    /\ grant.agent \in DOMAIN agents
    /\ grant.capability \in DOMAIN capabilities
    /\ agentCapabilities' = Put(agentCapabilities, g, grant)
    /\ UNCHANGED <<runtimes, agents, capabilities, tools, toolGrants,
                   authorityGrants>>
    /\ OutsideRegistryUnchanged

grantTool(p, g, grant) ==
    /\ IsAuthorizer(p)
    /\ grant.agent \in DOMAIN agents
    /\ grant.tool \in DOMAIN tools
    /\ toolGrants' = Put(toolGrants, g, grant)
    /\ UNCHANGED <<runtimes, agents, capabilities, agentCapabilities, tools,
                   authorityGrants>>
    /\ OutsideRegistryUnchanged

grantAuthority(p, g, grant) ==
    /\ IsAuthorizer(p)
    /\ grant.agent \in DOMAIN agents
    /\ grant.level <= agents[grant.agent].level
    /\ authorityGrants' = Put(authorityGrants, g, grant)
    /\ UNCHANGED <<runtimes, agents, capabilities, agentCapabilities, tools,
                   toolGrants>>
    /\ OutsideRegistryUnchanged

-----------------------------------------------------------------------------
(* Connections and their evidence *)

SameIdentity(cn, previous) ==
    /\ cn.runtime = previous.runtime
    /\ cn.principal = previous.principal
    /\ cn.credential = previous.credential

\* Provisioning and identity rotation are an authorizer's; the bound runtime
\* may update only its evidence; no rotation under an active run.
MayPutConnection(p, c, cn) ==
    IF c \notin DOMAIN connections THEN IsAuthorizer(p)
    ELSE /\ \/ IsAuthorizer(p)
            \/ p = connections[c].principal /\ SameIdentity(cn, connections[c])
         /\ \/ SameIdentity(cn, connections[c])
            \/ \A r \in DOMAIN runs : runs[r].conn = c => ~IsActive(r)

\* #validateConnectionProofs
ProofsAreCorrelated(c, cn) ==
    /\ cn.credential # None \/ ~NoProof(cn) => cn.principal # None
    /\ cn.exchanged # None => cn.exchanged \subseteq DOMAIN capabilities
    /\ cn.heartbeat # None => /\ cn.heartbeat \in DOMAIN heartbeats
                              /\ heartbeats[cn.heartbeat].conn = c
                              /\ heartbeats[cn.heartbeat].principal = cn.principal
    /\ cn.roundTrip # None => RoundTripCorrelates(c, cn)

putConnection(p, c, cn) ==
    /\ MayPutConnection(p, c, cn)
    /\ cn.runtime \in runtimes
    /\ ProofsAreCorrelated(c, cn)
    /\ cn.status = "CONNECTED" => deriveConnectionStatus(c, cn) = "CONNECTED"
    /\ connections' = Put(connections, c, cn)
    /\ UNCHANGED <<registryVars, adapterVars, heartbeats, events, workVars, usageVars,
                   dispatchVars, cancelVars, now>>

recordHeartbeat(p, h, beat) ==
    /\ beat.conn \in DOMAIN connections
    /\ beat.principal = connections[beat.conn].principal
    /\ p = beat.principal
    /\ \A g \in DOMAIN heartbeats :
          heartbeats[g].conn = beat.conn => heartbeats[g].sequence < beat.sequence
    /\ h \notin DOMAIN heartbeats
    /\ heartbeats' = Put(heartbeats, h, beat)
    /\ UNCHANGED <<registryVars, adapterVars, connections, events, workVars, usageVars,
                   dispatchVars, cancelVars, now>>

\* A run event is appended by the principal of the run's connection; an event
\* about no run by any principal.
appendEvent(p, e, event) ==
    /\ p = event.actor
    /\ e \notin DOMAIN events
    /\ \A f \in DOMAIN events : events[f].key # event.key
    /\ event.run # None => /\ event.run \in DOMAIN runs
                           /\ p = connections[runs[event.run].conn].principal
    /\ events' = Put(events, e, event)
    /\ UNCHANGED <<registryVars, adapterVars, connections, heartbeats, workVars,
                   usageVars, dispatchVars, cancelVars, now>>

-----------------------------------------------------------------------------
(* Tasks and runs *)

createTask(p, t, input) ==
    /\ p \in Authorizers \cup Planners
    /\ TaskPolicyHolds(input)
    /\ ApplicableGrants(input) # {}
    /\ input.kind = HealthCheck => input.target \in DOMAIN connections
    /\ t \notin DOMAIN tasks
    /\ tasks' = Put(tasks, t, [agent |-> input.agent, kind |-> input.kind,
                               capability |-> input.capability, tool |-> input.tool,
                               target |-> input.target, limit |-> input.limit,
                               status |-> "READY"])
    /\ spent' = Put(spent, t, [cost |-> 0, compute |-> 0])
    /\ UNCHANGED <<registryVars, adapterVars, evidenceVars, runs, usageIds,
                   dispatchVars, cancelVars, now>>

transitionTask(p, t, next) ==
    /\ t \in DOMAIN tasks
    /\ OperatesTask(p, t)
    /\ next \notin {"RUNNING", "COMPLETED"}
    /\ ActiveRunsOf(t) = {}
    /\ next \in TaskTransitions[tasks[t].status]
    /\ tasks' = [tasks EXCEPT ![t].status = next]
    /\ UNCHANGED <<registryVars, adapterVars, evidenceVars, runs, usageVars,
                   dispatchVars, cancelVars, now>>

startRun(p, r, t, c) ==
    /\ t \in DOMAIN tasks
    /\ TaskPolicyHolds(tasks[t])
    /\ c \in DOMAIN connections
    /\ OperatesConnection(p, c)
    /\ r \notin DOMAIN runs
    /\ tasks[t].status = "READY"
    /\ connections[c].runtime = agents[tasks[t].agent].runtime
    /\ ConnectionCanRun(c, tasks[t])
    /\ BudgetRemains(t)
    /\ ActiveRunsOf(t) = {}
    /\ \E g \in SelectedGrants(tasks[t]) :
          Cardinality(ActiveRunsOfAgent(tasks[t].agent)) < RunsAllowed(tasks[t], g)
    /\ runs' = Put(runs, r, [task |-> t, agent |-> tasks[t].agent, conn |-> c,
                             status |-> "QUEUED", ext |-> None, reg |-> None])
    /\ UNCHANGED <<registryVars, adapterVars, evidenceVars, tasks, usageVars,
                   dispatchVars, cancelVars, now>>

\* mutant: a cancelled run leaves its task alone
TaskNextWithoutCancel(status, next) ==
    IF status = "QUEUED" /\ next = "RUNNING" THEN "RUNNING"
    ELSE IF next \in {"COMPLETED", "FAILED"} THEN next
    ELSE None

\* The task status a run's transition carries with it, if any.
TaskNext(status, next) ==
    IF status = "QUEUED" /\ next = "RUNNING" THEN "RUNNING"
    ELSE IF next \in {"COMPLETED", "FAILED", "CANCELLED"} THEN next
    ELSE None

\* mutant: minting a cancellation counts as its success
CancellationRequested(r) == runs[r].ext = None \/ r \in cancelledRuns

\* A bound run is cancelled only after its adapter confirmed the cancellation.
CancellationConfirmed(r) == runs[r].ext = None \/ r \in successfulCancellations

DispatchBound(r) == r \in claimedDispatchRuns /\ runs[r].ext # None

transitionRun(p, r, next) ==
    /\ r \in DOMAIN runs
    /\ r \notin DOMAIN inFlightDispatchAdapters
    /\ OperatesConnection(p, runs[r].conn)
    /\ next \in RunTransitions[runs[r].status]
    /\ next = "CANCELLED" => CancellationConfirmed(r)
    /\ runs[r].status = "QUEUED" /\ next = "RUNNING" => DispatchBound(r)
    /\ LET t == runs[r].task
           taskNext == TaskNext(runs[r].status, next)
       IN /\ taskNext # None => taskNext \in TaskTransitions[tasks[t].status]
          /\ tasks' = IF taskNext = None THEN tasks
                      ELSE [tasks EXCEPT ![t].status = taskNext]
    /\ runs' = [runs EXCEPT ![r].status = next]
    /\ UNCHANGED <<registryVars, adapterVars, evidenceVars, usageVars, dispatchVars,
                   cancelVars, now>>

recordUsage(p, u, r, amount) ==
    /\ u \notin usageIds
    /\ r \in DOMAIN runs
    /\ OperatesConnection(p, runs[r].conn)
    /\ LET t == runs[r].task
           total == [cost |-> spent[t].cost + amount.cost,
                     compute |-> spent[t].compute + amount.compute]
       IN /\ total.cost <= tasks[t].limit.cost
          /\ total.compute <= tasks[t].limit.compute
          /\ spent' = [spent EXCEPT ![t] = total]
    /\ usageIds' = usageIds \cup {u}
    /\ UNCHANGED <<registryVars, adapterVars, evidenceVars, workVars, dispatchVars,
                   cancelVars, now>>

-----------------------------------------------------------------------------
(* Dispatch: mint a one-use permit, claim it, call the adapter, bind *)

mintDispatch(p, r) ==
    /\ r \in DOMAIN runs
    /\ runs[r].status = "QUEUED"
    /\ r \notin dispatchedRuns
    /\ LET c == runs[r].conn
           rt == connections[c].runtime
           t == tasks[runs[r].task]
       IN /\ OperatesConnection(p, c)
          /\ rt \in DOMAIN adapters
          /\ Cardinality(Named(capabilities, t.kind)) = 1
          /\ \E tool \in ToolIds :
               /\ Named(tools, t.kind) = {tool}
               /\ dispatches' = dispatches \cup
                    {[run |-> r, conn |-> c, reg |-> adapters[rt],
                      principal |-> connections[c].principal, tool |-> tool]}
    /\ dispatchedRuns' = dispatchedRuns \cup {r}
    /\ UNCHANGED <<registryVars, adapterVars, evidenceVars, workVars, usageVars,
                   claimedDispatchRuns, inFlightDispatchAdapters, startCalls, starts,
                   cancelVars, now>>

\* The connection and adapter generation a permit was minted for are current.
PermitIsCurrent(permit) ==
    LET cn == connections[permit.conn] IN
    /\ runs[permit.run].conn = permit.conn
    /\ cn.runtime \in DOMAIN adapters
    /\ permit.reg = adapters[cn.runtime]
    /\ permit.principal = cn.principal

\* #claimDispatch's revalidation.  Of the envelope only the tool id can have
\* changed since the permit was minted: a task's other fields never change.
DispatchIsValid(d) ==
    LET r == d.run
        t == tasks[runs[d.run].task]
    IN /\ runs[r].status = "QUEUED"
       /\ t.status = "READY"
       /\ PermitIsCurrent(d)
       /\ Named(tools, t.kind) = {d.tool}
       /\ TaskPolicyHolds(t)
       /\ connections[d.conn].runtime = agents[t.agent].runtime
       /\ ConnectionCanRun(d.conn, t)
       /\ BudgetRemains(runs[r].task)
       /\ \E g \in SelectedGrants(t) :
             Cardinality(ActiveRunsOfAgent(t.agent)) <= RunsAllowed(t, g)

\* executeDispatch up to its await: claim the permit and call adapter.start.
executeDispatch(p, d) ==
    /\ d \in dispatches
    /\ p = d.principal
    /\ DispatchIsValid(d)
    /\ dispatches' = dispatches \ {d}
    /\ claimedDispatchRuns' = claimedDispatchRuns \cup {d.run}
    /\ inFlightDispatchAdapters' = Put(inFlightDispatchAdapters, d.run, d.reg)
    /\ startCalls' = startCalls \cup {[run |-> d.run, principal |-> p, reg |-> d.reg]}
    /\ starts' = [starts EXCEPT ![d.run] = @ + 1]
    /\ UNCHANGED <<registryVars, adapterVars, evidenceVars, workVars, usageVars,
                   dispatchedRuns, cancelVars, now>>

\* executeDispatch whose claim fails revalidation: the permit is consumed and
\* the run may be given a fresh one.
executeDispatchStale(p, d) ==
    /\ d \in dispatches
    /\ p = d.principal
    /\ ~DispatchIsValid(d)
    /\ dispatches' = dispatches \ {d}
    /\ dispatchedRuns' = dispatchedRuns \ {d.run}
    /\ UNCHANGED <<registryVars, adapterVars, evidenceVars, workVars, usageVars,
                   claimedDispatchRuns, inFlightDispatchAdapters, startCalls, starts,
                   cancelVars, now>>

\* #bindExternalRun's conditions for the answer of an awaited start call.
MayBind(call, ext) ==
    LET run == runs[call.run]
        rt == connections[run.conn].runtime
    IN /\ call.principal = connections[run.conn].principal
       /\ call.run \in claimedDispatchRuns
       /\ call.run \in DOMAIN inFlightDispatchAdapters
       /\ inFlightDispatchAdapters[call.run] = call.reg
       /\ rt \in DOMAIN adapters
       /\ adapters[rt] = call.reg
       /\ run.status \in ActiveStatuses
       /\ run.ext \in {None, ext}
       /\ \A q \in DOMAIN runs \ {call.run} :
             runs[q].conn = run.conn => runs[q].ext # ext

\* mutant: a start that returns gives the run back for another dispatch
StartReturnsForRetry(call) ==
    /\ startCalls' = startCalls \ {call}
    /\ dispatchedRuns' = dispatchedRuns \ {call.run}
    /\ inFlightDispatchAdapters' =
          [r \in DOMAIN inFlightDispatchAdapters \ {call.run} |-> inFlightDispatchAdapters[r]]
    /\ UNCHANGED <<registryVars, adapterVars, evidenceVars, tasks, usageVars, dispatches,
                   claimedDispatchRuns, starts, cancelVars, now>>

\* The finally clause of executeDispatch.
StartReturns(call) ==
    /\ startCalls' = startCalls \ {call}
    /\ inFlightDispatchAdapters' =
          [r \in DOMAIN inFlightDispatchAdapters \ {call.run} |-> inFlightDispatchAdapters[r]]
    /\ UNCHANGED <<registryVars, adapterVars, evidenceVars, tasks, usageVars, dispatches,
                   dispatchedRuns, claimedDispatchRuns, starts, cancelVars, now>>

startResolves(call, ext) ==
    /\ call \in startCalls
    /\ MayBind(call, ext)
    /\ runs' = [runs EXCEPT ![call.run].ext = ext, ![call.run].reg = call.reg]
    /\ StartReturns(call)

\* adapter.start rejects, or answers with an id #bindExternalRun refuses: the
\* run stays claimed and unbound.
startFails(call) ==
    /\ call \in startCalls
    /\ UNCHANGED runs
    /\ StartReturns(call)

-----------------------------------------------------------------------------
(* Cancellation: mint, claim, call the adapter, record its success *)

mintCancellation(p, r) ==
    /\ r \in DOMAIN runs
    /\ IsActive(r)
    /\ runs[r].ext # None
    /\ runs[r].reg # None
    /\ r \notin cancelledRuns
    /\ LET c == runs[r].conn
           rt == connections[c].runtime
       IN /\ OperatesConnection(p, c)
          /\ rt \in DOMAIN adapters
          /\ adapters[rt] = runs[r].reg
          /\ cancellations' = cancellations \cup
               {[run |-> r, conn |-> c, reg |-> runs[r].reg,
                 principal |-> connections[c].principal, ext |-> runs[r].ext]}
    /\ cancelledRuns' = cancelledRuns \cup {r}
    /\ UNCHANGED <<registryVars, adapterVars, evidenceVars, workVars, usageVars,
                   dispatchVars, successfulCancellations, cancelCalls, now>>

\* #claimCancellation's revalidation
CancellationIsValid(k) ==
    /\ IsActive(k.run)
    /\ runs[k.run].ext = k.ext
    /\ runs[k.run].reg = k.reg
    /\ PermitIsCurrent(k)

executeCancellation(p, k) ==
    /\ k \in cancellations
    /\ p = k.principal
    /\ CancellationIsValid(k)
    /\ cancellations' = cancellations \ {k}
    /\ cancelCalls' = cancelCalls \cup {[run |-> k.run, principal |-> p, reg |-> k.reg]}
    /\ UNCHANGED <<registryVars, adapterVars, evidenceVars, workVars, usageVars,
                   dispatchVars, cancelledRuns, successfulCancellations, now>>

executeCancellationStale(p, k) ==
    /\ k \in cancellations
    /\ p = k.principal
    /\ ~CancellationIsValid(k)
    /\ cancellations' = cancellations \ {k}
    /\ cancelledRuns' = cancelledRuns \ {k.run}
    /\ UNCHANGED <<registryVars, adapterVars, evidenceVars, workVars, usageVars,
                   dispatchVars, successfulCancellations, cancelCalls, now>>

cancelResolves(call) ==
    /\ call \in cancelCalls
    /\ cancelCalls' = cancelCalls \ {call}
    /\ successfulCancellations' = successfulCancellations \cup {call.run}
    /\ UNCHANGED <<registryVars, adapterVars, evidenceVars, workVars, usageVars,
                   dispatchVars, cancellations, cancelledRuns, now>>

\* mutant: a rejected cancellation keeps the run marked as being cancelled
cancelRejectsForGood(call) ==
    /\ call \in cancelCalls
    /\ cancelCalls' = cancelCalls \ {call}
    /\ UNCHANGED <<registryVars, adapterVars, evidenceVars, workVars, usageVars,
                   dispatchVars, cancellations, cancelledRuns, successfulCancellations, now>>

\* An ambiguous failure consumes the permit; a fresh one may be minted.
cancelRejects(call) ==
    /\ call \in cancelCalls
    /\ cancelCalls' = cancelCalls \ {call}
    /\ cancelledRuns' = cancelledRuns \ {call.run}
    /\ UNCHANGED <<registryVars, adapterVars, evidenceVars, workVars, usageVars,
                   dispatchVars, cancellations, successfulCancellations, now>>

tick ==
    /\ now < MaxTime
    /\ now' = now + 1
    /\ UNCHANGED <<registryVars, adapterVars, evidenceVars, workVars, usageVars,
                   dispatchVars, cancelVars>>

-----------------------------------------------------------------------------
Init ==
    /\ runtimes = {}
    /\ adapters = EmptyMap /\ registrations = 0
    /\ agents = EmptyMap /\ capabilities = EmptyMap /\ agentCapabilities = EmptyMap
    /\ tools = EmptyMap /\ toolGrants = EmptyMap /\ authorityGrants = EmptyMap
    /\ connections = EmptyMap /\ heartbeats = EmptyMap /\ events = EmptyMap
    /\ tasks = EmptyMap /\ runs = EmptyMap
    /\ usageIds = {} /\ spent = EmptyMap
    /\ dispatches = {} /\ dispatchedRuns = {} /\ claimedDispatchRuns = {}
    /\ inFlightDispatchAdapters = EmptyMap /\ startCalls = {}
    /\ starts = [r \in RunIds |-> 0]
    /\ cancellations = {} /\ cancelledRuns = {} /\ successfulCancellations = {}
    /\ cancelCalls = {}
    /\ now = 0

RegistryNext(p) ==
    \/ \E rt \in Runtimes : putRuntime(p, rt) \/ registerRuntimeAdapter(p, rt)
    \/ \E i \in CapabilityInputs : putCapability(p, i[1], i[2])
    \/ \E i \in ToolInputs : putTool(p, i[1], i[2])
    \/ \E i \in AgentInputs : putAgent(p, i[1], i[2])
    \/ \E i \in CapabilityGrantInputs : grantAgentCapability(p, i[1], i[2])
    \/ \E i \in ToolGrantInputs : grantTool(p, i[1], i[2])
    \/ \E i \in AuthorityInputs : grantAuthority(p, i[1], i[2])

EvidenceNext(p) ==
    \/ \E c \in ConnectionIds, cn \in ConnectionInputs : putConnection(p, c, cn)
    \/ \E h \in HeartbeatIds, beat \in HeartbeatInputs : recordHeartbeat(p, h, beat)
    \/ \E e \in EventIds, event \in EventRecord : appendEvent(p, e, event)

WorkNext(p) ==
    \/ \E i \in TaskInputs : createTask(p, i[1], i[2])
    \/ \E t \in TaskIds, next \in TaskStatuses : transitionTask(p, t, next)
    \/ \E r \in RunIds, t \in TaskIds, c \in ConnectionIds : startRun(p, r, t, c)
    \/ \E r \in RunIds, next \in RunStatuses : transitionRun(p, r, next)
    \/ \E u \in UsageIds, r \in RunIds, amount \in UsageInputs : recordUsage(p, u, r, amount)

PermitNext(p) ==
    \/ \E r \in RunIds : mintDispatch(p, r) \/ mintCancellation(p, r)
    \/ \E d \in dispatches : executeDispatch(p, d) \/ executeDispatchStale(p, d)
    \/ \E k \in cancellations : executeCancellation(p, k) \/ executeCancellationStale(p, k)

AdapterNext ==
    \/ \E call \in startCalls :
          startFails(call) \/ \E ext \in ExternalIds : startResolves(call, ext)
    \/ \E call \in cancelCalls : cancelResolves(call) \/ cancelRejects(call)

Next ==
    \/ \E p \in Principals :
          RegistryNext(p) \/ EvidenceNext(p) \/ WorkNext(p) \/ PermitNext(p)
    \/ AdapterNext
    \/ tick

Spec == Init /\ [][Next]_vars

-----------------------------------------------------------------------------
(* Properties *)

RegistryTypeOK ==
    /\ runtimes \subseteq Runtimes
    /\ registrations \in 0..MaxRegistrations
    /\ DOMAIN adapters \subseteq Runtimes
    /\ adapters \in [DOMAIN adapters -> 1..registrations]
    /\ agents \in [DOMAIN agents -> AgentRecord]
    /\ DOMAIN capabilities \subseteq CapabilityIds
    /\ capabilities \in [DOMAIN capabilities -> Kinds \cup {None}]
    /\ DOMAIN tools \subseteq ToolIds
    /\ tools \in [DOMAIN tools -> Kinds \cup {None}]
    /\ agentCapabilities \in [DOMAIN agentCapabilities -> CapabilityGrant]
    /\ toolGrants \in [DOMAIN toolGrants -> ToolGrant]
    /\ authorityGrants \in [DOMAIN authorityGrants -> AuthorityGrant]

EvidenceTypeOK ==
    /\ DOMAIN connections \subseteq ConnectionIds
    /\ connections \in [DOMAIN connections -> ConnectionRecord]
    /\ heartbeats \in [DOMAIN heartbeats -> HeartbeatRecord]
    /\ events \in [DOMAIN events -> EventRecord]
    /\ now \in Times

WorkTypeOK ==
    /\ DOMAIN tasks \subseteq TaskIds
    /\ tasks \in [DOMAIN tasks -> TaskRecord]
    /\ spent \in [DOMAIN tasks -> Limit]
    /\ usageIds \subseteq UsageIds
    /\ DOMAIN runs \subseteq RunIds
    /\ runs \in [DOMAIN runs -> RunRecord]
    /\ \A r \in DOMAIN runs : /\ runs[r].task \in DOMAIN tasks
                              /\ runs[r].conn \in DOMAIN connections

PermitTypeOK ==
    /\ dispatches \subseteq DispatchPermit
    /\ cancellations \subseteq CancellationPermit
    /\ startCalls \subseteq AdapterCall
    /\ cancelCalls \subseteq AdapterCall
    /\ \A d \in dispatches : d.run \in DOMAIN runs
    /\ \A k \in cancellations : k.run \in DOMAIN runs
    /\ \A call \in startCalls \cup cancelCalls : call.run \in DOMAIN runs
    /\ dispatchedRuns \cup claimedDispatchRuns \subseteq DOMAIN runs
    /\ cancelledRuns \cup successfulCancellations \subseteq DOMAIN runs
    /\ DOMAIN inFlightDispatchAdapters \subseteq DOMAIN runs
    /\ inFlightDispatchAdapters \in [DOMAIN inFlightDispatchAdapters -> Registrations]
    /\ starts \in [RunIds -> Nat]

\* Every map and set holds records of its kind, and every reference a run, a
\* permit or an adapter call makes resolves.
TypeOK == RegistryTypeOK /\ EvidenceTypeOK /\ WorkTypeOK /\ PermitTypeOK

\* transitionRun moves a run and its task together and transitionTask refuses
\* a task with an active run, so the two never drift apart: a task is RUNNING
\* exactly while one started run carries it, ends exactly as its run ended, and
\* (a cancelled or failed run being final for its task) never gets a second run.
TaskRunAgreement ==
    /\ \A r \in DOMAIN runs :
          tasks[runs[r].task].status =
             CASE runs[r].status = "QUEUED" -> "READY"
               [] runs[r].status \in {"RUNNING", "PAUSED"} -> "RUNNING"
               [] OTHER -> runs[r].status
    /\ \A q, r \in DOMAIN runs : runs[q].task = runs[r].task => q = r
    /\ \A t \in DOMAIN tasks :
          tasks[t].status \in {"RUNNING", "COMPLETED", "FAILED"} =>
             \E r \in DOMAIN runs : runs[r].task = t

\* A dispatch permit is one-use: whatever is minted, found stale and minted
\* again, a runtime is asked at most once to start a run, and a run that ever
\* left QUEUED by running was really started and bound.
StartAtMostOnce ==
    /\ \A r \in RunIds : starts[r] <= 1
    /\ \A r \in DOMAIN runs : runs[r].status \in {"RUNNING", "PAUSED", "COMPLETED", "FAILED"}
          => starts[r] = 1 /\ runs[r].ext # None

\* While adapter.start is awaited nothing takes away what binding its answer
\* needs (the adapter generation, the connection's principal, the run's own
\* activity), so a start that answers with an unused id is never orphaned.
StartedRunIsNeverOrphaned ==
    \A call \in startCalls, ext \in ExternalIds :
        (\A q \in DOMAIN runs :
            runs[q].conn = runs[call.run].conn => runs[q].ext # ext)
        => MayBind(call, ext)

\* A bound run can always be stopped through the adapter that started it: that
\* adapter stays registered while the run is active, an outstanding permit for
\* the run is valid, and a run marked as being cancelled has a permit, a call
\* in flight or a confirmation behind it, so a failed attempt can be retried.
BoundRunStaysCancellable ==
    \A r \in DOMAIN runs : IsActive(r) /\ runs[r].ext # None =>
        /\ connections[runs[r].conn].runtime \in DOMAIN adapters
        /\ adapters[connections[runs[r].conn].runtime] = runs[r].reg
        /\ \A k \in cancellations : k.run = r => CancellationIsValid(k)
        /\ r \in cancelledRuns =>
              \/ \E k \in cancellations : k.run = r
              \/ \E call \in cancelCalls : call.run = r
              \/ r \in successfulCancellations

\* A run recorded as CANCELLED is stopped: its adapter confirmed the
\* cancellation if it was bound, and no start call is pending for it.
CancelledRunIsStopped ==
    \A r \in DOMAIN runs : runs[r].status = "CANCELLED" =>
        /\ runs[r].ext # None => r \in successfulCancellations
        /\ \A call \in startCalls : call.run # r

\* No work other than a health check reaches a connection before a health
\* check completed on that very connection.
BootstrapFirst ==
    \A r \in DOMAIN runs : tasks[runs[r].task].kind # HealthCheck =>
        \E q \in DOMAIN runs : /\ runs[q].conn = runs[r].conn
                               /\ runs[q].status = "COMPLETED"
                               /\ tasks[runs[q].task].kind = HealthCheck

\* A connection stored as CONNECTED rests on a run that its adapter started,
\* that completed on it, and whose result its current principal reported, also
\* after the principal, the agents and the evidence were changed again.
ConnectedIsEarned ==
    \A c \in DOMAIN connections : connections[c].status = "CONNECTED" =>
        LET proof == connections[c].roundTrip IN
        /\ proof # None
        /\ runs[proof.run].conn = c
        /\ runs[proof.run].status = "COMPLETED"
        /\ starts[proof.run] = 1
        /\ events[proof.event].run = proof.run
        /\ events[proof.event].actor = connections[c].principal
=============================================================================
