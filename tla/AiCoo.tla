------------------------------- MODULE AiCoo -------------------------------
(***************************************************************************)
(* The governed AI COO, packages/agent-control-plane/src/ai-coo.ts, on top *)
(* of the agent factory: a planner submits a plan of tasks, asks for their *)
(* assignment to agents and runtimes, records usage, and completes or      *)
(* fails them with evidence; tasks wait for the tasks they depend on.      *)
(*                                                                         *)
(* Every operation changes its maps first and appends events afterwards,   *)
(* one at a time: when the log refuses an event the operation throws there *)
(* and keeps what it did so far.  Cost and compute units follow the same   *)
(* rules and are one number.  One workspace is planned for; other          *)
(* workspaces use other keys.  Choosing a runtime is RuntimeBroker's.      *)
(***************************************************************************)
EXTENDS AgentFactory, Sequences

CONSTANTS
    Plans,         \* plans that may be submitted
    RequestIds,    \* identifiers of assignment requests
    Runtimes,      \* runtimes the broker may select
    Artifacts,     \* artifacts that may be named as evidence
    FailureCodes,
    Amounts,       \* usage reported at a time
    MaxTasks, MaxObjectiveCost, MaxRetries,   \* company ceilings
    Planner        \* the planner's context

VARIABLES
    plans,      \* submitted plans
    tasks,      \* state of every submitted task
    cards,      \* tasks with a Founder decision card
    assigned    \* assignment requests that were consumed

cooVars == <<plans, tasks, cards, assigned>>

companyVars == <<factoryVars, cooVars>>

Elements(s) == {s[i] : i \in DOMAIN s}

TaskIds(p) == {t.id : t \in Elements(p.tasks)}

Definition(p, id) == CHOOSE t \in Elements(p.tasks) : t.id = id

\* A plan is a sequence of tasks, whose costs and ceilings are numbers, as
\* usage is.
ASSUME PlansAssumption ==
    /\ \A p \in Plans : /\ p.tasks \in Seq(Elements(p.tasks))
                        /\ \A t \in Elements(p.tasks) : t.ceilings \in [Ceilings -> Nat] /\ t.cost \in Nat
    /\ None \notin RequestIds /\ Amounts \subseteq Nat /\ MaxRetries \in Nat

SumOf(f, S) ==
    LET sum[T \in SUBSET S] ==
            IF T = {} THEN 0 ELSE LET x == CHOOSE x \in T : TRUE IN f[x] + sum[T \ {x}]
    IN  sum[S]

CooInit ==
    /\ FactoryInit
    /\ plans = {} /\ cards = {} /\ assigned = {}
    /\ tasks = [t \in {} |-> {}]

(***************************************************************************)
(* Plans.                                                                  *)
(***************************************************************************)

\* Kahn's algorithm: tasks whose dependencies are all visited are visited,
\* until there are none; on an acyclic plan that visits every task.
Acyclic(p) ==
    LET visited[n \in 0 .. Len(p.tasks)] ==
            IF n = 0 THEN {}
            ELSE visited[n - 1] \cup
                   {t.id : t \in {u \in Elements(p.tasks) : u.deps \subseteq visited[n - 1]}}
    IN  visited[Len(p.tasks)] = TaskIds(p)

TaskIsValid(p, t) ==
    /\ t.authority >= t.minimum /\ t.authority <= p.authority /\ t.authority <= 4
    /\ t.authority = 4 => t.target # None
    /\ t.attempts \in 1 .. (MaxRetries + 1)
    /\ t.retryable \cap t.stops = {}
    /\ t.deps \subseteq TaskIds(p) \ {t.id}

WithinCompanyLimits(p) ==
    /\ p.cost <= MaxObjectiveCost
    /\ Len(p.tasks) \in 1 .. MaxTasks

ReservationsFit(p) ==
    SumOf([i \in DOMAIN p.tasks |-> p.tasks[i].cost], DOMAIN p.tasks) <= p.cost

ValidPlan(p) ==
    /\ WithinCompanyLimits(p)
    /\ Cardinality(TaskIds(p)) = Len(p.tasks)
    /\ \A t \in Elements(p.tasks) : TaskIsValid(p, t)
    /\ ReservationsFit(p)
    /\ Acyclic(p)

\* Identifiers of objectives, projects and tasks share one name space.
EntityIds(p) == {p.id, p.project} \cup TaskIds(p)

IdsAreNew(p) ==
    /\ Cardinality(EntityIds(p)) = Len(p.tasks) + 2
    /\ EntityIds(p) \cap UNION {EntityIds(q) : q \in plans} = {}

CooEvent(p, t, type, refs, listed) ==
    [ws |-> Planner.ws, source |-> "AI_COO", actor |-> Planner.principal, kind |-> "AGENT",
     id |-> <<type, t, refs>>, refs |-> {p.id, t} \cup refs, listed |-> listed]

\* A dependency counts twice, as a reference and as an entry of the list.
DependencyEvent(p, t, type) == CooEvent(p, t.id, type, t.deps, Cardinality(t.deps))

\* Random identifiers never repeat: a valid event is always taken.
Recordable(e) == validateOperationalEvent(Planner, e)

InitialStatus(t) ==
    CASE t.authority = 4 -> "AWAITING_APPROVAL"
      [] t.authority # 4 /\ t.deps # {} -> "BLOCKED"
      [] OTHER -> "READY"

StatusEvent(status) ==
    [AWAITING_APPROVAL |-> "approval.requested", READY |-> "task.ready",
     BLOCKED |-> "task.blocked"][status]

\* The events of a plan in the order they are emitted: two of its own and
\* two of each task.
PlanEvents(p) ==
    [i \in 1 .. 2 + 2 * Len(p.tasks) |->
        CASE i = 1 -> CooEvent(p, p.id, "objective.created", {}, 0)
          [] i = 2 -> CooEvent(p, p.project, "project.created", {}, 0)
          [] OTHER ->
               LET t == p.tasks[(i - 1) \div 2]
               IN  IF i % 2 = 1 THEN CooEvent(p, t.id, "task.created", {}, 0)
                   ELSE DependencyEvent(p, t, StatusEvent(InitialStatus(t)))]

\* The places of the events that are recorded: all before the first refused.
RecordedOf(events) == {i \in DOMAIN events : \A j \in 1 .. i : Recordable(events[j])}

\* The linkage is registered and the whole plan is stored before any event;
\* a task's card is made after its own events.
createPlan(p) ==
    /\ ValidPlan(p) /\ IdsAreNew(p)
    /\ CanRegisterPlan(Planner, p.id, TaskIds(p))
    /\ registerPlan(Planner, p.id, TaskIds(p))
    /\ plans' = plans \cup {p}
    /\ tasks' = [id \in DOMAIN tasks \cup TaskIds(p) |->
          IF id \in DOMAIN tasks THEN tasks[id]
          ELSE [status |-> InitialStatus(Definition(p, id)), attempts |-> 0, used |-> 0,
                agent |-> None, runtime |-> None]]
    /\ log' = log \cup {PlanEvents(p)[i] : i \in RecordedOf(PlanEvents(p))}
    /\ cards' = cards \cup
         {p.tasks[i].id : i \in {j \in DOMAIN p.tasks :
                                   p.tasks[j].authority = 4 /\ 2 + 2 * j \in RecordedOf(PlanEvents(p))}}
    /\ UNCHANGED <<templates, agents, consumed, assigned>>

(***************************************************************************)
(* Readiness.                                                              *)
(***************************************************************************)

Status(id) == tasks[id].status

\* mutant: a task is ready when its dependencies are over
ReadinessWhenOver(t, states) ==
    IF states[t.id].status \notin {"READY", "BLOCKED"} THEN states[t.id].status
    ELSE IF \A d \in t.deps : states[d].status \in {"COMPLETED", "FAILED", "STOPPED"}
         THEN "READY" ELSE "BLOCKED"

\* What #refreshTaskReadiness makes of a status, in the given task states.
Readiness(t, states) ==
    IF states[t.id].status \notin {"READY", "BLOCKED"} THEN states[t.id].status
    ELSE IF \A d \in t.deps : states[d].status = "COMPLETED" THEN "READY" ELSE "BLOCKED"

ReadinessEvents(p, t, states) ==
    IF Readiness(t, states) = states[t.id].status THEN <<>>
    ELSE <<DependencyEvent(p, t, StatusEvent(Readiness(t, states)))>>

Refreshed(t, states) == [states EXCEPT ![t.id].status = Readiness(t, states)]

(***************************************************************************)
(* Assignment.                                                             *)
(***************************************************************************)

\* A request must repeat the policy of the task word for word: its
\* identifier is all it chooses.
FactoryRequest(p, t, id) ==
    [ws |-> Planner.ws, id |-> id, parent |-> t.parent, template |-> t.template,
     version |-> t.version, objective |-> p.id, task |-> t.id, grants |-> t.grants,
     ceilings |-> [t.ceilings EXCEPT !["authority"] = t.authority, !["budget"] = t.cost,
                                     !["retry"] = t.attempts - 1],
     retention |-> t.retention]

\* A request that is refused, or whose first event is, has still refreshed
\* the task.
refusedAssignment(p, t) ==
    /\ p \in plans /\ t \in Elements(p.tasks)
    /\ LET events == ReadinessEvents(p, t, tasks)
       IN  /\ log' = log \cup {events[i] : i \in RecordedOf(events)}
           /\ tasks' = Refreshed(t, tasks)
    /\ UNCHANGED <<templates, objectives, links, agents, consumed, plans, cards, assigned>>

IsAssignable(t, states) == t.authority # 4 /\ states[t.id].status = "READY"

requestAssignment(p, t, id, runtime) ==
    LET r == FactoryRequest(p, t, id)
        fresh == Refreshed(t, tasks)
        events == ReadinessEvents(p, t, tasks)
        event == CooEvent(p, t.id, "task.assigned",
                          {id, runtime}, 0)
    IN  /\ p \in plans /\ t \in Elements(p.tasks)
        /\ id \notin assigned
        /\ RecordedOf(events) = DOMAIN events
        /\ IsAssignable(t, fresh)
        /\ CanInstantiate(Planner, r)
        /\ instantiate(r)
        /\ tasks' = [fresh EXCEPT ![t.id].status = "ASSIGNED", ![t.id].attempts = @ + 1,
                                  ![t.id].agent = id, ![t.id].runtime = runtime]
        /\ assigned' = assigned \cup {id}
        /\ log' = log \cup Elements(events) \cup {FactoryEvent(Planner, r, "created")}
                      \cup {e \in {event} : Recordable(e)}
        /\ UNCHANGED <<templates, objectives, links, plans, cards>>

(***************************************************************************)
(* Usage, completion and failure of an assigned task.                      *)
(***************************************************************************)

UsedBy(p) == SumOf([id \in TaskIds(p) |-> tasks[id].used], TaskIds(p))

\* mutant: a retry starts with a fresh allowance
WithinAttempt(p, t, n) == n <= t.cost

WithinCost(p, t, n) ==
    /\ tasks[t.id].used + n <= t.cost
    /\ UsedBy(p) + n <= p.cost

recordUsage(p, t, n) ==
    /\ p \in plans /\ t \in Elements(p.tasks)
    /\ Status(t.id) = "ASSIGNED"
    /\ WithinCost(p, t, n)
    /\ tasks' = [tasks EXCEPT ![t.id].used = @ + n]
    /\ log' = log \cup {e \in {CooEvent(p, t.id, "usage.recorded", {}, 0)} : Recordable(e)}
    /\ UNCHANGED <<templates, objectives, links, agents, consumed, plans, cards, assigned>>

\* The dependents are refreshed in their order in the plan; an event that is
\* refused ends the call after its task was changed.
RefreshAll(p, states) ==
    LET Change(i) == ReadinessEvents(p, p.tasks[i], states)
        Stops(i) == Change(i) # <<>> /\ ~Recordable(Change(i)[1])
        done == {i \in DOMAIN p.tasks : \A j \in 1 .. (i - 1) : ~Stops(j)}
    IN  [states |-> [id \in DOMAIN states |->
            IF \E i \in done : p.tasks[i].id = id THEN Readiness(Definition(p, id), states)
            ELSE states[id].status],
         events |-> {e \in UNION {Elements(Change(i)) : i \in done} : Recordable(e)}]

\* The evidence names the run of the assignment, which the agent stands for,
\* and one artifact of it for every criterion; the verifier knows them.
completeTask(p, t, run, artifact) ==
    LET done == [tasks EXCEPT ![t.id].status = "COMPLETED"]
        event == CooEvent(p, t.id, "task.completed", {artifact}, 1)
        after == RefreshAll(p, done)
    IN  /\ p \in plans /\ t \in Elements(p.tasks)
        /\ Status(t.id) = "ASSIGNED"
        /\ run = tasks[t.id].agent
        /\ IF Recordable(event)
           THEN /\ tasks' = [id \in DOMAIN done |->
                               [done[id] EXCEPT !.status = after.states[id]]]
                /\ log' = log \cup {event} \cup after.events
           ELSE /\ tasks' = done
                /\ UNCHANGED log
        /\ UNCHANGED <<templates, objectives, links, agents, consumed, plans, cards, assigned>>

MayRetry(t, code) ==
    /\ code \in t.retryable \ t.stops
    /\ tasks[t.id].attempts < t.attempts

\* The agent of the attempt is let go of, but it stays active in the factory.
recordFailure(p, t, code) ==
    /\ p \in plans /\ t \in Elements(p.tasks)
    /\ Status(t.id) = "ASSIGNED"
    /\ LET next == IF code \in t.stops THEN "STOPPED"
                   ELSE IF MayRetry(t, code) THEN "READY" ELSE "FAILED"
       IN  /\ tasks' = [tasks EXCEPT ![t.id].status = next,
                                     ![t.id].agent = None, ![t.id].runtime = None]
           /\ log' = log \cup {e \in {CooEvent(p, t.id, next, {}, 0)} : Recordable(e)}
    /\ UNCHANGED <<templates, objectives, links, agents, consumed, plans, cards, assigned>>

PlannerNext ==
    \/ \E p \in Plans : createPlan(p)
    \/ \E p \in plans : \E t \in Elements(p.tasks) :
        \/ refusedAssignment(p, t)
        \/ \E id \in RequestIds, runtime \in Runtimes : requestAssignment(p, t, id, runtime)
        \/ \E n \in Amounts : recordUsage(p, t, n)
        \/ \E run \in RequestIds, a \in Artifacts : completeTask(p, t, run, a)
        \/ \E code \in FailureCodes : recordFailure(p, t, code)

CooNext == PlannerNext \/ (FactoryNext /\ UNCHANGED cooVars)

CooSpec == CooInit /\ [][CooNext]_companyVars

-----------------------------------------------------------------------------
(***************************************************************************)
(* Properties.                                                             *)
(***************************************************************************)

Defined == UNION {{<<p, t>> : t \in Elements(p.tasks)} : p \in plans}

\* Every variable keeps its type, and every planned task is linked to its own
\* objective in the factory, once.
CooTypes ==
    /\ plans \subseteq Plans
    /\ DOMAIN tasks = UNION {TaskIds(p) : p \in plans}
    /\ \A id \in DOMAIN tasks :
        /\ Status(id) \in {"AWAITING_APPROVAL", "BLOCKED", "READY", "ASSIGNED",
                           "COMPLETED", "FAILED", "STOPPED"}
        /\ tasks[id].agent \in RequestIds \cup {None}
        /\ tasks[id].runtime \in Runtimes \cup {None}
    /\ \A d \in Defined : {l[3] : l \in {k \in links : k[2] = d[2].id /\ k[1] = Planner.ws}} = {d[1].id}

\* No task is worked on, or done, before everything it depends on is
\* complete, however retries, refusals and failures interleave
\* (ai-coo.ts:1198).
TasksWaitForOthers ==
    \A d \in Defined : Status(d[2].id) \in {"READY", "ASSIGNED", "COMPLETED", "FAILED", "STOPPED"} =>
        \A x \in d[2].deps : Status(x) = "COMPLETED"

\* A task that needs the Founder never gets past waiting for a decision, and
\* nothing that depends on it ever starts (ai-coo.ts:535).
FounderTasksWait ==
    \A d \in Defined : d[2].authority = 4 =>
        /\ Status(d[2].id) = "AWAITING_APPROVAL"
        /\ tasks[d[2].id].agent = None
        /\ \A e \in Defined : d[2].id \in e[2].deps => Status(e[2].id) \in {"BLOCKED", "AWAITING_APPROVAL"}

\* Every attempt has an agent of its own: an assigned task's agent was made
\* for that task, no other task has it, and evidence of an earlier attempt
\* names another run (ai-coo.ts:604).
AttemptsHaveTheirOwnAgents ==
    \A d \in Defined : LET id == d[2].id IN
        Status(id) = "ASSIGNED" =>
            /\ <<Planner.ws, tasks[id].agent>> \in consumed /\ tasks[id].agent \in assigned
            /\ \A a \in AgentsOf(Planner.ws) :
                 a.request.id = tasks[id].agent => a.request.task = id
            /\ \A x \in DOMAIN tasks : x # id => tasks[x].agent # tasks[id].agent

\* No task is worked on before everything it depends on is complete, every
\* attempt has an agent of its own, and a task that needs the Founder never
\* gets past waiting for a decision, however retries, refusals and failures
\* interleave (ai-coo.ts requestAssignment, completeTask, recordFailure).
DependenciesComeFirst ==
    CooTypes /\ TasksWaitForOthers /\ FounderTasksWait /\ AttemptsHaveTheirOwnAgents

\* What was spent on a task, and its attempts, stay within its policy.
TasksKeepToPolicy ==
    \A d \in Defined : /\ tasks[d[2].id].used <= d[2].cost
                       /\ tasks[d[2].id].attempts <= d[2].attempts

\* What is spent on a task and on its objective stays within their limits over
\* all attempts together, no task has more attempts than its policy allows,
\* and every attempt used up an assignment request of its own (ai-coo.ts
\* recordUsage, recordFailure).
SpendingHolds ==
    /\ TasksKeepToPolicy
    /\ \A p \in plans : UsedBy(p) <= p.cost
    /\ Cardinality(assigned) = SumOf([id \in DOMAIN tasks |-> tasks[id].attempts], DOMAIN tasks)
=============================================================================
