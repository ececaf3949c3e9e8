------------------------------ MODULE TaskRun ------------------------------
(***************************************************************************)
(* The durable task/run spine of apps/api (AcpTaskRunService over the      *)
(* acp_objectives, acp_tasks, acp_runs and acp_artifacts tables) with the  *)
(* plan policy of packages/agent-control-plane (task-run-policy.ts), for   *)
(* one workspace.                                                          *)
(*                                                                         *)
(* Every method is one serializable database transaction, so one action.   *)
(* A call that throws or that replays an earlier one writes nothing and is *)
(* a stuttering step.  Between the moment a caller reads a run and the     *)
(* moment its call executes, other callers may have moved the run: a call  *)
(* carries the version its caller saw (views).                             *)
(***************************************************************************)
EXTENDS Integers, FiniteSetsExt

CONSTANTS
    Callers,        \* trusted CONTROL_PLANE principals
    ObjectiveIds, TaskIds, RunIds, ArtifactIds,
    Assignees,      \* verified agent/runtime/connection triples with their evidence
    Criteria,       \* acceptance and verification criteria
    Codes,          \* failure codes
    Keys,           \* idempotency keys
    PlanInputs,     \* plans submitted to createPlan
    AssignKeys, ArtifactKeys, StartKeys, FailKeys, CompleteKeys,
                    \* the keys callers use for each operation on a run
    None

TaskStatuses == {"BLOCKED", "READY", "AWAITING_APPROVAL", "ASSIGNED", "RUNNING",
                 "COMPLETED", "FAILED", "STOPPED"}
RunStatuses == {"PREPARED", "AWAITING_APPROVAL", "ASSIGNED", "RUNNING",
                "COMPLETED", "FAILED", "STOPPED"}
EndStatuses == {"COMPLETED", "FAILED", "STOPPED"}

TaskSpec == [deps : SUBSET TaskIds, authority : 0..4, cost : Nat, criteria : SUBSET Criteria,
             maximumAttempts : 1..32, retryable : SUBSET Codes, stop : SUBSET Codes]
TaskRecord == [spec : TaskSpec, status : TaskStatuses, attempt : Nat, version : Nat]
RunRecord == [task : TaskIds, status : RunStatuses, attempt : Nat, version : Nat,
              assignee : Assignees \cup {None}, assignKey : Keys \cup {None}]
Artifact == [id : ArtifactIds, run : RunIds, criterion : Criteria]
\* What an event stored under `key:run` or `key:task` is later compared with
RunEvent == [action : {"run.status.changed", "run.failed", "run.completed"}, run : RunIds]
View == [run : RunIds, version : Nat, status : RunStatuses]

ASSUME InputAssumption ==
    /\ \A p \in PlanInputs :
        /\ p.key \in Keys
        /\ p.objective \in ObjectiveIds
        /\ p.maximumAuthority \in 0..4
        /\ p.maximumCost \in Nat
        /\ DOMAIN p.tasks \subseteq TaskIds
        /\ \A t \in DOMAIN p.tasks : p.tasks[t] \in TaskSpec
    /\ \A keys \in {AssignKeys, ArtifactKeys, StartKeys, FailKeys, CompleteKeys} :
        keys \in [RunIds -> SUBSET Keys]
ASSUME NoneAssumption ==
    /\ None \notin Assignees
    /\ None \notin Keys
    /\ None \notin Codes
    /\ None \notin View

VARIABLES
    objectives,   \* acp_objectives by idempotency key: the plan stored under it
    tasks, runs,  \* acp_tasks, acp_runs
    artifacts,    \* acp_artifacts by idempotency key
    runEvents,    \* audit events of source CONTROL_PLANE keyed `key:run`
    taskEvents,   \* those keyed `key:task`: the failure code, None for a completion
    eventKeys,    \* keys k for which an event `k:event` exists
    views         \* the run record each caller last received

vars == <<objectives, tasks, runs, artifacts, runEvents, taskEvents, eventKeys, views>>

EmptyMap == [x \in {} |-> x]
Put(map, k, v) == [x \in DOMAIN map \cup {k} |-> IF x = k THEN v ELSE map[x]]

-----------------------------------------------------------------------------
(* Plan policy *)

\* assertAcyclic: every group of tasks has one that depends on none of them
IsAcyclic(specs) ==
    /\ \A t \in DOMAIN specs : specs[t].deps \subseteq DOMAIN specs
    /\ \A group \in SUBSET DOMAIN specs :
        group # {} => \E t \in group : specs[t].deps \cap group = {}

WithinBudget(p) ==
    MapThenSumSet(LAMBDA t : p.tasks[t].cost, DOMAIN p.tasks) <= p.maximumCost

validateDurableObjectivePlan(p) ==
    /\ DOMAIN p.tasks # {}
    /\ IsAcyclic(p.tasks)
    /\ WithinBudget(p)
    /\ \A t \in DOMAIN p.tasks :
        LET spec == p.tasks[t] IN
        /\ spec.authority <= p.maximumAuthority
        /\ spec.criteria # {}
        /\ spec.retryable # {} /\ spec.stop # {}
        /\ spec.retryable \cap spec.stop = {}

InitialTaskStatus(spec) ==
    IF spec.deps # {} THEN "BLOCKED"
    ELSE IF spec.authority = 4 THEN "AWAITING_APPROVAL" ELSE "READY"

InitialRunStatus(spec) == IF spec.authority = 4 THEN "AWAITING_APPROVAL" ELSE "PREPARED"

NewTask(spec) ==
    [spec |-> spec, status |-> InitialTaskStatus(spec), attempt |-> 0, version |-> 1]

NewRun(t, status, attempt) ==
    [task |-> t, status |-> status, attempt |-> attempt, version |-> 1,
     assignee |-> None, assignKey |-> None]

-----------------------------------------------------------------------------
(* Derived facts *)

TaskOf(r) == runs[r].task
SpecOf(r) == tasks[TaskOf(r)].spec
IsLive(r) == runs[r].status \notin EndStatuses
RunsOf(t) == {r \in DOMAIN runs : TaskOf(r) = t}
DependenciesCompleted(t) ==
    \A d \in tasks[t].spec.deps : tasks[d].status = "COMPLETED"
EvidencedBy(r) == {artifacts[k].criterion : k \in {j \in DOMAIN artifacts : artifacts[j].run = r}}

\* getPreparedApprovalBinding: what the approval bridge may bind an approval to
ApprovalReady(r) ==
    /\ runs[r].status = "AWAITING_APPROVAL"
    /\ SpecOf(r).authority = 4
    /\ tasks[TaskOf(r)].status = "AWAITING_APPROVAL"
    /\ runs[r].assignee = None

ViewOf(record, r) == [run |-> r, version |-> record.version, status |-> record.status]

\* mutant: expectedVersion is not compared.
IsAtAnyVersion(c, r) ==
    /\ views[c] # None
    /\ views[c].run = r
    /\ r \in DOMAIN runs

\* The caller's expectedVersion is still the run's version.
IsAtExpectedVersion(c, r) ==
    /\ views[c] # None
    /\ views[c].run = r
    /\ r \in DOMAIN runs
    /\ runs[r].version = views[c].version

\* The run row with a new status, and its task's row; both versions advance.
Moved(record, status) == [record EXCEPT !.status = status, !.version = @ + 1]

-----------------------------------------------------------------------------
(* Operations *)

createPlan(p) ==
    /\ validateDurableObjectivePlan(p)
    /\ p.key \notin DOMAIN objectives
    /\ \A k \in DOMAIN objectives :
        /\ objectives[k].objective # p.objective
        /\ DOMAIN objectives[k].tasks \cap DOMAIN p.tasks = {}
    /\ \E fresh \in [DOMAIN p.tasks -> RunIds \ DOMAIN runs] :
        /\ \A t, u \in DOMAIN p.tasks : fresh[t] = fresh[u] => t = u
        /\ runs' = [r \in DOMAIN runs \cup {fresh[t] : t \in DOMAIN p.tasks} |->
                      IF r \in DOMAIN runs THEN runs[r]
                      ELSE LET t == CHOOSE u \in DOMAIN p.tasks : fresh[u] = r
                           IN NewRun(t, InitialRunStatus(p.tasks[t]), 1)]
    /\ objectives' = Put(objectives, p.key, p)
    /\ tasks' = [t \in DOMAIN tasks \cup DOMAIN p.tasks |->
                   IF t \in DOMAIN tasks THEN tasks[t]
                   ELSE NewTask(p.tasks[t])]
    /\ UNCHANGED <<artifacts, runEvents, taskEvents, eventKeys, views>>

\* A caller reads a run, or receives it from a replayed call.
readRun(c, r) ==
    /\ r \in DOMAIN runs
    /\ views' = [views EXCEPT ![c] = ViewOf(runs[r], r)]
    /\ UNCHANGED <<objectives, tasks, runs, artifacts, runEvents, taskEvents, eventKeys>>

reserveAssignment(c, r, a, k) ==
    /\ IsAtExpectedVersion(c, r)
    /\ SpecOf(r).authority # 4
    /\ runs[r].status = "PREPARED"
    /\ tasks[TaskOf(r)].status = "READY"
    /\ \A q \in DOMAIN runs : runs[q].assignKey # k
    /\ k \notin eventKeys
    /\ runs' = [runs EXCEPT ![r] = [Moved(@, "ASSIGNED") EXCEPT !.assignee = a, !.assignKey = k]]
    /\ tasks' = [tasks EXCEPT ![TaskOf(r)] =
                   [Moved(@, "ASSIGNED") EXCEPT !.attempt = runs[r].attempt]]
    /\ eventKeys' = eventKeys \cup {k}
    /\ views' = [views EXCEPT ![c] = ViewOf(runs'[r], r)]
    /\ UNCHANGED <<objectives, artifacts, runEvents, taskEvents>>

recordArtifact(r, id, criterion, k) ==
    /\ k \notin DOMAIN artifacts
    /\ r \in DOMAIN runs
    /\ runs[r].status \in {"ASSIGNED", "RUNNING"}
    /\ criterion \in SpecOf(r).criteria
    /\ \A j \in DOMAIN artifacts :
        /\ artifacts[j].id # id
        /\ ~(artifacts[j].run = r /\ artifacts[j].criterion = criterion)
    /\ k \notin eventKeys
    /\ artifacts' = Put(artifacts, k, [id |-> id, run |-> r, criterion |-> criterion])
    /\ eventKeys' = eventKeys \cup {k}
    /\ UNCHANGED <<objectives, tasks, runs, runEvents, taskEvents, views>>

startRun(c, r, k) ==
    /\ k \notin DOMAIN runEvents
    /\ IsAtExpectedVersion(c, r)
    /\ SpecOf(r).authority # 4
    /\ runs[r].status = "ASSIGNED"
    /\ tasks[TaskOf(r)].status = "ASSIGNED"
    /\ runs' = [runs EXCEPT ![r] = Moved(@, "RUNNING")]
    /\ tasks' = [tasks EXCEPT ![TaskOf(r)] = Moved(@, "RUNNING")]
    /\ runEvents' = Put(runEvents, k, [action |-> "run.status.changed", run |-> r])
    /\ views' = [views EXCEPT ![c] = ViewOf(runs'[r], r)]
    /\ UNCHANGED <<objectives, artifacts, taskEvents, eventKeys>>

MayFail(c, r, k) ==
    /\ k \notin DOMAIN runEvents
    /\ k \notin DOMAIN taskEvents
    /\ IsAtExpectedVersion(c, r)
    /\ runs[r].status \in {"ASSIGNED", "RUNNING"}
    /\ tasks[TaskOf(r)].status \in {"ASSIGNED", "RUNNING"}

ShouldStop(r, code) == code \in SpecOf(r).stop
ShouldRetry(r, code) ==
    /\ ~ShouldStop(r, code)
    /\ code \in SpecOf(r).retryable
    /\ runs[r].attempt < SpecOf(r).maximumAttempts

\* mutant: the task goes back to READY although no run was prepared.
failRunLeavingTaskReady(c, r, code, k) ==
    LET end == IF ShouldStop(r, code) THEN "STOPPED" ELSE "FAILED" IN
    /\ MayFail(c, r, k)
    /\ ~ShouldRetry(r, code)
    /\ runs' = [runs EXCEPT ![r] = Moved(@, end)]
    /\ tasks' = [tasks EXCEPT ![TaskOf(r)] = Moved(@, "READY")]
    /\ runEvents' = Put(runEvents, k, [action |-> "run.failed", run |-> r])
    /\ taskEvents' = Put(taskEvents, k, code)
    /\ views' = [views EXCEPT ![c] = ViewOf(runs'[r], r)]
    /\ UNCHANGED <<objectives, artifacts, eventKeys>>

\* failRun when the task gets no further attempt
failRunForGood(c, r, code, k) ==
    LET end == IF ShouldStop(r, code) THEN "STOPPED" ELSE "FAILED" IN
    /\ MayFail(c, r, k)
    /\ ~ShouldRetry(r, code)
    /\ runs' = [runs EXCEPT ![r] = Moved(@, end)]
    /\ tasks' = [tasks EXCEPT ![TaskOf(r)] = Moved(@, end)]
    /\ runEvents' = Put(runEvents, k,
         [action |-> IF end = "FAILED" THEN "run.failed" ELSE "run.status.changed", run |-> r])
    /\ taskEvents' = Put(taskEvents, k, code)
    /\ views' = [views EXCEPT ![c] = ViewOf(runs'[r], r)]
    /\ UNCHANGED <<objectives, artifacts, eventKeys>>

\* failRun when it prepares the next attempt as a new run
failRunAndRetry(c, r, code, k) ==
    /\ MayFail(c, r, k)
    /\ ShouldRetry(r, code)
    /\ \E fresh \in RunIds \ DOMAIN runs :
        runs' = Put([runs EXCEPT ![r] = Moved(@, "FAILED")], fresh,
                    NewRun(TaskOf(r), "PREPARED", runs[r].attempt + 1))
    /\ tasks' = [tasks EXCEPT ![TaskOf(r)] =
                   [Moved(@, "READY") EXCEPT !.attempt = runs[r].attempt]]
    /\ runEvents' = Put(runEvents, k, [action |-> "run.failed", run |-> r])
    /\ taskEvents' = Put(taskEvents, k, code)
    /\ views' = [views EXCEPT ![c] = ViewOf(runs'[r], r)]
    /\ UNCHANGED <<objectives, artifacts, eventKeys>>

\* mutant: artifacts of the task's earlier attempts count as well.
EvidencedByAnyAttempt(r) ==
    SpecOf(r).criteria \subseteq UNION {EvidencedBy(q) : q \in RunsOf(TaskOf(r))}

EveryCriterionEvidenced(r) == SpecOf(r).criteria \subseteq EvidencedBy(r)

\* mutant: dependencies are read before t itself is marked COMPLETED.
ReleasedByOthers(t) == {u \in DOMAIN tasks :
    /\ t \in tasks[u].spec.deps
    /\ tasks[u].status = "BLOCKED"
    /\ \A d \in tasks[u].spec.deps : tasks[d].status = "COMPLETED"}

\* The BLOCKED dependents of t that t's completion releases
ReleasedBy(t) == {u \in DOMAIN tasks :
    /\ t \in tasks[u].spec.deps
    /\ tasks[u].status = "BLOCKED"
    /\ \A d \in tasks[u].spec.deps : d = t \/ tasks[d].status = "COMPLETED"}

ReleasedStatus(spec) == IF spec.authority = 4 THEN "AWAITING_APPROVAL" ELSE "READY"

completeRun(c, r, k) ==
    /\ k \notin DOMAIN runEvents
    /\ k \notin DOMAIN taskEvents
    /\ IsAtExpectedVersion(c, r)
    /\ runs[r].status = "RUNNING"
    /\ tasks[TaskOf(r)].status = "RUNNING"
    /\ EveryCriterionEvidenced(r)
    /\ runs' = [runs EXCEPT ![r] = Moved(@, "COMPLETED")]
    /\ tasks' = [t \in DOMAIN tasks |->
                   IF t = TaskOf(r) THEN Moved(tasks[t], "COMPLETED")
                   ELSE IF t \in ReleasedBy(TaskOf(r))
                   THEN Moved(tasks[t], ReleasedStatus(tasks[t].spec))
                   ELSE tasks[t]]
    /\ runEvents' = Put(runEvents, k, [action |-> "run.completed", run |-> r])
    /\ taskEvents' = Put(taskEvents, k, None)
    /\ views' = [views EXCEPT ![c] = ViewOf(runs'[r], r)]
    /\ UNCHANGED <<objectives, artifacts, eventKeys>>

-----------------------------------------------------------------------------

Init ==
    /\ objectives = EmptyMap
    /\ tasks = EmptyMap
    /\ runs = EmptyMap
    /\ artifacts = EmptyMap
    /\ runEvents = EmptyMap
    /\ taskEvents = EmptyMap
    /\ eventKeys = {}
    /\ views = [c \in Callers |-> None]

RunNext(c, r) ==
    \/ readRun(c, r)
    \/ \E a \in Assignees, k \in AssignKeys[r] : reserveAssignment(c, r, a, k)
    \/ \E k \in StartKeys[r] : startRun(c, r, k)
    \/ \E code \in Codes, k \in FailKeys[r] :
        \/ failRunForGood(c, r, code, k)
        \/ failRunAndRetry(c, r, code, k)
    \/ \E k \in CompleteKeys[r] : completeRun(c, r, k)

Next ==
    \/ \E p \in PlanInputs : createPlan(p)
    \/ \E c \in Callers, r \in RunIds : RunNext(c, r)
    \/ \E r \in RunIds, id \in ArtifactIds, criterion \in Criteria, k \in Keys :
        /\ k \in ArtifactKeys[r]
        /\ recordArtifact(r, id, criterion, k)

Spec == Init /\ [][Next]_vars

-----------------------------------------------------------------------------
(* Properties *)

TypeOK ==
    /\ DOMAIN objectives \subseteq Keys
    /\ \A k \in DOMAIN objectives : objectives[k] \in PlanInputs
    /\ DOMAIN tasks \subseteq TaskIds
    /\ \A t \in DOMAIN tasks : tasks[t] \in TaskRecord
    /\ DOMAIN runs \subseteq RunIds
    /\ \A r \in DOMAIN runs : runs[r] \in RunRecord
    /\ DOMAIN artifacts \subseteq Keys
    /\ \A k \in DOMAIN artifacts : artifacts[k] \in Artifact
    /\ DOMAIN runEvents \subseteq Keys
    /\ \A k \in DOMAIN runEvents : runEvents[k] \in RunEvent
    /\ DOMAIN taskEvents \subseteq Keys
    /\ \A k \in DOMAIN taskEvents : taskEvents[k] \in Codes \cup {None}
    /\ eventKeys \subseteq Keys
    /\ views \in [Callers -> View \cup {None}]

\* The status of a task's one live run, for each status of the task
LiveRunStatus(task) ==
    CASE task.status \in {"BLOCKED", "READY", "AWAITING_APPROVAL"} ->
            InitialRunStatus(task.spec)
      [] OTHER -> task.status

\* A task that has not ended has exactly one live run, which is where the task
\* says it is; a task that has ended has none (the partial unique index
\* acp_runs_one_active_per_task_idx, and the pairs of updates of each method).
OneLiveRun == \A t \in DOMAIN tasks :
    IF tasks[t].status \in EndStatuses
    THEN \A r \in RunsOf(t) : ~IsLive(r)
    ELSE \E r \in RunsOf(t) :
            /\ runs[r].status = LiveRunStatus(tasks[t])
            /\ \A q \in RunsOf(t) : IsLive(q) => q = r

\* Retries never exceed the immutable retry budget: the runs of a task are
\* numbered without a gap from 1 to at most maximumAttempts, and every attempt
\* but the last one FAILED.
RetryBudget == \A t \in DOMAIN tasks : \A r \in RunsOf(t) :
    /\ runs[r].attempt \in 1..tasks[t].spec.maximumAttempts
    /\ \A q \in RunsOf(t) : runs[q].attempt = runs[r].attempt => q = r
    /\ runs[r].attempt > 1 => \E q \in RunsOf(t) :
         runs[q].attempt = runs[r].attempt - 1 /\ runs[q].status = "FAILED"

\* A task is BLOCKED exactly as long as one of its dependencies is not
\* COMPLETED: completeRun releases no dependent early and forgets none.
BlockedByDependencies == \A t \in DOMAIN tasks :
    tasks[t].status = "BLOCKED" <=> ~DependenciesCompleted(t)

\* A completed task was completed by a run whose own artifacts evidence every
\* declared criterion; what an earlier attempt recorded does not count.
CompletionIsEvidenced == \A t \in DOMAIN tasks :
    tasks[t].status = "COMPLETED" =>
        \E r \in RunsOf(t) :
            /\ runs[r].status = "COMPLETED"
            /\ tasks[t].spec.criteria \subseteq EvidencedBy(r)

\* The approval bridge can bind an approval to a run exactly when the task is
\* Level 4 and everything it depends on is done; such a run never executes
\* (getPreparedApprovalBinding against createPlan and completeRun).
ApprovalBindingIsReady == \A r \in DOMAIN runs :
    /\ ApprovalReady(r) <=> SpecOf(r).authority = 4 /\ DependenciesCompleted(TaskOf(r))
    /\ SpecOf(r).authority = 4 => runs[r].status = "AWAITING_APPROVAL"

WriterHasSeenRun == \A r \in DOMAIN runs :
    runs'[r].status # runs[r].status =>
        \E c \in Callers :
            views[c] # None /\ views[c].run = r /\ views[c].status = runs[r].status

\* Concurrent stale writers are rejected: a run's status only changes at the
\* hands of a caller that had seen the status it replaces.
NoStaleWrite == [][WriterHasSeenRun]_vars

\* DURABLE_TASK_TRANSITIONS and DURABLE_RUN_TRANSITIONS, which the database
\* triggers repeat
TaskTransitions == [s \in TaskStatuses |->
    CASE s = "BLOCKED"  -> {"READY", "AWAITING_APPROVAL", "STOPPED"}
      [] s = "READY"    -> {"ASSIGNED", "STOPPED"}
      [] s = "AWAITING_APPROVAL" -> {"STOPPED"}
      [] s = "ASSIGNED" -> {"READY", "RUNNING", "FAILED", "STOPPED"}
      [] s = "RUNNING"  -> {"READY", "COMPLETED", "FAILED", "STOPPED"}
      [] OTHER -> {}]
RunTransitions == [s \in RunStatuses |->
    CASE s = "PREPARED" -> {"ASSIGNED", "STOPPED"}
      [] s = "AWAITING_APPROVAL" -> {"STOPPED"}
      [] s = "ASSIGNED" -> {"RUNNING", "FAILED", "STOPPED"}
      [] s = "RUNNING"  -> {"COMPLETED", "FAILED", "STOPPED"}
      [] OTHER -> {}]

LegalStep ==
    /\ \A t \in DOMAIN tasks : tasks'[t] # tasks[t] =>
        /\ tasks'[t].status \in TaskTransitions[tasks[t].status]
        /\ tasks'[t].version = tasks[t].version + 1
    /\ \A r \in DOMAIN runs : runs'[r] # runs[r] =>
        /\ runs'[r].status \in RunTransitions[runs[r].status]
        /\ runs'[r].version = runs[r].version + 1

\* Every status the service writes is one the transition tables (and so the
\* triggers acp_tasks_transition_guard and acp_runs_guard) allow from the
\* status it replaces, in a row whose version advances by exactly one.
TransitionsAreLegal == [][LegalStep]_vars
=============================================================================
