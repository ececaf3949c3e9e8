--------------------------- MODULE TaskRunProofs ---------------------------
(***************************************************************************)
(* Proofs about TaskRun, for every value of its constants.                 *)
(***************************************************************************)
EXTENDS TaskRun, TLAPS

-----------------------------------------------------------------------------
(* The inductive invariant *)

\* Every reference between rows leads to a row, and every task came in a plan.
References ==
    /\ \A t \in DOMAIN tasks : tasks[t].spec.deps \subseteq DOMAIN tasks
    /\ \A r \in DOMAIN runs : TaskOf(r) \in DOMAIN tasks
    /\ \A t \in DOMAIN tasks : \E k \in DOMAIN objectives : t \in DOMAIN objectives[k].tasks

\* What a live run says about its task, and how the runs of a task are told
\* apart: a live run is the latest attempt.
LiveRuns ==
    /\ \A r \in DOMAIN runs : IsLive(r) =>
          /\ tasks[TaskOf(r)].status \notin EndStatuses
          /\ runs[r].status = LiveRunStatus(tasks[TaskOf(r)])
          /\ \A q \in DOMAIN runs : TaskOf(q) = TaskOf(r) /\ q # r =>
                ~IsLive(q) /\ runs[q].attempt < runs[r].attempt
    /\ \A t \in DOMAIN tasks : tasks[t].status \notin EndStatuses =>
          \E r \in DOMAIN runs : TaskOf(r) = t /\ IsLive(r)

\* Level-4 work is offered for approval and never assigned.
LevelFour ==
    /\ \A r \in DOMAIN runs : SpecOf(r).authority = 4 =>
          runs[r].status = "AWAITING_APPROVAL" /\ runs[r].assignee = None
    /\ \A t \in DOMAIN tasks : tasks[t].spec.authority = 4 =>
          tasks[t].status \in {"BLOCKED", "AWAITING_APPROVAL"}
    /\ \A t \in DOMAIN tasks : tasks[t].status = "AWAITING_APPROVAL" =>
          tasks[t].spec.authority = 4

\* A completed run has its evidence, and a completed task a completed run.
Evidence ==
    /\ \A r \in DOMAIN runs : runs[r].status = "COMPLETED" => EveryCriterionEvidenced(r)
    /\ \A t \in DOMAIN tasks : tasks[t].status = "COMPLETED" =>
          \E r \in DOMAIN runs : TaskOf(r) = t /\ runs[r].status = "COMPLETED"

\* A view is a version the run has had; at the current version it is the
\* current status.
ViewsAreReal == \A c \in Callers : views[c] # None =>
    /\ views[c].run \in DOMAIN runs
    /\ views[c].version <= runs[views[c].run].version
    /\ views[c].version = runs[views[c].run].version
          => views[c].status = runs[views[c].run].status

\* What the rows say of each other; only createPlan and the moves of a run
\* disturb it.
RowInv ==
    /\ References
    /\ LiveRuns
    /\ RetryBudget
    /\ BlockedByDependencies
    /\ LevelFour
    /\ Evidence

IInv == TypeOK /\ RowInv /\ ViewsAreReal
-----------------------------------------------------------------------------
(* What the actions write *)

\* Row r of runs has moved to status s, and every other row is as it was.
RunMoved(r, s) ==
    /\ DOMAIN runs \subseteq DOMAIN runs'
    /\ \A q \in DOMAIN runs : q # r => runs'[q] = runs[q]
    /\ runs'[r] \in RunRecord
    /\ runs'[r].task = runs[r].task
    /\ runs'[r].status = s
    /\ runs'[r].attempt = runs[r].attempt
    /\ runs'[r].version = runs[r].version + 1

\* Row t of tasks has moved to status s, and every other row is as it was.
TaskMoved(t, s) ==
    /\ DOMAIN tasks' = DOMAIN tasks
    /\ \A u \in DOMAIN tasks : u # t => tasks'[u] = tasks[u]
    /\ tasks'[t] \in TaskRecord
    /\ tasks'[t].spec = tasks[t].spec
    /\ tasks'[t].status = s
    /\ tasks'[t].version = tasks[t].version + 1

\* Moved advances the version of a row and keeps the rest of it.
LEMMA MovedRun ==
    ASSUME NEW rec \in RunRecord, NEW s \in RunStatuses
    PROVE  /\ Moved(rec, s) \in RunRecord
           /\ Moved(rec, s).status = s
           /\ Moved(rec, s).version = rec.version + 1
           /\ Moved(rec, s).task = rec.task
           /\ Moved(rec, s).attempt = rec.attempt
           /\ Moved(rec, s).assignee = rec.assignee
           /\ Moved(rec, s).assignKey = rec.assignKey
<1> DEFINE v == rec.version + 1
<1>1. v \in Nat
  BY DEF RunRecord
<1>2. Moved(rec, s) = [rec EXCEPT !.status = s, !.version = v]
  BY DEF Moved
<1> HIDE DEF v
<1>3. /\ Moved(rec, s) \in RunRecord
      /\ Moved(rec, s).status = s
      /\ Moved(rec, s).version = v
      /\ Moved(rec, s).task = rec.task
      /\ Moved(rec, s).attempt = rec.attempt
      /\ Moved(rec, s).assignee = rec.assignee
      /\ Moved(rec, s).assignKey = rec.assignKey
  BY <1>1, <1>2 DEF RunRecord
<1>4. QED
  BY <1>3 DEF v

\* The same for a task row.
LEMMA MovedTask ==
    ASSUME NEW rec \in TaskRecord, NEW s \in TaskStatuses
    PROVE  /\ Moved(rec, s) \in TaskRecord
           /\ Moved(rec, s).status = s
           /\ Moved(rec, s).version = rec.version + 1
           /\ Moved(rec, s).spec = rec.spec
           /\ Moved(rec, s).attempt = rec.attempt
<1> DEFINE v == rec.version + 1
<1>1. v \in Nat
  BY DEF TaskRecord
<1>2. Moved(rec, s) = [rec EXCEPT !.status = s, !.version = v]
  BY DEF Moved
<1> HIDE DEF v
<1>3. /\ Moved(rec, s) \in TaskRecord
      /\ Moved(rec, s).status = s
      /\ Moved(rec, s).version = v
      /\ Moved(rec, s).spec = rec.spec
      /\ Moved(rec, s).attempt = rec.attempt
  BY <1>1, <1>2 DEF TaskRecord
<1>4. QED
  BY <1>3 DEF v

\* The task row that reserveAssignment and a retry write: a move that also
\* records the attempt.
LEMMA MovedTaskAttempt ==
    ASSUME NEW rec \in TaskRecord, NEW s \in TaskStatuses, NEW n \in Nat
    PROVE  LET new == [Moved(rec, s) EXCEPT !.attempt = n] IN
           /\ new \in TaskRecord
           /\ new.status = s
           /\ new.version = rec.version + 1
           /\ new.spec = rec.spec
<1> DEFINE m == Moved(rec, s)
<1>1. m \in TaskRecord /\ m.status = s /\ m.version = rec.version + 1 /\ m.spec = rec.spec
  BY MovedTask
<1> HIDE DEF m
<1>2. LET new == [m EXCEPT !.attempt = n] IN
        new \in TaskRecord /\ new.status = s /\ new.version = rec.version + 1 /\ new.spec = rec.spec
  BY <1>1 DEF TaskRecord
<1>3. QED
  BY <1>2 DEF m

\* The row that reserveAssignment writes: a moved row m that also names the
\* assignee.
LEMMA MovedRunAssigned ==
    ASSUME NEW m \in RunRecord, NEW a \in Assignees, NEW k \in Keys
    PROVE  /\ [m EXCEPT !.assignee = a, !.assignKey = k] \in RunRecord
           /\ [m EXCEPT !.assignee = a, !.assignKey = k].status = m.status
           /\ [m EXCEPT !.assignee = a, !.assignKey = k].version = m.version
           /\ [m EXCEPT !.assignee = a, !.assignKey = k].task = m.task
           /\ [m EXCEPT !.assignee = a, !.assignKey = k].attempt = m.attempt
BY DEF RunRecord

\* A run that has left its waiting state is not Level-4 work.
LEMMA AssignedIsNotLevelFour ==
    ASSUME LevelFour, NEW r \in DOMAIN runs, runs[r].status \in {"ASSIGNED", "RUNNING"}
    PROVE  SpecOf(r).authority # 4
BY DEF LevelFour

\* reserveAssignment moves a prepared run and its ready task to ASSIGNED.
LEMMA ReserveMoves ==
    ASSUME TypeOK, RowInv, NEW c \in Callers, NEW r \in RunIds, NEW a \in Assignees,
           NEW k \in Keys, reserveAssignment(c, r, a, k)
    PROVE  /\ r \in DOMAIN runs
           /\ DOMAIN runs' = DOMAIN runs
           /\ RunMoved(r, "ASSIGNED")
           /\ TaskMoved(TaskOf(r), "ASSIGNED")
<1>1. r \in DOMAIN runs /\ TaskOf(r) \in DOMAIN tasks
  BY DEF reserveAssignment, IsAtExpectedVersion, RowInv, References
<1>2. runs[r] \in RunRecord /\ tasks[TaskOf(r)] \in TaskRecord
  BY <1>1 DEF TypeOK
<1>3. DOMAIN runs' = DOMAIN runs /\ RunMoved(r, "ASSIGNED")
  <2>1. runs' = [runs EXCEPT ![r] = [Moved(runs[r], "ASSIGNED") EXCEPT !.assignee = a, !.assignKey = k]]
    BY DEF reserveAssignment
  <2> DEFINE m == Moved(runs[r], "ASSIGNED")
             new == [m EXCEPT !.assignee = a, !.assignKey = k]
  <2>2. /\ m \in RunRecord /\ m.status = "ASSIGNED" /\ m.version = runs[r].version + 1
        /\ m.task = runs[r].task /\ m.attempt = runs[r].attempt
    BY <1>2, MovedRun DEF RunStatuses
  <2>3. runs' = [runs EXCEPT ![r] = new]
    BY <2>1
  <2> HIDE DEF m
  <2>5. /\ new \in RunRecord /\ new.status = m.status /\ new.version = m.version
        /\ new.task = m.task /\ new.attempt = m.attempt
    BY <2>2, MovedRunAssigned
  <2> HIDE DEF new
  <2>6. QED
    BY <1>1, <2>2, <2>3, <2>5 DEF RunMoved
<1>4. TaskMoved(TaskOf(r), "ASSIGNED")
  <2>1. runs[r].attempt \in Nat
    BY <1>2 DEF RunRecord
  <2>2. "ASSIGNED" \in TaskStatuses
    BY DEF TaskStatuses
  <2> DEFINE new == [Moved(tasks[TaskOf(r)], "ASSIGNED") EXCEPT !.attempt = runs[r].attempt]
  <2>3. /\ new \in TaskRecord /\ new.status = "ASSIGNED"
        /\ new.version = tasks[TaskOf(r)].version + 1 /\ new.spec = tasks[TaskOf(r)].spec
    BY <1>2, <2>1, <2>2, MovedTaskAttempt
  <2>4. tasks' = [tasks EXCEPT ![TaskOf(r)] = new]
    BY DEF reserveAssignment
  <2> HIDE DEF new
  <2>5. QED
    BY <1>1, <2>3, <2>4 DEF TaskMoved
<1>5. QED
  BY <1>1, <1>3, <1>4

\* startRun moves an assigned run and its task to RUNNING.
LEMMA StartMoves ==
    ASSUME TypeOK, RowInv, NEW c \in Callers, NEW r \in RunIds,
           NEW k \in Keys, startRun(c, r, k)
    PROVE  /\ r \in DOMAIN runs
           /\ DOMAIN runs' = DOMAIN runs
           /\ RunMoved(r, "RUNNING")
           /\ TaskMoved(TaskOf(r), "RUNNING")
<1>1. r \in DOMAIN runs /\ TaskOf(r) \in DOMAIN tasks
  BY DEF startRun, IsAtExpectedVersion, RowInv, References
<1>2. runs[r] \in RunRecord /\ tasks[TaskOf(r)] \in TaskRecord
  BY <1>1 DEF TypeOK
<1>3. DOMAIN runs' = DOMAIN runs /\ RunMoved(r, "RUNNING")
  BY <1>1, <1>2, MovedRun DEF startRun, RunMoved, RunStatuses
<1>4. TaskMoved(TaskOf(r), "RUNNING")
  BY <1>1, <1>2, MovedTask DEF startRun, TaskMoved, TaskStatuses
<1>5. QED
  BY <1>1, <1>3, <1>4

\* failRun without a retry ends the run and its task the same way.
LEMMA FailMoves ==
    ASSUME TypeOK, RowInv, NEW c \in Callers, NEW r \in RunIds, NEW code \in Codes,
           NEW k \in Keys, failRunForGood(c, r, code, k)
    PROVE  \E end \in {"FAILED", "STOPPED"} :
             /\ r \in DOMAIN runs
             /\ DOMAIN runs' = DOMAIN runs
             /\ RunMoved(r, end)
             /\ TaskMoved(TaskOf(r), end)
<1>1. r \in DOMAIN runs /\ TaskOf(r) \in DOMAIN tasks
  BY DEF failRunForGood, MayFail, IsAtExpectedVersion, RowInv, References
<1>2. runs[r] \in RunRecord /\ tasks[TaskOf(r)] \in TaskRecord
  BY <1>1 DEF TypeOK
<1> DEFINE end == IF ShouldStop(r, code) THEN "STOPPED" ELSE "FAILED"
<1>3. end \in {"FAILED", "STOPPED"}
  OBVIOUS
<1>4. /\ runs' = [runs EXCEPT ![r] = Moved(@, end)]
      /\ tasks' = [tasks EXCEPT ![TaskOf(r)] = Moved(@, end)]
  BY DEF failRunForGood
<1> HIDE DEF end
<1>5. DOMAIN runs' = DOMAIN runs /\ RunMoved(r, end)
  BY <1>1, <1>2, <1>3, <1>4, MovedRun DEF RunMoved, RunStatuses
<1>6. TaskMoved(TaskOf(r), end)
  BY <1>1, <1>2, <1>3, <1>4, MovedTask DEF TaskMoved, TaskStatuses
<1>7. QED
  BY <1>1, <1>3, <1>5, <1>6

\* failRun with a retry ends the run, prepares the next one and reopens the task.
LEMMA RetryMoves ==
    ASSUME TypeOK, RowInv, NEW c \in Callers, NEW r \in RunIds, NEW code \in Codes,
           NEW k \in Keys, failRunAndRetry(c, r, code, k)
    PROVE  \E fresh \in RunIds \ DOMAIN runs :
             /\ r \in DOMAIN runs
             /\ DOMAIN runs' = DOMAIN runs \cup {fresh}
             /\ RunMoved(r, "FAILED")
             /\ runs'[fresh] = NewRun(TaskOf(r), "PREPARED", runs[r].attempt + 1)
             /\ runs'[fresh] \in RunRecord
             /\ TaskMoved(TaskOf(r), "READY")
<1>1. r \in DOMAIN runs /\ TaskOf(r) \in DOMAIN tasks
  BY DEF failRunAndRetry, MayFail, IsAtExpectedVersion, RowInv, References
<1>2. runs[r] \in RunRecord /\ tasks[TaskOf(r)] \in TaskRecord
  BY <1>1 DEF TypeOK
<1>3. PICK fresh \in RunIds \ DOMAIN runs :
        runs' = Put([runs EXCEPT ![r] = Moved(@, "FAILED")], fresh,
                    NewRun(TaskOf(r), "PREPARED", runs[r].attempt + 1))
  BY DEF failRunAndRetry
<1>4. /\ DOMAIN runs' = DOMAIN runs \cup {fresh}
      /\ runs'[fresh] = NewRun(TaskOf(r), "PREPARED", runs[r].attempt + 1)
      /\ runs'[r] = Moved(runs[r], "FAILED")
      /\ \A q \in DOMAIN runs : q # r => runs'[q] = runs[q]
  BY <1>1, <1>3 DEF Put
<1>5. RunMoved(r, "FAILED")
  BY <1>2, <1>4, MovedRun DEF RunMoved, RunStatuses
<1>6. runs'[fresh] \in RunRecord
  BY <1>2, <1>4 DEF NewRun, RunRecord, RunStatuses, TaskOf
<1>7. TaskMoved(TaskOf(r), "READY")
  <2>1. runs[r].attempt \in Nat
    BY <1>2 DEF RunRecord
  <2>2. "READY" \in TaskStatuses
    BY DEF TaskStatuses
  <2> DEFINE new == [Moved(tasks[TaskOf(r)], "READY") EXCEPT !.attempt = runs[r].attempt]
  <2>3. /\ new \in TaskRecord /\ new.status = "READY"
        /\ new.version = tasks[TaskOf(r)].version + 1 /\ new.spec = tasks[TaskOf(r)].spec
    BY <1>2, <2>1, <2>2, MovedTaskAttempt
  <2>4. tasks' = [tasks EXCEPT ![TaskOf(r)] = new]
    BY DEF failRunAndRetry
  <2> HIDE DEF new
  <2>5. QED
    BY <1>1, <2>3, <2>4 DEF TaskMoved
<1>8. QED
  BY <1>1, <1>4, <1>5, <1>6, <1>7

\* completeRun ends the run and its task, and releases the dependents whose
\* other dependencies are done.
LEMMA CompleteMoves ==
    ASSUME TypeOK, RowInv, NEW c \in Callers, NEW r \in RunIds,
           NEW k \in Keys, completeRun(c, r, k)
    PROVE  /\ r \in DOMAIN runs
           /\ DOMAIN runs' = DOMAIN runs
           /\ RunMoved(r, "COMPLETED")
           /\ DOMAIN tasks' = DOMAIN tasks
           /\ tasks'[TaskOf(r)] = Moved(tasks[TaskOf(r)], "COMPLETED")
           /\ \A t \in DOMAIN tasks : t # TaskOf(r) =>
                tasks'[t] = IF t \in ReleasedBy(TaskOf(r))
                            THEN Moved(tasks[t], ReleasedStatus(tasks[t].spec))
                            ELSE tasks[t]
           /\ \A t \in DOMAIN tasks : tasks'[t] \in TaskRecord /\ tasks'[t].spec = tasks[t].spec
<1>1. r \in DOMAIN runs /\ TaskOf(r) \in DOMAIN tasks
  BY DEF completeRun, IsAtExpectedVersion, RowInv, References
<1>2. runs[r] \in RunRecord /\ \A t \in DOMAIN tasks : tasks[t] \in TaskRecord
  BY <1>1 DEF TypeOK
<1>3. DOMAIN runs' = DOMAIN runs /\ RunMoved(r, "COMPLETED")
  BY <1>1, <1>2, MovedRun DEF completeRun, RunMoved, RunStatuses
<1>4. /\ DOMAIN tasks' = DOMAIN tasks
      /\ tasks'[TaskOf(r)] = Moved(tasks[TaskOf(r)], "COMPLETED")
      /\ \A t \in DOMAIN tasks : t # TaskOf(r) =>
           tasks'[t] = IF t \in ReleasedBy(TaskOf(r))
                       THEN Moved(tasks[t], ReleasedStatus(tasks[t].spec))
                       ELSE tasks[t]
  BY <1>1 DEF completeRun
<1>5. ASSUME NEW t \in DOMAIN tasks
      PROVE  tasks'[t] \in TaskRecord /\ tasks'[t].spec = tasks[t].spec
  <2>1. \/ tasks'[t] = tasks[t]
        \/ \E s \in {"COMPLETED", "READY", "AWAITING_APPROVAL"} : tasks'[t] = Moved(tasks[t], s)
    BY <1>4 DEF ReleasedStatus
  <2>2. QED
    BY <1>2, <2>1, MovedTask DEF TaskStatuses
<1>6. QED
  BY <1>1, <1>3, <1>4, <1>5

-----------------------------------------------------------------------------
(* Moves preserve what the rows say of each other *)

\* reserveAssignment, startRun and failRun without a retry: the live run and
\* its task move to the same status.
LEMMA MoveTogether ==
    ASSUME TypeOK, RowInv, NEW r \in DOMAIN runs,
           NEW s \in {"ASSIGNED", "RUNNING", "FAILED", "STOPPED"},
           IsLive(r),
           tasks[TaskOf(r)].status \in {"READY", "ASSIGNED", "RUNNING"},
           SpecOf(r).authority # 4,
           DOMAIN runs' = DOMAIN runs,
           RunMoved(r, s), TaskMoved(TaskOf(r), s),
           objectives' = objectives, artifacts' = artifacts
    PROVE  RowInv'
<1> DEFINE t0 == TaskOf(r)
<1>1. t0 \in DOMAIN tasks
  BY DEF RowInv, References
<1>2. \A q \in DOMAIN runs : runs'[q].task = runs[q].task /\ runs'[q].attempt = runs[q].attempt
  BY DEF RunMoved
<1>3. \A u \in DOMAIN tasks : tasks'[u].spec = tasks[u].spec
  BY DEF TaskMoved
<1>4. DOMAIN tasks' = DOMAIN tasks
  BY DEF TaskMoved
<1>5. \A q \in DOMAIN runs : IsLive(q)' => IsLive(q)
  BY DEF RunMoved, IsLive
<1>6. References'
  BY <1>2, <1>3, <1>4 DEF RowInv, References, TaskOf
<1>7. LiveRuns'
  <2>1. ASSUME NEW q \in DOMAIN runs, IsLive(q)'
        PROVE  /\ tasks'[runs'[q].task].status \notin EndStatuses
               /\ runs'[q].status = LiveRunStatus(tasks'[runs'[q].task])
    <3>1. CASE q = r
      BY <2>1, <3>1 DEF RunMoved, TaskMoved, TaskOf, IsLive, EndStatuses, LiveRunStatus
    <3>2. CASE q # r
      <4>1. runs'[q] = runs[q] /\ IsLive(q)
        BY <1>5, <2>1, <3>2 DEF RunMoved
      <4>2. TaskOf(q) # t0
        BY <3>2, <4>1 DEF RowInv, LiveRuns
      <4>3. tasks'[TaskOf(q)] = tasks[TaskOf(q)]
        BY <4>2 DEF TaskMoved, RowInv, References
      <4>4. QED
        BY <4>1, <4>3 DEF RowInv, LiveRuns, TaskOf
    <3>3. QED
      BY <3>1, <3>2
  <2>2. ASSUME NEW q \in DOMAIN runs, IsLive(q)',
               NEW p \in DOMAIN runs, runs'[p].task = runs'[q].task, p # q
        PROVE  ~IsLive(p)' /\ runs'[p].attempt < runs'[q].attempt
    <3>1. ~IsLive(p) /\ runs[p].attempt < runs[q].attempt
      BY <1>2, <1>5, <2>2 DEF RowInv, LiveRuns, TaskOf
    <3>2. QED
      BY <1>2, <1>5, <3>1
  <2>3. ASSUME NEW u \in DOMAIN tasks, tasks'[u].status \notin EndStatuses
        PROVE  \E q \in DOMAIN runs : runs'[q].task = u /\ IsLive(q)'
    <3>1. CASE u = t0
      BY <1>2, <2>3, <3>1 DEF IsLive, RunMoved, TaskMoved, TaskOf
    <3>2. CASE u # t0
      <4>1. PICK q \in DOMAIN runs : TaskOf(q) = u /\ IsLive(q)
        BY <2>3, <3>2 DEF TaskMoved, RowInv, LiveRuns
      <4>2. runs'[q] = runs[q]
        BY <3>2, <4>1 DEF RunMoved
      <4>3. QED
        BY <4>1, <4>2 DEF IsLive, TaskOf
    <3>3. QED
      BY <3>1, <3>2
  <2>4. QED
    BY <1>4, <2>1, <2>2, <2>3 DEF LiveRuns, TaskOf
<1>8. RetryBudget'
  <2>1. \A q \in DOMAIN runs : runs[q].status = "FAILED" => runs'[q].status = "FAILED"
    BY DEF RunMoved, IsLive, EndStatuses
  <2>2. QED
    BY <1>2, <1>3, <1>4, <2>1 DEF RowInv, RetryBudget, RunsOf, TaskOf
<1>9. BlockedByDependencies'
  <2>1. \A u \in DOMAIN tasks : tasks'[u].status = "COMPLETED" <=> tasks[u].status = "COMPLETED"
    BY DEF TaskMoved
  <2>2. \A u \in DOMAIN tasks : tasks'[u].status = "BLOCKED" <=> tasks[u].status = "BLOCKED"
    BY DEF TaskMoved
  <2>3. \A u \in DOMAIN tasks : DependenciesCompleted(u)' <=> DependenciesCompleted(u)
    BY <1>3, <2>1 DEF DependenciesCompleted, RowInv, References
  <2>4. QED
    BY <1>4, <2>2, <2>3 DEF RowInv, BlockedByDependencies
<1>10. LevelFour'
  <2>1. ASSUME NEW q \in DOMAIN runs, tasks'[runs'[q].task].spec.authority = 4
        PROVE  runs'[q].status = "AWAITING_APPROVAL" /\ runs'[q].assignee = None
    <3>1. SpecOf(q).authority = 4 /\ q # r
      BY <1>2, <1>3, <2>1 DEF SpecOf, TaskOf, RowInv, References
    <3>2. QED
      BY <3>1 DEF RowInv, LevelFour, RunMoved
  <2>2. ASSUME NEW u \in DOMAIN tasks
        PROVE  /\ tasks'[u].spec.authority = 4 =>
                    tasks'[u].status \in {"BLOCKED", "AWAITING_APPROVAL"}
               /\ tasks'[u].status = "AWAITING_APPROVAL" => tasks'[u].spec.authority = 4
    BY DEF TaskMoved, RowInv, LevelFour, SpecOf
  <2>3. QED
    BY <1>4, <2>1, <2>2 DEF LevelFour, SpecOf, TaskOf
<1>11. Evidence'
  <2>1. ASSUME NEW q \in DOMAIN runs, runs'[q].status = "COMPLETED"
        PROVE  EveryCriterionEvidenced(q)'
    <3>1. q # r /\ runs[q].status = "COMPLETED"
      BY <2>1 DEF RunMoved
    <3>2. EveryCriterionEvidenced(q)
      BY <3>1 DEF RowInv, Evidence
    <3>3. SpecOf(q)' = SpecOf(q) /\ EvidencedBy(q)' = EvidencedBy(q)
      BY <1>2, <1>3 DEF SpecOf, TaskOf, EvidencedBy, RowInv, References
    <3>4. QED
      BY <3>2, <3>3 DEF EveryCriterionEvidenced
  <2>2. ASSUME NEW u \in DOMAIN tasks, tasks'[u].status = "COMPLETED"
        PROVE  \E q \in DOMAIN runs : runs'[q].task = u /\ runs'[q].status = "COMPLETED"
    <3>1. tasks[u].status = "COMPLETED"
      BY <2>2 DEF TaskMoved
    <3>2. PICK q \in DOMAIN runs : TaskOf(q) = u /\ runs[q].status = "COMPLETED"
      BY <3>1 DEF RowInv, Evidence
    <3>3. runs'[q] = runs[q]
      BY <3>2 DEF RunMoved, IsLive, EndStatuses
    <3>4. QED
      BY <3>2, <3>3 DEF TaskOf
  <2>3. QED
    BY <1>4, <2>1, <2>2 DEF Evidence, TaskOf
<1>12. QED
  BY <1>6, <1>7, <1>8, <1>9, <1>10, <1>11 DEF RowInv

\* failRun with a retry: the next attempt takes over as the task's live run.
LEMMA RetryKeepsRows ==
    ASSUME TypeOK, RowInv, NEW c \in Callers, NEW r \in RunIds, NEW code \in Codes,
           NEW k \in Keys, failRunAndRetry(c, r, code, k)
    PROVE  RowInv'
<1> DEFINE t0 == TaskOf(r)
<1>1. PICK fresh \in RunIds \ DOMAIN runs :
        /\ r \in DOMAIN runs
        /\ DOMAIN runs' = DOMAIN runs \cup {fresh}
        /\ RunMoved(r, "FAILED")
        /\ runs'[fresh] = NewRun(t0, "PREPARED", runs[r].attempt + 1)
        /\ runs'[fresh] \in RunRecord
        /\ TaskMoved(t0, "READY")
  BY RetryMoves
<1>2. /\ runs[r].status \in {"ASSIGNED", "RUNNING"}
      /\ tasks[t0].status \in {"ASSIGNED", "RUNNING"}
      /\ runs[r].attempt < SpecOf(r).maximumAttempts
      /\ objectives' = objectives /\ artifacts' = artifacts
  BY DEF failRunAndRetry, MayFail, ShouldRetry
<1>3. /\ IsLive(r)
      /\ \A q \in DOMAIN runs : IsLive(q)' <=> IsLive(q) /\ q # r
  BY <1>1, <1>2 DEF RunMoved, IsLive, EndStatuses
<1>4. \A q \in DOMAIN runs : runs'[q].task = runs[q].task /\ runs'[q].attempt = runs[q].attempt
  BY <1>1 DEF RunMoved
<1>5. /\ DOMAIN tasks' = DOMAIN tasks
      /\ \A u \in DOMAIN tasks : tasks'[u].spec = tasks[u].spec
  BY <1>1 DEF TaskMoved
<1>6. /\ runs'[fresh].task = t0 /\ runs'[fresh].status = "PREPARED"
      /\ runs'[fresh].attempt = runs[r].attempt + 1 /\ runs'[fresh].assignee = None
  BY <1>1 DEF NewRun
<1>7. t0 \in DOMAIN tasks /\ tasks[t0].spec.authority # 4
  BY <1>1, <1>2, AssignedIsNotLevelFour DEF RowInv, References, SpecOf
<1>8. runs[r] \in RunRecord /\ runs[r].attempt \in Nat /\ runs[r].attempt >= 1
  BY <1>1, <1>7 DEF TypeOK, RunRecord, RowInv, RetryBudget, RunsOf
<1>9. \A q \in DOMAIN runs : runs[q].attempt \in Nat
  BY DEF TypeOK, RunRecord
<1>10. References'
  BY <1>1, <1>2, <1>4, <1>5, <1>6, <1>7 DEF RowInv, References, TaskOf
<1>11. \A q \in DOMAIN runs : TaskOf(q) = t0 /\ q # r => ~IsLive(q) /\ runs[q].attempt < runs[r].attempt
  BY <1>1, <1>3 DEF RowInv, LiveRuns
<1>12. LiveRuns'
  <2>1. IsLive(fresh)' /\ tasks'[t0].status = "READY"
        /\ "PREPARED" = LiveRunStatus(tasks'[t0])
    BY <1>1, <1>5, <1>6, <1>7
       DEF IsLive, EndStatuses, TaskMoved, LiveRunStatus, InitialRunStatus
  <2>2. ASSUME NEW q \in DOMAIN runs, IsLive(q)'
        PROVE  /\ runs'[q] = runs[q] /\ TaskOf(q) # t0
               /\ tasks'[TaskOf(q)] = tasks[TaskOf(q)]
    BY <1>1, <1>3, <1>11, <2>2 DEF RunMoved, TaskMoved, RowInv, References
  <2>3. ASSUME NEW q \in DOMAIN runs', IsLive(q)'
        PROVE  /\ tasks'[runs'[q].task].status \notin EndStatuses
               /\ runs'[q].status = LiveRunStatus(tasks'[runs'[q].task])
    <3>1. CASE q = fresh
      BY <1>6, <2>1, <3>1 DEF EndStatuses
    <3>2. CASE q \in DOMAIN runs
      BY <1>3, <2>2, <2>3, <3>2 DEF RowInv, LiveRuns, TaskOf
    <3>3. QED
      BY <1>1, <3>1, <3>2
  <2>4. ASSUME NEW q \in DOMAIN runs', IsLive(q)',
               NEW p \in DOMAIN runs', runs'[p].task = runs'[q].task, p # q
        PROVE  ~IsLive(p)' /\ runs'[p].attempt < runs'[q].attempt
    <3>1. CASE q = fresh
      <4>1. p \in DOMAIN runs /\ TaskOf(p) = t0
        BY <1>1, <1>4, <1>6, <2>4, <3>1 DEF TaskOf
      <4>2. ~IsLive(p)'
        BY <1>3, <1>11, <4>1
      <4>3. runs[p].attempt <= runs[r].attempt
        BY <1>8, <1>9, <1>11, <4>1
      <4>4. QED
        BY <1>4, <1>6, <1>8, <1>9, <3>1, <4>1, <4>2, <4>3
    <3>2. CASE q \in DOMAIN runs
      <4>1. p \in DOMAIN runs /\ TaskOf(p) = TaskOf(q)
        BY <1>1, <1>4, <1>6, <2>2, <2>4, <3>2 DEF TaskOf
      <4>2. IsLive(q) /\ ~IsLive(p) /\ runs[p].attempt < runs[q].attempt
        BY <1>3, <2>4, <3>2, <4>1 DEF RowInv, LiveRuns
      <4>3. QED
        BY <1>3, <1>4, <3>2, <4>1, <4>2
    <3>3. QED
      BY <1>1, <3>1, <3>2
  <2>5. ASSUME NEW u \in DOMAIN tasks, tasks'[u].status \notin EndStatuses
        PROVE  \E q \in DOMAIN runs' : runs'[q].task = u /\ IsLive(q)'
    <3>1. CASE u = t0
      BY <1>1, <1>6, <2>1, <3>1
    <3>2. CASE u # t0
      <4>1. PICK q \in DOMAIN runs : TaskOf(q) = u /\ IsLive(q)
        BY <1>1, <2>5, <3>2 DEF TaskMoved, RowInv, LiveRuns
      <4>2. QED
        BY <1>1, <1>3, <1>4, <3>2, <4>1 DEF TaskOf
    <3>3. QED
      BY <3>1, <3>2
  <2>6. QED
    BY <1>5, <2>3, <2>4, <2>5 DEF LiveRuns, TaskOf
<1>13. RetryBudget'
  <2>1. \A q \in DOMAIN runs : runs[q].status = "FAILED" => runs'[q].status = "FAILED"
    BY <1>1 DEF RunMoved
  <2>2. ASSUME NEW q \in DOMAIN runs, runs[q].task \in DOMAIN tasks
        PROVE  /\ runs'[q].attempt \in 1..tasks'[runs'[q].task].spec.maximumAttempts
               /\ \A p \in DOMAIN runs' :
                    runs'[p].task = runs'[q].task /\ runs'[p].attempt = runs'[q].attempt => p = q
               /\ runs'[q].attempt > 1 => \E p \in DOMAIN runs' :
                    /\ runs'[p].task = runs'[q].task
                    /\ runs'[p].attempt = runs'[q].attempt - 1 /\ runs'[p].status = "FAILED"
    <3>1. /\ runs[q].attempt \in 1..tasks[runs[q].task].spec.maximumAttempts
          /\ \A p \in DOMAIN runs :
               runs[p].task = runs[q].task /\ runs[p].attempt = runs[q].attempt => p = q
          /\ runs[q].attempt > 1 => \E p \in DOMAIN runs :
               /\ runs[p].task = runs[q].task
               /\ runs[p].attempt = runs[q].attempt - 1 /\ runs[p].status = "FAILED"
      BY <2>2 DEF RowInv, RetryBudget, RunsOf, TaskOf
    <3>2. runs[q].task = t0 => runs[q].attempt <= runs[r].attempt
      BY <1>8, <1>9, <1>11 DEF TaskOf
    <3>3. runs'[fresh].task = runs'[q].task => runs'[fresh].attempt # runs'[q].attempt
      BY <1>4, <1>6, <1>8, <1>9, <3>2
    <3>4. QED
      BY <1>1, <1>4, <1>5, <2>1, <2>2, <3>1, <3>3
  <2>3. /\ runs'[fresh].attempt \in 1..tasks'[t0].spec.maximumAttempts
        /\ \A p \in DOMAIN runs' :
             runs'[p].task = t0 /\ runs'[p].attempt = runs'[fresh].attempt => p = fresh
        /\ \E p \in DOMAIN runs' :
             /\ runs'[p].task = t0
             /\ runs'[p].attempt = runs'[fresh].attempt - 1 /\ runs'[p].status = "FAILED"
    <3>1. runs'[fresh].attempt \in 1..tasks'[t0].spec.maximumAttempts
      <4>1. tasks[t0].spec.maximumAttempts \in Nat
        BY <1>7 DEF TypeOK, TaskRecord, TaskSpec
      <4>2. QED
        BY <1>2, <1>5, <1>6, <1>7, <1>8, <4>1 DEF SpecOf
    <3>2. ASSUME NEW p \in DOMAIN runs', runs'[p].task = t0,
                 runs'[p].attempt = runs'[fresh].attempt, p # fresh
          PROVE  FALSE
      <4>1. p \in DOMAIN runs /\ TaskOf(p) = t0
        BY <1>1, <1>4, <3>2 DEF TaskOf
      <4>2. runs[p].attempt <= runs[r].attempt
        BY <1>8, <1>9, <1>11, <4>1
      <4>3. QED
        BY <1>4, <1>6, <1>8, <1>9, <3>2, <4>1, <4>2
    <3>3. /\ r \in DOMAIN runs' /\ runs'[r].task = t0 /\ runs'[r].status = "FAILED"
          /\ runs'[r].attempt = runs'[fresh].attempt - 1
      BY <1>1, <1>4, <1>6, <1>8 DEF RunMoved, TaskOf
    <3>4. QED
      BY <3>1, <3>2, <3>3
  <2>4. QED
    BY <1>1, <1>4, <1>5, <1>6, <2>2, <2>3 DEF RetryBudget, RunsOf, TaskOf
<1>14. BlockedByDependencies'
  <2>1. \A u \in DOMAIN tasks :
          /\ tasks'[u].status = "COMPLETED" <=> tasks[u].status = "COMPLETED"
          /\ tasks'[u].status = "BLOCKED" <=> tasks[u].status = "BLOCKED"
    BY <1>1, <1>2 DEF TaskMoved
  <2>2. \A u \in DOMAIN tasks : DependenciesCompleted(u)' <=> DependenciesCompleted(u)
    BY <1>5, <2>1 DEF DependenciesCompleted, RowInv, References
  <2>3. QED
    BY <1>5, <2>1, <2>2 DEF RowInv, BlockedByDependencies
<1>15. LevelFour'
  <2>1. ASSUME NEW q \in DOMAIN runs', tasks'[runs'[q].task].spec.authority = 4
        PROVE  runs'[q].status = "AWAITING_APPROVAL" /\ runs'[q].assignee = None
    <3>1. q \in DOMAIN runs /\ TaskOf(q) # t0
      BY <1>1, <1>4, <1>5, <1>6, <1>7, <2>1 DEF TaskOf
    <3>2. SpecOf(q).authority = 4 /\ runs'[q] = runs[q]
      BY <1>1, <1>4, <1>5, <2>1, <3>1 DEF SpecOf, TaskOf, RowInv, References, RunMoved
    <3>3. QED
      BY <3>1, <3>2 DEF RowInv, LevelFour
  <2>2. ASSUME NEW u \in DOMAIN tasks
        PROVE  /\ tasks'[u].spec.authority = 4 =>
                    tasks'[u].status \in {"BLOCKED", "AWAITING_APPROVAL"}
               /\ tasks'[u].status = "AWAITING_APPROVAL" => tasks'[u].spec.authority = 4
    BY <1>1, <1>7 DEF TaskMoved, RowInv, LevelFour
  <2>3. QED
    BY <1>5, <2>1, <2>2 DEF LevelFour, SpecOf, TaskOf
<1>16. Evidence'
  <2>1. ASSUME NEW q \in DOMAIN runs', runs'[q].status = "COMPLETED"
        PROVE  EveryCriterionEvidenced(q)'
    <3>1. q \in DOMAIN runs /\ runs[q].status = "COMPLETED"
      BY <1>1, <1>6, <2>1 DEF RunMoved
    <3>2. EveryCriterionEvidenced(q)
      BY <3>1 DEF RowInv, Evidence
    <3>3. SpecOf(q)' = SpecOf(q) /\ EvidencedBy(q)' = EvidencedBy(q)
      BY <1>2, <1>4, <1>5, <3>1 DEF SpecOf, TaskOf, EvidencedBy, RowInv, References
    <3>4. QED
      BY <3>2, <3>3 DEF EveryCriterionEvidenced
  <2>2. ASSUME NEW u \in DOMAIN tasks, tasks'[u].status = "COMPLETED"
        PROVE  \E q \in DOMAIN runs' : runs'[q].task = u /\ runs'[q].status = "COMPLETED"
    <3>1. tasks[u].status = "COMPLETED"
      BY <1>1, <2>2 DEF TaskMoved
    <3>2. PICK q \in DOMAIN runs : TaskOf(q) = u /\ runs[q].status = "COMPLETED"
      BY <3>1 DEF RowInv, Evidence
    <3>3. runs'[q] = runs[q]
      BY <1>1, <1>2, <3>2 DEF RunMoved
    <3>4. QED
      BY <1>1, <3>2, <3>3 DEF TaskOf
  <2>3. QED
    BY <1>5, <2>1, <2>2 DEF Evidence, TaskOf
<1>17. QED
  BY <1>10, <1>12, <1>13, <1>14, <1>15, <1>16 DEF RowInv

\* completeRun: its task has all its evidence, and exactly the dependents that
\* have nothing left to wait for are released.
LEMMA CompleteKeepsRows ==
    ASSUME TypeOK, RowInv, NEW c \in Callers, NEW r \in RunIds,
           NEW k \in Keys, completeRun(c, r, k)
    PROVE  RowInv'
<1> DEFINE t0 == TaskOf(r)
<1>1. /\ r \in DOMAIN runs
      /\ DOMAIN runs' = DOMAIN runs
      /\ RunMoved(r, "COMPLETED")
      /\ DOMAIN tasks' = DOMAIN tasks
      /\ tasks'[t0] = Moved(tasks[t0], "COMPLETED")
      /\ \A t \in DOMAIN tasks : t # t0 =>
           tasks'[t] = IF t \in ReleasedBy(t0)
                       THEN Moved(tasks[t], ReleasedStatus(tasks[t].spec))
                       ELSE tasks[t]
      /\ \A t \in DOMAIN tasks : tasks'[t] \in TaskRecord /\ tasks'[t].spec = tasks[t].spec
  BY CompleteMoves
<1>2. /\ runs[r].status = "RUNNING" /\ tasks[t0].status = "RUNNING"
      /\ EveryCriterionEvidenced(r)
      /\ objectives' = objectives /\ artifacts' = artifacts
  BY DEF completeRun
<1>3. t0 \in DOMAIN tasks /\ tasks[t0].spec.authority # 4
  BY <1>1, <1>2, AssignedIsNotLevelFour DEF RowInv, References, SpecOf
<1>4. /\ tasks'[t0].status = "COMPLETED"
      /\ \A t \in ReleasedBy(t0) : t # t0 /\ tasks'[t].status = ReleasedStatus(tasks[t].spec)
      /\ \A t \in DOMAIN tasks : t # t0 /\ t \notin ReleasedBy(t0) => tasks'[t] = tasks[t]
  <2>1. \A t \in DOMAIN tasks : tasks[t] \in TaskRecord
    BY DEF TypeOK
  <2>2. \A t \in ReleasedBy(t0) : t \in DOMAIN tasks /\ t # t0
    BY <1>2 DEF ReleasedBy
  <2>3. \A t : ReleasedStatus(t) \in TaskStatuses
    BY DEF ReleasedStatus, TaskStatuses
  <2>4. QED
    BY <1>1, <1>3, <2>1, <2>2, <2>3, MovedTask DEF TaskStatuses
<1>5. \A t \in ReleasedBy(t0) : t \in DOMAIN tasks /\ tasks[t].status = "BLOCKED"
  BY DEF ReleasedBy
<1>6. /\ IsLive(r)
      /\ \A q \in DOMAIN runs : IsLive(q)' <=> IsLive(q) /\ q # r
  BY <1>1, <1>2 DEF RunMoved, IsLive, EndStatuses
<1>7. \A q \in DOMAIN runs : runs'[q].task = runs[q].task /\ runs'[q].attempt = runs[q].attempt
  BY <1>1 DEF RunMoved
<1>8. \A q \in DOMAIN runs : q # r => runs'[q] = runs[q]
  BY <1>1 DEF RunMoved
<1>9. References'
  BY <1>1, <1>2, <1>7 DEF RowInv, References, TaskOf
<1>10. LiveRuns'
  <2>1. ASSUME NEW t \in DOMAIN tasks, t # t0
        PROVE  /\ tasks'[t].status \in EndStatuses <=> tasks[t].status \in EndStatuses
               /\ LiveRunStatus(tasks'[t]) = LiveRunStatus(tasks[t])
    <3>1. CASE t \in ReleasedBy(t0)
      BY <1>1, <1>4, <1>5, <3>1
         DEF ReleasedStatus, EndStatuses, LiveRunStatus, InitialRunStatus
    <3>2. CASE t \notin ReleasedBy(t0)
      BY <1>4, <2>1, <3>2
    <3>3. QED
      BY <3>1, <3>2
  <2>2. ASSUME NEW q \in DOMAIN runs, IsLive(q)'
        PROVE  /\ tasks'[runs'[q].task].status \notin EndStatuses
               /\ runs'[q].status = LiveRunStatus(tasks'[runs'[q].task])
    <3>1. IsLive(q) /\ q # r /\ runs'[q] = runs[q]
      BY <1>6, <1>8, <2>2
    <3>2. TaskOf(q) # t0 /\ TaskOf(q) \in DOMAIN tasks
      BY <1>1, <1>6, <3>1 DEF RowInv, LiveRuns, References
    <3>3. QED
      BY <2>1, <3>1, <3>2 DEF RowInv, LiveRuns, TaskOf
  <2>3. ASSUME NEW q \in DOMAIN runs, IsLive(q)',
               NEW p \in DOMAIN runs, runs'[p].task = runs'[q].task, p # q
        PROVE  ~IsLive(p)' /\ runs'[p].attempt < runs'[q].attempt
    <3>1. ~IsLive(p) /\ runs[p].attempt < runs[q].attempt
      BY <1>6, <1>7, <2>3 DEF RowInv, LiveRuns, TaskOf
    <3>2. QED
      BY <1>6, <1>7, <3>1
  <2>4. ASSUME NEW u \in DOMAIN tasks, tasks'[u].status \notin EndStatuses
        PROVE  \E q \in DOMAIN runs : runs'[q].task = u /\ IsLive(q)'
    <3>1. u # t0
      BY <1>4, <2>4 DEF EndStatuses
    <3>2. PICK q \in DOMAIN runs : TaskOf(q) = u /\ IsLive(q)
      BY <2>1, <2>4, <3>1 DEF RowInv, LiveRuns
    <3>3. QED
      BY <1>6, <1>7, <3>1, <3>2 DEF TaskOf
  <2>5. QED
    BY <1>1, <2>2, <2>3, <2>4 DEF LiveRuns, TaskOf
<1>11. RetryBudget'
  <2>1. \A q \in DOMAIN runs : runs[q].status = "FAILED" => runs'[q].status = "FAILED"
    BY <1>2, <1>8
  <2>2. QED
    BY <1>1, <1>7, <2>1 DEF RowInv, RetryBudget, RunsOf, TaskOf
<1>12. BlockedByDependencies'
  <2>1. \A d \in DOMAIN tasks :
          tasks'[d].status = "COMPLETED" <=> d = t0 \/ tasks[d].status = "COMPLETED"
    BY <1>4, <1>5 DEF ReleasedStatus
  <2>2. \A u \in DOMAIN tasks : tasks[u].spec.deps \subseteq DOMAIN tasks
    BY DEF RowInv, References
  <2>3. ASSUME NEW u \in DOMAIN tasks
        PROVE  tasks'[u].status = "BLOCKED" <=>
                 ~\A d \in tasks[u].spec.deps : tasks'[d].status = "COMPLETED"
    <3>1. tasks[u].status = "BLOCKED" <=>
            ~\A d \in tasks[u].spec.deps : tasks[d].status = "COMPLETED"
      BY DEF RowInv, BlockedByDependencies, DependenciesCompleted
    <3>2. CASE u \in ReleasedBy(t0)
      <4>1. \A d \in tasks[u].spec.deps : d = t0 \/ tasks[d].status = "COMPLETED"
        BY <3>2 DEF ReleasedBy
      <4>2. tasks'[u].status # "BLOCKED"
        BY <1>4, <3>2 DEF ReleasedStatus
      <4>3. QED
        BY <2>1, <2>2, <4>1, <4>2
    <3>3. CASE u \notin ReleasedBy(t0) /\ tasks[u].status = "BLOCKED"
      <4>1. \E d \in tasks[u].spec.deps : d # t0 /\ tasks[d].status # "COMPLETED"
        BY <1>2, <3>1, <3>3 DEF ReleasedBy
      <4>2. tasks'[u].status = "BLOCKED"
        BY <1>2, <1>4, <3>3
      <4>3. QED
        BY <2>1, <2>2, <4>1, <4>2
    <3>4. CASE tasks[u].status # "BLOCKED"
      <4>1. tasks'[u].status # "BLOCKED"
        BY <1>4, <1>5, <3>4
      <4>2. QED
        BY <2>1, <2>2, <3>1, <3>4, <4>1
    <3>5. QED
      BY <3>2, <3>3, <3>4
  <2>4. QED
    BY <1>1, <2>3 DEF BlockedByDependencies, DependenciesCompleted
<1>13. LevelFour'
  <2>1. ASSUME NEW q \in DOMAIN runs, tasks'[runs'[q].task].spec.authority = 4
        PROVE  runs'[q].status = "AWAITING_APPROVAL" /\ runs'[q].assignee = None
    <3>1. SpecOf(q).authority = 4
      BY <1>1, <1>7, <2>1 DEF SpecOf, TaskOf, RowInv, References
    <3>2. q # r
      BY <1>3, <3>1 DEF SpecOf
    <3>3. QED
      BY <1>8, <3>1, <3>2 DEF RowInv, LevelFour
  <2>2. ASSUME NEW u \in DOMAIN tasks
        PROVE  /\ tasks'[u].spec.authority = 4 =>
                    tasks'[u].status \in {"BLOCKED", "AWAITING_APPROVAL"}
               /\ tasks'[u].status = "AWAITING_APPROVAL" => tasks'[u].spec.authority = 4
    BY <1>1, <1>3, <1>4 DEF RowInv, LevelFour, ReleasedStatus
  <2>3. QED
    BY <1>1, <2>1, <2>2 DEF LevelFour, SpecOf, TaskOf
<1>14. Evidence'
  <2>1. ASSUME NEW q \in DOMAIN runs, runs'[q].status = "COMPLETED"
        PROVE  EveryCriterionEvidenced(q)'
    <3>1. EveryCriterionEvidenced(q)
      BY <1>2, <1>8, <2>1 DEF RowInv, Evidence
    <3>2. SpecOf(q)' = SpecOf(q) /\ EvidencedBy(q)' = EvidencedBy(q)
      BY <1>1, <1>2, <1>7 DEF SpecOf, TaskOf, EvidencedBy, RowInv, References
    <3>3. QED
      BY <3>1, <3>2 DEF EveryCriterionEvidenced
  <2>2. ASSUME NEW u \in DOMAIN tasks, tasks'[u].status = "COMPLETED"
        PROVE  \E q \in DOMAIN runs : runs'[q].task = u /\ runs'[q].status = "COMPLETED"
    <3>1. CASE u = t0
      BY <1>1, <3>1 DEF RunMoved, TaskOf
    <3>2. CASE u # t0
      <4>1. tasks[u].status = "COMPLETED"
        BY <1>4, <2>2, <3>2 DEF ReleasedStatus
      <4>2. PICK q \in DOMAIN runs : TaskOf(q) = u /\ runs[q].status = "COMPLETED"
        BY <4>1 DEF RowInv, Evidence
      <4>3. QED
        BY <1>8, <3>2, <4>2 DEF TaskOf
    <3>3. QED
      BY <3>1, <3>2
  <2>3. QED
    BY <1>1, <2>1, <2>2 DEF Evidence, TaskOf
<1>15. QED
  BY <1>9, <1>10, <1>11, <1>12, <1>13, <1>14 DEF RowInv

\* recordArtifact only adds evidence.
LEMMA RecordKeepsRows ==
    ASSUME TypeOK, RowInv, NEW r \in RunIds, NEW id \in ArtifactIds, NEW criterion \in Criteria,
           NEW k \in Keys, recordArtifact(r, id, criterion, k)
    PROVE  RowInv'
<1>1. UNCHANGED <<objectives, tasks, runs>>
  BY DEF recordArtifact
<1>2. \A j \in DOMAIN artifacts : j \in DOMAIN artifacts' /\ artifacts'[j] = artifacts[j]
  BY DEF recordArtifact, Put
<1>3. References' /\ LiveRuns' /\ RetryBudget' /\ BlockedByDependencies' /\ LevelFour'
  BY <1>1 DEF RowInv, References, LiveRuns, RetryBudget, BlockedByDependencies, LevelFour,
              TaskOf, SpecOf, RunsOf, IsLive, DependenciesCompleted
<1>4. Evidence'
  <2>1. \A q \in DOMAIN runs : EvidencedBy(q) \subseteq EvidencedBy(q)'
    BY <1>2 DEF EvidencedBy
  <2>2. \A q \in DOMAIN runs : EveryCriterionEvidenced(q) => EveryCriterionEvidenced(q)'
    BY <1>1, <2>1 DEF EveryCriterionEvidenced, SpecOf, TaskOf
  <2>3. QED
    BY <1>1, <2>2 DEF RowInv, Evidence, TaskOf
<1>5. QED
  BY <1>3, <1>4 DEF RowInv

\* createPlan adds rows: its tasks are new, depend on each other only, and get
\* one run each.
LEMMA CreateAdds ==
    ASSUME TypeOK, RowInv, NEW p \in PlanInputs, createPlan(p)
    PROVE  \E fresh \in [DOMAIN p.tasks -> RunIds \ DOMAIN runs] :
             /\ \A t, u \in DOMAIN p.tasks : fresh[t] = fresh[u] => t = u
             /\ DOMAIN runs' = DOMAIN runs \cup {fresh[t] : t \in DOMAIN p.tasks}
             /\ \A r \in DOMAIN runs : runs'[r] = runs[r]
             /\ \A t \in DOMAIN p.tasks :
                  runs'[fresh[t]] = NewRun(t, InitialRunStatus(p.tasks[t]), 1)
             /\ DOMAIN tasks \cap DOMAIN p.tasks = {}
             /\ DOMAIN tasks' = DOMAIN tasks \cup DOMAIN p.tasks
             /\ \A t \in DOMAIN tasks : tasks'[t] = tasks[t]
             /\ \A t \in DOMAIN p.tasks :
                  /\ p.tasks[t] \in TaskSpec
                  /\ p.tasks[t].deps \subseteq DOMAIN p.tasks
                  /\ tasks'[t] = NewTask(p.tasks[t])
<1>1. PICK fresh \in [DOMAIN p.tasks -> RunIds \ DOMAIN runs] :
        /\ \A t, u \in DOMAIN p.tasks : fresh[t] = fresh[u] => t = u
        /\ runs' = [r \in DOMAIN runs \cup {fresh[t] : t \in DOMAIN p.tasks} |->
                      IF r \in DOMAIN runs THEN runs[r]
                      ELSE LET t == CHOOSE u \in DOMAIN p.tasks : fresh[u] = r
                           IN NewRun(t, InitialRunStatus(p.tasks[t]), 1)]
  BY DEF createPlan
<1>2. DOMAIN tasks \cap DOMAIN p.tasks = {}
  BY DEF createPlan, RowInv, References
<1>3. \A t \in DOMAIN p.tasks : p.tasks[t] \in TaskSpec /\ p.tasks[t].deps \subseteq DOMAIN p.tasks
  BY InputAssumption DEF createPlan, validateDurableObjectivePlan, IsAcyclic
<1>4. /\ DOMAIN tasks' = DOMAIN tasks \cup DOMAIN p.tasks
      /\ \A t \in DOMAIN tasks : tasks'[t] = tasks[t]
      /\ \A t \in DOMAIN p.tasks :
           tasks'[t] = NewTask(p.tasks[t])
  BY <1>2 DEF createPlan
<1>5. /\ DOMAIN runs' = DOMAIN runs \cup {fresh[t] : t \in DOMAIN p.tasks}
      /\ \A r \in DOMAIN runs : runs'[r] = runs[r]
  BY <1>1
<1>6. ASSUME NEW t \in DOMAIN p.tasks
      PROVE  runs'[fresh[t]] = NewRun(t, InitialRunStatus(p.tasks[t]), 1)
  <2>1. (CHOOSE u \in DOMAIN p.tasks : fresh[u] = fresh[t]) = t
    BY <1>1
  <2>2. fresh[t] \notin DOMAIN runs
    BY <1>1
  <2>3. QED
    BY <1>1, <2>1, <2>2
<1>7. QED
  BY <1>1, <1>2, <1>3, <1>4, <1>5, <1>6

\* createPlan: the rows of a plan start out consistent and leave the others alone.
LEMMA CreateKeepsRows ==
    ASSUME TypeOK, RowInv, NEW p \in PlanInputs, createPlan(p)
    PROVE  RowInv'
<1> DEFINE new == DOMAIN p.tasks
<1>1. PICK fresh \in [new -> RunIds \ DOMAIN runs] :
             /\ \A t, u \in new : fresh[t] = fresh[u] => t = u
             /\ DOMAIN runs' = DOMAIN runs \cup {fresh[t] : t \in new}
             /\ \A r \in DOMAIN runs : runs'[r] = runs[r]
             /\ \A t \in new :
                  runs'[fresh[t]] = NewRun(t, InitialRunStatus(p.tasks[t]), 1)
             /\ DOMAIN tasks \cap new = {}
             /\ DOMAIN tasks' = DOMAIN tasks \cup new
             /\ \A t \in DOMAIN tasks : tasks'[t] = tasks[t]
             /\ \A t \in new :
                  /\ p.tasks[t] \in TaskSpec
                  /\ p.tasks[t].deps \subseteq new
                  /\ tasks'[t] = NewTask(p.tasks[t])
  BY CreateAdds
<1>2. \A t \in new :
        /\ runs'[fresh[t]].task = t /\ runs'[fresh[t]].attempt = 1
        /\ runs'[fresh[t]].status = InitialRunStatus(p.tasks[t])
        /\ runs'[fresh[t]].assignee = None
  <2>1. ASSUME NEW t \in new
        PROVE  runs'[fresh[t]] = NewRun(t, InitialRunStatus(p.tasks[t]), 1)
    BY <1>1
  <2>2. \A t, status, n : LET run == NewRun(t, status, n) IN
          run.task = t /\ run.attempt = n /\ run.status = status /\ run.assignee = None
    BY DEF NewRun
  <2>3. QED
    BY <2>1, <2>2
<1>3. \A t \in new : tasks'[t].spec = p.tasks[t] /\ tasks'[t].status = InitialTaskStatus(p.tasks[t])
  <2>1. ASSUME NEW t \in new
        PROVE  tasks'[t] = NewTask(p.tasks[t])
    BY <1>1
  <2>2. \A spec : NewTask(spec).spec = spec /\ NewTask(spec).status = InitialTaskStatus(spec)
    BY DEF NewTask
  <2>3. QED
    BY <2>1, <2>2
<1>4. \A r \in DOMAIN runs : runs[r].task \in DOMAIN tasks
  BY DEF RowInv, References, TaskOf
<1>5. \A r \in DOMAIN runs' : r \in DOMAIN runs \/ \E t \in new : r = fresh[t]
  BY <1>1
<1>6. \A r \in DOMAIN runs' : runs'[r].task \in new =>
        r \notin DOMAIN runs /\ r = fresh[runs'[r].task]
  BY <1>1, <1>2, <1>4, <1>5
<1>7. \A r \in DOMAIN runs : IsLive(r)' <=> IsLive(r)
  BY <1>1 DEF IsLive
<1>8. \A t \in new : IsLive(fresh[t])'
  BY <1>2 DEF IsLive, InitialRunStatus, EndStatuses
<1>9. artifacts' = artifacts /\ objectives' = Put(objectives, p.key, p)
  BY DEF createPlan
<1>10. References'
  <2>1. \A t \in DOMAIN tasks' : tasks'[t].spec.deps \subseteq DOMAIN tasks'
    BY <1>1, <1>3 DEF RowInv, References
  <2>2. \A r \in DOMAIN runs' : runs'[r].task \in DOMAIN tasks'
    BY <1>1, <1>2, <1>4, <1>5
  <2>3. \A t \in DOMAIN tasks' : \E k \in DOMAIN objectives' : t \in DOMAIN objectives'[k].tasks
    <3>1. /\ p.key \in DOMAIN objectives' /\ objectives'[p.key] = p
          /\ \A k \in DOMAIN objectives : k \in DOMAIN objectives' /\ objectives'[k] = objectives[k]
      BY <1>9 DEF Put, createPlan
    <3>2. QED
      BY <1>1, <3>1 DEF RowInv, References
  <2>4. QED
    BY <2>1, <2>2, <2>3 DEF References, TaskOf
<1>11. LiveRuns'
  <2>1. ASSUME NEW q \in DOMAIN runs', IsLive(q)'
        PROVE  /\ tasks'[runs'[q].task].status \notin EndStatuses
               /\ runs'[q].status = LiveRunStatus(tasks'[runs'[q].task])
    <3>1. CASE q \in DOMAIN runs
      <4>1. IsLive(q) /\ runs'[q] = runs[q] /\ tasks'[runs[q].task] = tasks[runs[q].task]
        BY <1>1, <1>4, <1>7, <2>1, <3>1
      <4>2. QED
        BY <3>1, <4>1 DEF RowInv, LiveRuns, TaskOf
    <3>2. ASSUME NEW t \in new, q = fresh[t]
          PROVE  /\ tasks'[runs'[q].task].status \notin EndStatuses
                 /\ runs'[q].status = LiveRunStatus(tasks'[runs'[q].task])
      BY <1>2, <1>3, <3>2 DEF InitialTaskStatus, EndStatuses, LiveRunStatus
    <3>3. QED
      BY <1>5, <3>1, <3>2
  <2>2. ASSUME NEW q \in DOMAIN runs', IsLive(q)',
               NEW r \in DOMAIN runs', runs'[r].task = runs'[q].task, r # q
        PROVE  ~IsLive(r)' /\ runs'[r].attempt < runs'[q].attempt
    <3>1. q \in DOMAIN runs /\ r \in DOMAIN runs
      BY <1>2, <1>5, <1>6, <2>2
    <3>2. IsLive(q) /\ TaskOf(r) = TaskOf(q)
      BY <1>1, <1>7, <2>2, <3>1 DEF TaskOf
    <3>3. ~IsLive(r) /\ runs[r].attempt < runs[q].attempt
      BY <2>2, <3>1, <3>2 DEF RowInv, LiveRuns
    <3>4. QED
      BY <1>1, <1>7, <3>1, <3>3
  <2>3. ASSUME NEW u \in DOMAIN tasks', tasks'[u].status \notin EndStatuses
        PROVE  \E q \in DOMAIN runs' : runs'[q].task = u /\ IsLive(q)'
    <3>1. CASE u \in new
      BY <1>1, <1>2, <1>8, <3>1
    <3>2. CASE u \in DOMAIN tasks
      <4>1. PICK q \in DOMAIN runs : TaskOf(q) = u /\ IsLive(q)
        BY <1>1, <2>3, <3>2 DEF RowInv, LiveRuns
      <4>2. QED
        BY <1>1, <1>7, <4>1 DEF TaskOf
    <3>3. QED
      BY <1>1, <3>1, <3>2
  <2>4. QED
    BY <2>1, <2>2, <2>3 DEF LiveRuns, TaskOf
<1>12. RetryBudget'
  <2>1. ASSUME NEW q \in DOMAIN runs'
        PROVE  /\ runs'[q].attempt \in 1..tasks'[runs'[q].task].spec.maximumAttempts
               /\ \A r \in DOMAIN runs' :
                    runs'[r].task = runs'[q].task /\ runs'[r].attempt = runs'[q].attempt => r = q
               /\ runs'[q].attempt > 1 => \E r \in DOMAIN runs' :
                    /\ runs'[r].task = runs'[q].task
                    /\ runs'[r].attempt = runs'[q].attempt - 1 /\ runs'[r].status = "FAILED"
    <3>1. CASE q \in DOMAIN runs
      <4>1. /\ runs[q].attempt \in 1..tasks[runs[q].task].spec.maximumAttempts
            /\ \A r \in DOMAIN runs :
                 runs[r].task = runs[q].task /\ runs[r].attempt = runs[q].attempt => r = q
            /\ runs[q].attempt > 1 => \E r \in DOMAIN runs :
                 /\ runs[r].task = runs[q].task
                 /\ runs[r].attempt = runs[q].attempt - 1 /\ runs[r].status = "FAILED"
        BY <1>4, <3>1 DEF RowInv, RetryBudget, RunsOf, TaskOf
      <4>2. \A r \in DOMAIN runs' : runs'[r].task = runs'[q].task => r \in DOMAIN runs
        BY <1>1, <1>2, <1>4, <1>5, <3>1
      <4>3. tasks'[runs'[q].task] = tasks[runs[q].task] /\ runs'[q] = runs[q]
        BY <1>1, <1>4, <3>1
      <4>4. QED
        BY <1>1, <4>1, <4>2, <4>3
    <3>2. ASSUME NEW t \in new, q = fresh[t]
          PROVE  /\ runs'[q].task = t /\ runs'[q].attempt = 1
                 /\ 1 \in 1..tasks'[t].spec.maximumAttempts
                 /\ \A r \in DOMAIN runs' : runs'[r].task = t => r = q
      <4>1. p.tasks[t].maximumAttempts \in 1..32
        BY <1>1 DEF TaskSpec
      <4>2. 1 \in 1..tasks'[t].spec.maximumAttempts
        BY <1>3, <4>1
      <4>3. QED
        BY <1>2, <1>6, <3>2, <4>2
    <3>3. QED
      BY <1>5, <3>1, <3>2
  <2>2. QED
    BY <2>1 DEF RetryBudget, RunsOf, TaskOf
<1>13. BlockedByDependencies'
  <2>1. ASSUME NEW u \in DOMAIN tasks
        PROVE  tasks'[u].status = "BLOCKED" <=>
                 ~\A d \in tasks'[u].spec.deps : tasks'[d].status = "COMPLETED"
    <3>1. tasks[u].status = "BLOCKED" <=>
            ~\A d \in tasks[u].spec.deps : tasks[d].status = "COMPLETED"
      BY DEF RowInv, BlockedByDependencies, DependenciesCompleted
    <3>2. tasks[u].spec.deps \subseteq DOMAIN tasks
      BY DEF RowInv, References
    <3>3. QED
      BY <1>1, <3>1, <3>2
  <2>2. ASSUME NEW u \in new
        PROVE  tasks'[u].status = "BLOCKED" <=>
                 ~\A d \in tasks'[u].spec.deps : tasks'[d].status = "COMPLETED"
    <3>1. \A d \in p.tasks[u].deps : tasks'[d].status # "COMPLETED"
      BY <1>1, <1>3 DEF InitialTaskStatus
    <3>2. tasks'[u].status = "BLOCKED" <=> p.tasks[u].deps # {}
      BY <1>3 DEF InitialTaskStatus
    <3>3. QED
      BY <1>3, <3>1, <3>2
  <2>3. QED
    BY <1>1, <2>1, <2>2 DEF BlockedByDependencies, DependenciesCompleted
<1>14. LevelFour'
  <2>1. ASSUME NEW q \in DOMAIN runs', tasks'[runs'[q].task].spec.authority = 4
        PROVE  runs'[q].status = "AWAITING_APPROVAL" /\ runs'[q].assignee = None
    <3>1. CASE q \in DOMAIN runs
      BY <1>1, <1>4, <2>1, <3>1 DEF RowInv, LevelFour, SpecOf, TaskOf
    <3>2. ASSUME NEW t \in new, q = fresh[t]
          PROVE  runs'[q].status = "AWAITING_APPROVAL" /\ runs'[q].assignee = None
      BY <1>2, <1>3, <2>1, <3>2 DEF InitialRunStatus
    <3>3. QED
      BY <1>5, <3>1, <3>2
  <2>2. ASSUME NEW u \in DOMAIN tasks'
        PROVE  /\ tasks'[u].spec.authority = 4 =>
                    tasks'[u].status \in {"BLOCKED", "AWAITING_APPROVAL"}
               /\ tasks'[u].status = "AWAITING_APPROVAL" => tasks'[u].spec.authority = 4
    BY <1>1, <1>3 DEF RowInv, LevelFour, InitialTaskStatus
  <2>3. QED
    BY <2>1, <2>2 DEF LevelFour, SpecOf, TaskOf
<1>15. Evidence'
  <2>1. ASSUME NEW q \in DOMAIN runs', runs'[q].status = "COMPLETED"
        PROVE  EveryCriterionEvidenced(q)'
    <3>1. q \in DOMAIN runs /\ runs[q].status = "COMPLETED"
      BY <1>1, <1>2, <1>5, <2>1 DEF InitialRunStatus
    <3>2. EveryCriterionEvidenced(q)
      BY <3>1 DEF RowInv, Evidence
    <3>3. SpecOf(q)' = SpecOf(q) /\ EvidencedBy(q)' = EvidencedBy(q)
      BY <1>1, <1>4, <1>9, <3>1 DEF SpecOf, TaskOf, EvidencedBy
    <3>4. QED
      BY <3>2, <3>3 DEF EveryCriterionEvidenced
  <2>2. ASSUME NEW u \in DOMAIN tasks', tasks'[u].status = "COMPLETED"
        PROVE  \E q \in DOMAIN runs' : runs'[q].task = u /\ runs'[q].status = "COMPLETED"
    <3>1. u \in DOMAIN tasks /\ tasks[u].status = "COMPLETED"
      BY <1>1, <1>3, <2>2 DEF InitialTaskStatus
    <3>2. PICK q \in DOMAIN runs : TaskOf(q) = u /\ runs[q].status = "COMPLETED"
      BY <3>1 DEF RowInv, Evidence
    <3>3. QED
      BY <1>1, <3>2 DEF TaskOf
  <2>3. QED
    BY <2>1, <2>2 DEF Evidence, TaskOf
<1>16. QED
  BY <1>10, <1>11, <1>12, <1>13, <1>14, <1>15 DEF RowInv

-----------------------------------------------------------------------------
(* Types and views *)

\* Adding an entry keeps a map's type.
LEMMA PutKeepsType ==
    ASSUME NEW map, NEW K, NEW V, NEW k \in K, NEW v \in V,
           DOMAIN map \subseteq K, \A x \in DOMAIN map : map[x] \in V
    PROVE  /\ DOMAIN Put(map, k, v) \subseteq K
           /\ \A x \in DOMAIN Put(map, k, v) : Put(map, k, v)[x] \in V
BY DEF Put

\* What a caller receives about a typed run row is a view.
LEMMA ViewOfType ==
    ASSUME NEW rec \in RunRecord, NEW r \in RunIds
    PROVE  /\ ViewOf(rec, r) \in View
           /\ ViewOf(rec, r).run = r
           /\ ViewOf(rec, r).version = rec.version
           /\ ViewOf(rec, r).status = rec.status
BY DEF ViewOf, View, RunRecord

\* The rows a plan creates are typed.
LEMMA NewRowsType ==
    ASSUME NEW t \in TaskIds, NEW spec \in TaskSpec
    PROVE  /\ NewTask(spec) \in TaskRecord
           /\ NewRun(t, InitialRunStatus(spec), 1) \in RunRecord
<1>1. InitialTaskStatus(spec) \in TaskStatuses /\ InitialRunStatus(spec) \in RunStatuses
  BY DEF InitialTaskStatus, InitialRunStatus, TaskStatuses, RunStatuses
<1>2. QED
  BY <1>1 DEF NewTask, NewRun, TaskRecord, RunRecord

\* createPlan writes typed rows.
LEMMA CreateKeepsTypes ==
    ASSUME TypeOK, RowInv, NEW p \in PlanInputs, createPlan(p)
    PROVE  TypeOK'
<1> DEFINE new == DOMAIN p.tasks
<1>1. PICK fresh \in [new -> RunIds \ DOMAIN runs] :
        /\ DOMAIN runs' = DOMAIN runs \cup {fresh[t] : t \in new}
        /\ \A r \in DOMAIN runs : runs'[r] = runs[r]
        /\ \A t \in new : runs'[fresh[t]] = NewRun(t, InitialRunStatus(p.tasks[t]), 1)
        /\ DOMAIN tasks' = DOMAIN tasks \cup new
        /\ \A t \in DOMAIN tasks : tasks'[t] = tasks[t]
        /\ \A t \in new : p.tasks[t] \in TaskSpec /\ tasks'[t] = NewTask(p.tasks[t])
  BY CreateAdds
<1>2. p.key \in Keys /\ new \subseteq TaskIds
  BY InputAssumption
<1>3. DOMAIN tasks' \subseteq TaskIds /\ \A t \in DOMAIN tasks' : tasks'[t] \in TaskRecord
  BY <1>1, <1>2, NewRowsType DEF TypeOK
<1>4. DOMAIN runs' \subseteq RunIds /\ \A r \in DOMAIN runs' : runs'[r] \in RunRecord
  <2>1. ASSUME NEW r \in DOMAIN runs'
        PROVE  r \in RunIds /\ runs'[r] \in RunRecord
    <3>1. CASE r \in DOMAIN runs
      BY <1>1, <3>1 DEF TypeOK
    <3>2. ASSUME NEW t \in new, r = fresh[t]
          PROVE  r \in RunIds /\ runs'[r] \in RunRecord
      BY <1>1, <1>2, <3>2, NewRowsType
    <3>3. QED
      BY <1>1, <3>1, <3>2
  <2>2. QED
    BY <2>1
<1>5. DOMAIN objectives' \subseteq Keys /\ \A k \in DOMAIN objectives' : objectives'[k] \in PlanInputs
  <2>1. objectives' = Put(objectives, p.key, p)
    BY DEF createPlan
  <2>2. DOMAIN objectives \subseteq Keys /\ \A k \in DOMAIN objectives : objectives[k] \in PlanInputs
    BY DEF TypeOK
  <2>3. p.key \in Keys /\ p \in PlanInputs
    BY <1>2
  <2>4. QED
    BY <2>1, <2>2, <2>3, PutKeepsType
<1>6. UNCHANGED <<artifacts, runEvents, taskEvents, eventKeys, views>>
  BY DEF createPlan
<1>7. QED
  BY <1>3, <1>4, <1>5, <1>6 DEF TypeOK

\* A caller's view after a call that returns a typed row is typed, and all
\* views stay real when versions only grow.
LEMMA ViewsKeep ==
    ASSUME TypeOK, ViewsAreReal, NEW c \in Callers, NEW r \in DOMAIN runs',
           r \in RunIds, runs'[r] \in RunRecord,
           views' = [views EXCEPT ![c] = ViewOf(runs'[r], r)],
           DOMAIN runs \subseteq DOMAIN runs',
           \A q \in DOMAIN runs : runs'[q] = runs[q] \/ runs'[q].version = runs[q].version + 1
    PROVE  views' \in [Callers -> View \cup {None}] /\ ViewsAreReal'
<1>1. /\ ViewOf(runs'[r], r) \in View
      /\ ViewOf(runs'[r], r).run = r
      /\ ViewOf(runs'[r], r).version = runs'[r].version
      /\ ViewOf(runs'[r], r).status = runs'[r].status
  BY ViewOfType
<1>2. views' \in [Callers -> View \cup {None}]
  BY <1>1 DEF TypeOK
<1>3. runs'[r].version \in Nat
  BY DEF RunRecord
<1>4. ASSUME NEW d \in Callers, views'[d] # None
      PROVE  /\ views'[d].run \in DOMAIN runs'
             /\ views'[d].version <= runs'[views'[d].run].version
             /\ views'[d].version = runs'[views'[d].run].version
                   => views'[d].status = runs'[views'[d].run].status
  <2>1. CASE d = c
    <3>1. views'[d] = ViewOf(runs'[r], r)
      BY <2>1 DEF TypeOK
    <3>2. QED
      BY <1>1, <1>3, <3>1
  <2>2. CASE d # c
    <3>1. views'[d] = views[d]
      BY <2>2 DEF TypeOK
    <3>2. /\ views[d].run \in DOMAIN runs
          /\ views[d].version <= runs[views[d].run].version
          /\ views[d].version = runs[views[d].run].version
                => views[d].status = runs[views[d].run].status
      BY <1>4, <3>1 DEF ViewsAreReal
    <3>3. views[d].version \in Nat /\ runs[views[d].run].version \in Nat
      BY <1>4, <3>1, <3>2 DEF TypeOK, View, RunRecord
    <3>4. QED
      BY <3>1, <3>2, <3>3
  <2>3. QED
    BY <2>1, <2>2
<1>5. QED
  BY <1>2, <1>4 DEF ViewsAreReal

-----------------------------------------------------------------------------
(* Each action keeps the invariant and takes legal steps *)

\* What every action does to the invariant and to existing rows
GoodStep == IInv' /\ WriterHasSeenRun /\ LegalStep

\* createPlan moves no existing row.
LEMMA CreateStep ==
    ASSUME IInv, NEW p \in PlanInputs, createPlan(p)
    PROVE  GoodStep
<1>1. TypeOK' /\ RowInv'
  BY CreateKeepsTypes, CreateKeepsRows DEF IInv
<1>2. /\ DOMAIN runs \subseteq DOMAIN runs' /\ \A r \in DOMAIN runs : runs'[r] = runs[r]
      /\ \A t \in DOMAIN tasks : tasks'[t] = tasks[t]
  BY CreateAdds DEF IInv
<1>3. ViewsAreReal'
  BY <1>2 DEF IInv, ViewsAreReal, createPlan
<1>4. QED
  BY <1>1, <1>2, <1>3 DEF GoodStep, IInv, WriterHasSeenRun, LegalStep

\* readRun changes one caller's view and nothing else.
LEMMA ReadStep ==
    ASSUME IInv, NEW c \in Callers, NEW r \in RunIds, readRun(c, r)
    PROVE  GoodStep
<1>1. UNCHANGED <<objectives, tasks, runs, artifacts, runEvents, taskEvents, eventKeys>>
  BY DEF readRun
<1>2. views' \in [Callers -> View \cup {None}] /\ ViewsAreReal'
  <2>1. /\ r \in DOMAIN runs' /\ runs'[r] \in RunRecord
        /\ views' = [views EXCEPT ![c] = ViewOf(runs'[r], r)]
    BY <1>1 DEF readRun, IInv, TypeOK
  <2>2. QED
    BY <1>1, <2>1, ViewsKeep DEF IInv
<1>3. TypeOK'
  BY <1>1, <1>2 DEF IInv, TypeOK
<1>4. RowInv'
  BY <1>1 DEF IInv, RowInv, References, LiveRuns, RetryBudget, BlockedByDependencies, LevelFour,
              Evidence, EveryCriterionEvidenced, EvidencedBy, TaskOf, SpecOf, RunsOf, IsLive,
              DependenciesCompleted
<1>5. QED
  BY <1>1, <1>2, <1>3, <1>4 DEF GoodStep, IInv, WriterHasSeenRun, LegalStep

\* recordArtifact moves no row.
LEMMA RecordStep ==
    ASSUME IInv, NEW r \in RunIds, NEW id \in ArtifactIds, NEW criterion \in Criteria,
           NEW k \in Keys, recordArtifact(r, id, criterion, k)
    PROVE  GoodStep
<1>1. UNCHANGED <<objectives, tasks, runs, runEvents, taskEvents, views>>
  BY DEF recordArtifact
<1>2. DOMAIN artifacts' \subseteq Keys /\ \A j \in DOMAIN artifacts' : artifacts'[j] \in Artifact
  <2>1. [id |-> id, run |-> r, criterion |-> criterion] \in Artifact
    BY DEF Artifact
  <2>2. artifacts' = Put(artifacts, k, [id |-> id, run |-> r, criterion |-> criterion])
    BY DEF recordArtifact
  <2>3. QED
    BY <2>1, <2>2, PutKeepsType DEF IInv, TypeOK
<1>3. TypeOK'
  BY <1>1, <1>2 DEF IInv, TypeOK, recordArtifact
<1>4. RowInv'
  BY RecordKeepsRows DEF IInv
<1>5. ViewsAreReal'
  BY <1>1 DEF IInv, ViewsAreReal
<1>6. QED
  BY <1>1, <1>3, <1>4, <1>5 DEF GoodStep, IInv, WriterHasSeenRun, LegalStep

\* A move of a run at the version its caller expects: the caller has seen the
\* status it replaces.
LEMMA MoveStep ==
    ASSUME IInv, RowInv', NEW c \in Callers, NEW r \in RunIds,
           NEW s \in RunStatuses,
           IsAtExpectedVersion(c, r),
           RunMoved(r, s), s \in RunTransitions[runs[r].status],
           DOMAIN runs' \subseteq RunIds,
           \A q \in DOMAIN runs' \ DOMAIN runs : runs'[q] \in RunRecord,
           views' = [views EXCEPT ![c] = ViewOf(runs'[r], r)]
    PROVE  /\ \A q \in DOMAIN runs' : runs'[q] \in RunRecord
           /\ views' \in [Callers -> View \cup {None}]
           /\ ViewsAreReal'
           /\ WriterHasSeenRun
           /\ \A q \in DOMAIN runs : runs'[q] # runs[q] =>
                /\ runs'[q].status \in RunTransitions[runs[q].status]
                /\ runs'[q].version = runs[q].version + 1
<1>1. r \in DOMAIN runs /\ views[c] # None /\ views[c].run = r /\ views[c].version = runs[r].version
  BY DEF IsAtExpectedVersion
<1>2. DOMAIN runs \subseteq DOMAIN runs' /\ r \in DOMAIN runs' /\ runs'[r] \in RunRecord
  BY <1>1 DEF RunMoved
<1>3. \A q \in DOMAIN runs : q # r => runs'[q] = runs[q]
  BY DEF RunMoved
<1>4. \A q \in DOMAIN runs' : runs'[q] \in RunRecord
  BY <1>2, <1>3 DEF IInv, TypeOK
<1>5. \A q \in DOMAIN runs : runs'[q] = runs[q] \/ runs'[q].version = runs[q].version + 1
  BY <1>3 DEF RunMoved
<1>6. views' \in [Callers -> View \cup {None}] /\ ViewsAreReal'
  BY <1>2, <1>5, ViewsKeep DEF IInv
<1>7. views[c].status = runs[r].status
  BY <1>1 DEF IInv, ViewsAreReal
<1>8. WriterHasSeenRun
  BY <1>1, <1>3, <1>7 DEF WriterHasSeenRun
<1>9. QED
  BY <1>3, <1>4, <1>6, <1>8 DEF RunMoved

\* reserveAssignment.
LEMMA ReserveStep ==
    ASSUME IInv, NEW c \in Callers, NEW r \in RunIds, NEW a \in Assignees,
           NEW k \in Keys, reserveAssignment(c, r, a, k)
    PROVE  GoodStep
<1>1. /\ r \in DOMAIN runs /\ DOMAIN runs' = DOMAIN runs
      /\ RunMoved(r, "ASSIGNED") /\ TaskMoved(TaskOf(r), "ASSIGNED")
  BY ReserveMoves DEF IInv
<1>2. /\ IsAtExpectedVersion(c, r) /\ SpecOf(r).authority # 4
      /\ runs[r].status = "PREPARED" /\ tasks[TaskOf(r)].status = "READY"
      /\ views' = [views EXCEPT ![c] = ViewOf(runs'[r], r)]
      /\ eventKeys' = eventKeys \cup {k}
      /\ UNCHANGED <<objectives, artifacts, runEvents, taskEvents>>
  BY DEF reserveAssignment
<1>3. RowInv'
  BY <1>1, <1>2, MoveTogether DEF IInv, IsLive, EndStatuses
<1>4. "ASSIGNED" \in RunStatuses /\ "ASSIGNED" \in RunTransitions[runs[r].status]
  BY <1>2 DEF RunStatuses, RunTransitions
<1>5. /\ \A q \in DOMAIN runs' : runs'[q] \in RunRecord
      /\ views' \in [Callers -> View \cup {None}]
      /\ ViewsAreReal' /\ WriterHasSeenRun
      /\ \A q \in DOMAIN runs : runs'[q] # runs[q] =>
           /\ runs'[q].status \in RunTransitions[runs[q].status]
           /\ runs'[q].version = runs[q].version + 1
  <2>1. DOMAIN runs' \subseteq RunIds
    BY <1>1 DEF IInv, TypeOK
  <2>2. QED
    BY <1>1, <1>2, <1>3, <1>4, <2>1, MoveStep
<1>6. TypeOK'
  <2>1. DOMAIN tasks' \subseteq TaskIds /\ \A t \in DOMAIN tasks' : tasks'[t] \in TaskRecord
    BY <1>1 DEF TaskMoved, IInv, TypeOK
  <2>2. QED
    BY <1>1, <1>2, <1>5, <2>1 DEF IInv, TypeOK
<1>7. LegalStep
  <2>1. "ASSIGNED" \in TaskTransitions["READY"]
    BY DEF TaskTransitions, TaskStatuses
  <2>2. QED
    BY <1>1, <1>2, <1>5, <2>1 DEF LegalStep, TaskMoved
<1>8. QED
  BY <1>3, <1>5, <1>6, <1>7 DEF GoodStep, IInv

\* startRun.
LEMMA StartStep ==
    ASSUME IInv, NEW c \in Callers, NEW r \in RunIds, NEW k \in Keys, startRun(c, r, k)
    PROVE  GoodStep
<1>1. /\ r \in DOMAIN runs /\ DOMAIN runs' = DOMAIN runs
      /\ RunMoved(r, "RUNNING") /\ TaskMoved(TaskOf(r), "RUNNING")
  BY StartMoves DEF IInv
<1> DEFINE event == [action |-> "run.status.changed", run |-> r]
<1>2. /\ IsAtExpectedVersion(c, r) /\ SpecOf(r).authority # 4
      /\ runs[r].status = "ASSIGNED" /\ tasks[TaskOf(r)].status = "ASSIGNED"
      /\ views' = [views EXCEPT ![c] = ViewOf(runs'[r], r)]
      /\ runEvents' = Put(runEvents, k, event)
      /\ UNCHANGED <<objectives, artifacts, taskEvents, eventKeys>>
  BY DEF startRun
<1>3. RowInv'
  BY <1>1, <1>2, MoveTogether DEF IInv, IsLive, EndStatuses
<1>4. "RUNNING" \in RunStatuses /\ "RUNNING" \in RunTransitions[runs[r].status]
  BY <1>2 DEF RunStatuses, RunTransitions
<1>5. /\ \A q \in DOMAIN runs' : runs'[q] \in RunRecord
      /\ views' \in [Callers -> View \cup {None}]
      /\ ViewsAreReal' /\ WriterHasSeenRun
      /\ \A q \in DOMAIN runs : runs'[q] # runs[q] =>
           /\ runs'[q].status \in RunTransitions[runs[q].status]
           /\ runs'[q].version = runs[q].version + 1
  <2>1. DOMAIN runs' \subseteq RunIds
    BY <1>1 DEF IInv, TypeOK
  <2>2. QED
    BY <1>1, <1>2, <1>3, <1>4, <2>1, MoveStep
<1>6. TypeOK'
  <2>1. DOMAIN tasks' \subseteq TaskIds /\ \A t \in DOMAIN tasks' : tasks'[t] \in TaskRecord
    BY <1>1 DEF TaskMoved, IInv, TypeOK
  <2>2. event \in RunEvent
    BY DEF RunEvent
  <2> HIDE DEF event
  <2>3. DOMAIN runEvents' \subseteq Keys /\ \A j \in DOMAIN runEvents' : runEvents'[j] \in RunEvent
    BY <1>2, <2>2, PutKeepsType DEF IInv, TypeOK
  <2>4. QED
    BY <1>1, <1>2, <1>5, <2>1, <2>3 DEF IInv, TypeOK
<1>7. LegalStep
  <2>1. "RUNNING" \in TaskTransitions["ASSIGNED"]
    BY DEF TaskTransitions, TaskStatuses
  <2>2. QED
    BY <1>1, <1>2, <1>5, <2>1 DEF LegalStep, TaskMoved
<1>8. QED
  BY <1>3, <1>5, <1>6, <1>7 DEF GoodStep, IInv

\* The event under `key:run` and the code under `key:task` that end an attempt
\* keep their types.
LEMMA EndEventsType ==
    ASSUME TypeOK, NEW r \in RunIds, NEW k \in Keys, NEW code \in Codes \cup {None},
           NEW action \in {"run.status.changed", "run.failed", "run.completed"},
           runEvents' = Put(runEvents, k, [action |-> action, run |-> r]),
           taskEvents' = Put(taskEvents, k, code)
    PROVE  /\ DOMAIN runEvents' \subseteq Keys
           /\ \A j \in DOMAIN runEvents' : runEvents'[j] \in RunEvent
           /\ DOMAIN taskEvents' \subseteq Keys
           /\ \A j \in DOMAIN taskEvents' : taskEvents'[j] \in Codes \cup {None}
<1> DEFINE event == [action |-> action, run |-> r]
<1>1. event \in RunEvent
  BY DEF RunEvent
<1>2. runEvents' = Put(runEvents, k, event)
  OBVIOUS
<1> HIDE DEF event
<1>3. DOMAIN runEvents' \subseteq Keys /\ \A j \in DOMAIN runEvents' : runEvents'[j] \in RunEvent
  BY <1>1, <1>2, PutKeepsType DEF TypeOK
<1>4. /\ DOMAIN taskEvents' \subseteq Keys
      /\ \A j \in DOMAIN taskEvents' : taskEvents'[j] \in Codes \cup {None}
  BY PutKeepsType DEF TypeOK
<1>5. QED
  BY <1>3, <1>4

\* failRun without a retry.
LEMMA FailStep ==
    ASSUME IInv, NEW c \in Callers, NEW r \in RunIds, NEW code \in Codes,
           NEW k \in Keys, failRunForGood(c, r, code, k)
    PROVE  GoodStep
<1>1. PICK end \in {"FAILED", "STOPPED"} :
        /\ r \in DOMAIN runs /\ DOMAIN runs' = DOMAIN runs
        /\ RunMoved(r, end) /\ TaskMoved(TaskOf(r), end)
  BY FailMoves DEF IInv
<1>2. /\ IsAtExpectedVersion(c, r)
      /\ runs[r].status \in {"ASSIGNED", "RUNNING"}
      /\ tasks[TaskOf(r)].status \in {"ASSIGNED", "RUNNING"}
      /\ views' = [views EXCEPT ![c] = ViewOf(runs'[r], r)]
      /\ taskEvents' = Put(taskEvents, k, code)
      /\ UNCHANGED <<objectives, artifacts, eventKeys>>
  BY DEF failRunForGood, MayFail
<1>3. RowInv'
  BY <1>1, <1>2, MoveTogether, AssignedIsNotLevelFour DEF IInv, RowInv, IsLive, EndStatuses
<1>4. end \in RunStatuses /\ end \in RunTransitions[runs[r].status]
  BY <1>2 DEF RunStatuses, RunTransitions
<1>5. /\ \A q \in DOMAIN runs' : runs'[q] \in RunRecord
      /\ views' \in [Callers -> View \cup {None}]
      /\ ViewsAreReal' /\ WriterHasSeenRun
      /\ \A q \in DOMAIN runs : runs'[q] # runs[q] =>
           /\ runs'[q].status \in RunTransitions[runs[q].status]
           /\ runs'[q].version = runs[q].version + 1
  <2>1. DOMAIN runs' \subseteq RunIds
    BY <1>1 DEF IInv, TypeOK
  <2>2. QED
    BY <1>1, <1>2, <1>3, <1>4, <2>1, MoveStep
<1>6. TypeOK'
  <2>1. DOMAIN tasks' \subseteq TaskIds /\ \A t \in DOMAIN tasks' : tasks'[t] \in TaskRecord
    BY <1>1 DEF TaskMoved, IInv, TypeOK
  <2>2. PICK action \in {"run.status.changed", "run.failed", "run.completed"} :
          runEvents' = Put(runEvents, k, [action |-> action, run |-> r])
    <3>1. CASE ShouldStop(r, code)
      <4>1. runEvents' = Put(runEvents, k, [action |-> "run.status.changed", run |-> r])
        BY <3>1 DEF failRunForGood
      <4>2. QED
        BY <4>1
    <3>2. CASE ~ShouldStop(r, code)
      <4>1. runEvents' = Put(runEvents, k, [action |-> "run.failed", run |-> r])
        BY <3>2 DEF failRunForGood
      <4>2. QED
        BY <4>1
    <3>3. QED
      BY <3>1, <3>2
  <2>3. /\ DOMAIN runEvents' \subseteq Keys
        /\ \A j \in DOMAIN runEvents' : runEvents'[j] \in RunEvent
        /\ DOMAIN taskEvents' \subseteq Keys
        /\ \A j \in DOMAIN taskEvents' : taskEvents'[j] \in Codes \cup {None}
    BY <1>2, <2>2, EndEventsType DEF IInv
  <2>4. QED
    BY <1>1, <1>2, <1>5, <2>1, <2>3 DEF IInv, TypeOK
<1>7. LegalStep
  <2>1. end \in TaskTransitions["ASSIGNED"] /\ end \in TaskTransitions["RUNNING"]
    BY DEF TaskTransitions, TaskStatuses
  <2>2. QED
    BY <1>1, <1>2, <1>5, <2>1 DEF LegalStep, TaskMoved
<1>8. QED
  BY <1>3, <1>5, <1>6, <1>7 DEF GoodStep, IInv

\* failRun with a retry.
LEMMA RetryStep ==
    ASSUME IInv, NEW c \in Callers, NEW r \in RunIds, NEW code \in Codes,
           NEW k \in Keys, failRunAndRetry(c, r, code, k)
    PROVE  GoodStep
<1>1. PICK fresh \in RunIds \ DOMAIN runs :
        /\ r \in DOMAIN runs /\ DOMAIN runs' = DOMAIN runs \cup {fresh}
        /\ RunMoved(r, "FAILED")
        /\ runs'[fresh] \in RunRecord
        /\ TaskMoved(TaskOf(r), "READY")
  BY RetryMoves DEF IInv
<1>2. /\ IsAtExpectedVersion(c, r)
      /\ runs[r].status \in {"ASSIGNED", "RUNNING"}
      /\ tasks[TaskOf(r)].status \in {"ASSIGNED", "RUNNING"}
      /\ views' = [views EXCEPT ![c] = ViewOf(runs'[r], r)]
      /\ runEvents' = Put(runEvents, k, [action |-> "run.failed", run |-> r])
      /\ taskEvents' = Put(taskEvents, k, code)
      /\ UNCHANGED <<objectives, artifacts, eventKeys>>
  BY DEF failRunAndRetry, MayFail
<1>3. RowInv'
  BY RetryKeepsRows DEF IInv
<1>4. "FAILED" \in RunStatuses /\ "FAILED" \in RunTransitions[runs[r].status]
  BY <1>2 DEF RunStatuses, RunTransitions
<1>5. /\ \A q \in DOMAIN runs' : runs'[q] \in RunRecord
      /\ views' \in [Callers -> View \cup {None}]
      /\ ViewsAreReal' /\ WriterHasSeenRun
      /\ \A q \in DOMAIN runs : runs'[q] # runs[q] =>
           /\ runs'[q].status \in RunTransitions[runs[q].status]
           /\ runs'[q].version = runs[q].version + 1
  <2>1. DOMAIN runs' \subseteq RunIds
    BY <1>1 DEF IInv, TypeOK
  <2>2. \A q \in DOMAIN runs' \ DOMAIN runs : runs'[q] \in RunRecord
    BY <1>1
  <2>3. QED
    BY <1>1, <1>2, <1>3, <1>4, <2>1, <2>2, MoveStep
<1>6. TypeOK'
  <2>1. DOMAIN tasks' \subseteq TaskIds /\ \A t \in DOMAIN tasks' : tasks'[t] \in TaskRecord
    BY <1>1 DEF TaskMoved, IInv, TypeOK
  <2>2. /\ DOMAIN runEvents' \subseteq Keys
        /\ \A j \in DOMAIN runEvents' : runEvents'[j] \in RunEvent
        /\ DOMAIN taskEvents' \subseteq Keys
        /\ \A j \in DOMAIN taskEvents' : taskEvents'[j] \in Codes \cup {None}
    BY <1>2, EndEventsType DEF IInv
  <2>3. QED
    BY <1>1, <1>2, <1>5, <2>1, <2>2 DEF IInv, TypeOK
<1>7. LegalStep
  <2>1. "READY" \in TaskTransitions["ASSIGNED"] /\ "READY" \in TaskTransitions["RUNNING"]
    BY DEF TaskTransitions, TaskStatuses
  <2>2. QED
    BY <1>1, <1>2, <1>5, <2>1 DEF LegalStep, TaskMoved
<1>8. QED
  BY <1>3, <1>5, <1>6, <1>7 DEF GoodStep, IInv

\* completeRun.
LEMMA CompleteStep ==
    ASSUME IInv, NEW c \in Callers, NEW r \in RunIds, NEW k \in Keys, completeRun(c, r, k)
    PROVE  GoodStep
<1> DEFINE t0 == TaskOf(r)
<1>1. /\ r \in DOMAIN runs /\ DOMAIN runs' = DOMAIN runs
      /\ RunMoved(r, "COMPLETED")
      /\ DOMAIN tasks' = DOMAIN tasks
      /\ tasks'[t0] = Moved(tasks[t0], "COMPLETED")
      /\ \A t \in DOMAIN tasks : t # t0 =>
           tasks'[t] = IF t \in ReleasedBy(t0)
                       THEN Moved(tasks[t], ReleasedStatus(tasks[t].spec))
                       ELSE tasks[t]
      /\ \A t \in DOMAIN tasks : tasks'[t] \in TaskRecord
  BY CompleteMoves DEF IInv
<1>2. /\ IsAtExpectedVersion(c, r)
      /\ runs[r].status = "RUNNING" /\ tasks[t0].status = "RUNNING"
      /\ views' = [views EXCEPT ![c] = ViewOf(runs'[r], r)]
      /\ runEvents' = Put(runEvents, k, [action |-> "run.completed", run |-> r])
      /\ taskEvents' = Put(taskEvents, k, None)
      /\ UNCHANGED <<objectives, artifacts, eventKeys>>
  BY DEF completeRun
<1>3. RowInv'
  BY CompleteKeepsRows DEF IInv
<1>4. "COMPLETED" \in RunStatuses /\ "COMPLETED" \in RunTransitions[runs[r].status]
  BY <1>2 DEF RunStatuses, RunTransitions
<1>5. /\ \A q \in DOMAIN runs' : runs'[q] \in RunRecord
      /\ views' \in [Callers -> View \cup {None}]
      /\ ViewsAreReal' /\ WriterHasSeenRun
      /\ \A q \in DOMAIN runs : runs'[q] # runs[q] =>
           /\ runs'[q].status \in RunTransitions[runs[q].status]
           /\ runs'[q].version = runs[q].version + 1
  <2>1. DOMAIN runs' \subseteq RunIds
    BY <1>1 DEF IInv, TypeOK
  <2>2. QED
    BY <1>1, <1>2, <1>3, <1>4, <2>1, MoveStep
<1>6. TypeOK'
  <2>1. DOMAIN tasks' \subseteq TaskIds /\ \A t \in DOMAIN tasks' : tasks'[t] \in TaskRecord
    BY <1>1 DEF IInv, TypeOK
  <2>2. /\ DOMAIN runEvents' \subseteq Keys
        /\ \A j \in DOMAIN runEvents' : runEvents'[j] \in RunEvent
        /\ DOMAIN taskEvents' \subseteq Keys
        /\ \A j \in DOMAIN taskEvents' : taskEvents'[j] \in Codes \cup {None}
    BY <1>2, EndEventsType DEF IInv
  <2>3. QED
    BY <1>1, <1>2, <1>5, <2>1, <2>2 DEF IInv, TypeOK
<1>7. ASSUME NEW t \in DOMAIN tasks, tasks'[t] # tasks[t]
      PROVE  /\ tasks'[t].status \in TaskTransitions[tasks[t].status]
             /\ tasks'[t].version = tasks[t].version + 1
  <2>1. tasks[t] \in TaskRecord
    BY DEF IInv, TypeOK
  <2>2. CASE t = t0
    <3>1. tasks'[t].status = "COMPLETED" /\ tasks'[t].version = tasks[t].version + 1
      BY <1>1, <2>1, <2>2, MovedTask DEF TaskStatuses
    <3>2. QED
      BY <1>2, <2>2, <3>1 DEF TaskTransitions, TaskStatuses
  <2>3. CASE t # t0
    <3>1. t \in ReleasedBy(t0) /\ tasks'[t] = Moved(tasks[t], ReleasedStatus(tasks[t].spec))
      BY <1>1, <1>7, <2>3
    <3>2. tasks[t].status = "BLOCKED"
      BY <3>1 DEF ReleasedBy
    <3>3. ReleasedStatus(tasks[t].spec) \in {"READY", "AWAITING_APPROVAL"}
      BY DEF ReleasedStatus
    <3>4. /\ tasks'[t].status = ReleasedStatus(tasks[t].spec)
          /\ tasks'[t].version = tasks[t].version + 1
      BY <2>1, <3>1, <3>3, MovedTask DEF TaskStatuses
    <3>5. QED
      BY <3>2, <3>3, <3>4 DEF TaskTransitions, TaskStatuses
  <2>4. QED
    BY <2>2, <2>3
<1>8. QED
  BY <1>3, <1>5, <1>6, <1>7 DEF GoodStep, IInv, LegalStep

-----------------------------------------------------------------------------
(* The theorems *)

\* The empty tables satisfy the invariant.
LEMMA StartsWell == Init => IInv
BY DEF Init, IInv, TypeOK, RowInv, References, LiveRuns, RetryBudget, BlockedByDependencies,
       LevelFour, Evidence, ViewsAreReal, EmptyMap

\* Every step of the specification keeps the invariant and is legal.
LEMMA EveryStep == IInv /\ [Next]_vars => IInv' /\ [GoodStep]_vars
<1> SUFFICES ASSUME IInv, [Next]_vars
             PROVE  IInv' /\ [GoodStep]_vars
  OBVIOUS
<1>1. \A r \in RunIds :
        /\ AssignKeys[r] \subseteq Keys /\ ArtifactKeys[r] \subseteq Keys
        /\ StartKeys[r] \subseteq Keys /\ FailKeys[r] \subseteq Keys
        /\ CompleteKeys[r] \subseteq Keys
  BY InputAssumption
<1>2. ASSUME NEW p \in PlanInputs, createPlan(p) PROVE GoodStep
  BY <1>2, CreateStep
<1>3. ASSUME NEW c \in Callers, NEW r \in RunIds, RunNext(c, r) PROVE GoodStep
  <2>1. CASE readRun(c, r)
    BY <2>1, ReadStep
  <2>2. ASSUME NEW a \in Assignees, NEW k \in AssignKeys[r], reserveAssignment(c, r, a, k)
        PROVE  GoodStep
    BY <1>1, <2>2, ReserveStep
  <2>3. ASSUME NEW k \in StartKeys[r], startRun(c, r, k) PROVE GoodStep
    BY <1>1, <2>3, StartStep
  <2>4. ASSUME NEW code \in Codes, NEW k \in FailKeys[r], failRunForGood(c, r, code, k)
        PROVE  GoodStep
    BY <1>1, <2>4, FailStep
  <2>5. ASSUME NEW code \in Codes, NEW k \in FailKeys[r], failRunAndRetry(c, r, code, k)
        PROVE  GoodStep
    BY <1>1, <2>5, RetryStep
  <2>6. ASSUME NEW k \in CompleteKeys[r], completeRun(c, r, k) PROVE GoodStep
    BY <1>1, <2>6, CompleteStep
  <2>7. QED
    BY <1>3, <2>1, <2>2, <2>3, <2>4, <2>5, <2>6 DEF RunNext
<1>4. ASSUME NEW r \in RunIds, NEW id \in ArtifactIds, NEW criterion \in Criteria, NEW k \in Keys,
             recordArtifact(r, id, criterion, k)
      PROVE  GoodStep
  BY <1>4, RecordStep
<1>5. CASE UNCHANGED vars
  BY <1>5 DEF vars, IInv, TypeOK, RowInv, References, LiveRuns, RetryBudget,
              BlockedByDependencies, LevelFour, Evidence, ViewsAreReal, EveryCriterionEvidenced,
              EvidencedBy, TaskOf, SpecOf, RunsOf, IsLive, DependenciesCompleted
<1>6. CASE Next
  BY <1>2, <1>3, <1>4, <1>6 DEF Next, GoodStep
<1>7. QED
  BY <1>5, <1>6

\* The inductive invariant holds in every reachable state, for every set of
\* callers, plans, ids and keys.
THEOREM InductiveInvariant == Spec => []IInv
<1>1. QED
  BY StartsWell, EveryStep, PTL DEF Spec

\* The rows of every table keep their types: no run is ever BLOCKED or READY,
\* no key is stored that no caller sent.
THEOREM TypeCorrect == Spec => []TypeOK
<1>1. IInv => TypeOK
  BY DEF IInv
<1>2. QED
  BY <1>1, InductiveInvariant, PTL

\* A task that has not ended has exactly one live run, at the status the task
\* says, and an ended task none.
THEOREM OneLiveRunHolds == Spec => []OneLiveRun
<1>1. IInv => OneLiveRun
  <2> SUFFICES ASSUME IInv, NEW t \in DOMAIN tasks
               PROVE  IF tasks[t].status \in EndStatuses
                      THEN \A r \in RunsOf(t) : ~IsLive(r)
                      ELSE \E r \in RunsOf(t) :
                             /\ runs[r].status = LiveRunStatus(tasks[t])
                             /\ \A q \in RunsOf(t) : IsLive(q) => q = r
    BY DEF OneLiveRun
  <2>1. CASE tasks[t].status \in EndStatuses
    BY <2>1 DEF IInv, RowInv, LiveRuns, RunsOf
  <2>2. CASE tasks[t].status \notin EndStatuses
    BY <2>2 DEF IInv, RowInv, LiveRuns, RunsOf
  <2>3. QED
    BY <2>1, <2>2
<1>2. QED
  BY <1>1, InductiveInvariant, PTL

\* A task's attempts are numbered without a gap within its retry budget.
THEOREM RetryBudgetHolds == Spec => []RetryBudget
<1>1. IInv => RetryBudget
  BY DEF IInv, RowInv
<1>2. QED
  BY <1>1, InductiveInvariant, PTL

\* A task is BLOCKED exactly while a dependency is not COMPLETED.
THEOREM BlockedByDependenciesHolds == Spec => []BlockedByDependencies
<1>1. IInv => BlockedByDependencies
  BY DEF IInv, RowInv
<1>2. QED
  BY <1>1, InductiveInvariant, PTL

\* A completed task has a completed run that evidences every criterion itself.
THEOREM CompletionIsEvidencedHolds == Spec => []CompletionIsEvidenced
<1>1. IInv => CompletionIsEvidenced
  BY DEF IInv, RowInv, Evidence, CompletionIsEvidenced, EveryCriterionEvidenced, RunsOf, SpecOf
<1>2. QED
  BY <1>1, InductiveInvariant, PTL

\* An approval can be bound to a run exactly when it is Level 4 and its
\* dependencies are done, and Level-4 runs never leave that state.
THEOREM ApprovalBindingIsReadyHolds == Spec => []ApprovalBindingIsReady
<1>1. IInv => ApprovalBindingIsReady
  <2> SUFFICES ASSUME IInv, NEW r \in DOMAIN runs
               PROVE  /\ ApprovalReady(r) <=>
                           SpecOf(r).authority = 4 /\ DependenciesCompleted(TaskOf(r))
                      /\ SpecOf(r).authority = 4 => runs[r].status = "AWAITING_APPROVAL"
    BY DEF ApprovalBindingIsReady
  <2>1. TaskOf(r) \in DOMAIN tasks
    BY DEF IInv, RowInv, References
  <2>2. tasks[TaskOf(r)].status = "BLOCKED" <=> ~DependenciesCompleted(TaskOf(r))
    BY <2>1 DEF IInv, RowInv, BlockedByDependencies
  <2>3. SpecOf(r).authority = 4 =>
          /\ runs[r].status = "AWAITING_APPROVAL" /\ runs[r].assignee = None
          /\ tasks[TaskOf(r)].status \in {"BLOCKED", "AWAITING_APPROVAL"}
    BY <2>1 DEF IInv, RowInv, LevelFour, SpecOf
  <2>4. QED
    BY <2>2, <2>3 DEF ApprovalReady
<1>2. QED
  BY <1>1, InductiveInvariant, PTL

\* A run's status only changes at the hands of a caller that had seen the
\* status it replaces.
THEOREM NoStaleWriteHolds == Spec => NoStaleWrite
<1>1. [GoodStep]_vars => [WriterHasSeenRun]_vars
  BY DEF GoodStep
<1>2. QED
  BY <1>1, StartsWell, EveryStep, PTL DEF Spec, NoStaleWrite

\* Every status written is legal from the one it replaces and advances the
\* version by one.
THEOREM TransitionsAreLegalHolds == Spec => TransitionsAreLegal
<1>1. [GoodStep]_vars => [LegalStep]_vars
  BY DEF GoodStep
<1>2. QED
  BY <1>1, StartsWell, EveryStep, PTL DEF Spec, TransitionsAreLegal
=============================================================================
