------------------------------ MODULE CostLedger ------------------------------
(***************************************************************************)
(* The durable spend boundary of the control plane (AcpCostGovernance).    *)
(* A usage message of a run is recorded in one serializable transaction,   *)
(* which takes the clock of its receipt, locks the task and the budget     *)
(* policies of that instant, sums what the ledger already holds, and adds  *)
(* an entry with the new totals if the workspace's and the task's budgets  *)
(* for the period, and the task's budget over all periods, allow it.       *)
(*                                                                         *)
(* The transaction reads the ledger as it was when it began (snapshot), so *)
(* the locks order transactions without showing them each other's entries: *)
(* what keeps two of them from spending the same money is the database's   *)
(* check at commit.                                                        *)
(***************************************************************************)
EXTENDS Naturals, Sequences, SequencesExt

CONSTANTS
    None,
    Usages,        \* ids of usage messages: naturals, in the order of their receipts' ids
    Message,       \* what each says: [run, task, currency, cost, compute]
    Task,          \* what each task was given: [cost, compute, currency, version]
    Policies,      \* budget policies: [id, scope, task, currency, limit, from, until, version, intact]
    Actors,        \* [level, kind]
    MaxSafe,       \* MAX_SAFE_BIGINT
    Horizon        \* last instant of the clock (bound)

VARIABLES
    now,           \* the database's clock
    ledger,        \* committed entries, in the order of their commits
    recorders      \* per message: the transaction that records it

vars == <<now, ledger, recorders>>

InForce(p, t) == p.from <= t /\ t < p.until

\* The database refuses a policy that overlaps another of its scope.
PoliciesAssumption ==
    \A p, q \in Policies :
        /\ p.from < p.until /\ p.limit <= MaxSafe
        /\ p # q /\ <<p.scope, p.task, p.currency>> = <<q.scope, q.task, q.currency>>
               => p.until <= q.from \/ q.until <= p.from

Idle == [state |-> "idle", snapshot |-> 0, recordedAt |-> None, entry |-> None]

Init ==
    /\ now = 0
    /\ ledger = <<>>
    /\ recorders = [u \in Usages |-> Idle]

----------------------------------------------------------------------------
\* Sums over entries.

CostOf(entries) == FoldLeft(LAMBDA sum, e : sum + e.cost, 0, entries)

ComputeOf(entries) == FoldLeft(LAMBDA sum, e : sum + e.compute, 0, entries)

\* _sum over the entries of a policy: of the workspace or of its task, in its
\* currency, recorded in its period.
spendUnder(p, entries) ==
    CostOf(SelectSeq(entries, LAMBDA e : /\ e.currency = p.currency /\ InForce(p, e.recordedAt)
                                         /\ p.scope = "TASK" => e.task = p.task))

\* _sum over every entry of a task, of any period.
lifetimeOf(task, entries) == SelectSeq(entries, LAMBDA e : e.task = task)

----------------------------------------------------------------------------
\* The pure checks.

\* A hash binds every field of a policy; a row that was altered has another.
policyHash(p) == IF p.intact THEN p.id ELSE None

assertBudgetAllows(workspaceSpend, workspaceLimit, taskSpend, taskLimit, delta) ==
    /\ \A v \in {workspaceSpend, workspaceLimit, taskSpend, taskLimit, delta} : v <= MaxSafe
    /\ workspaceSpend + delta <= workspaceLimit
    /\ taskSpend + delta <= taskLimit

\* The checksum binds the entry and the limits of its policies, and is refused
\* for totals no sum could have: it is None, or the fields it is taken over.
costLedgerChecksum(e, workspacePolicy, taskPolicy) ==
    IF /\ e.cost <= e.workspaceSpend /\ e.workspaceSpend <= workspacePolicy.limit
       /\ e.cost <= e.taskSpend /\ e.taskSpend <= taskPolicy.limit
       /\ \A v \in {e.cost, e.compute, workspacePolicy.limit, taskPolicy.limit} : v <= MaxSafe
       /\ e.from <= e.recordedAt /\ e.recordedAt < e.until
    THEN <<e.usage, e.run, e.task, e.currency, e.cost, e.compute, e.workspacePolicy, e.taskPolicy, e.workspaceSpend,
           e.taskSpend, workspacePolicy.limit, taskPolicy.limit, e.from, e.until, e.recordedAt>>
    ELSE None

authorizedTo(actor, level) == actor.kind # "RUNTIME" /\ actor.level >= level

----------------------------------------------------------------------------
\* Transactions.

InFlight == {"begun", "task", "policies", "inserted"}

Set(u, state) == recorders' = [recorders EXCEPT ![u].state = state]

\* A refusal or a failure rolls everything back; the message may be sent again.
RollBack(u) == recorders' = [recorders EXCEPT ![u] = Idle]

\* Messages of one run belong to one session, which admits one at a time. The
\* totals of the run are checked against the task's maxima before the ledger is
\* asked, and the receipt takes the database's clock.
admitUsage(u, actor) ==
    LET message == Message[u]
        task == Task[message.task]
        previous == SelectSeq(ledger, LAMBDA e : e.run = message.run)
    IN  /\ recorders[u].state = "idle"
        /\ \A v \in Usages : Message[v].run = message.run => recorders[v].state \notin InFlight
        /\ authorizedTo(actor, 3)
        /\ IF /\ message.currency = task.currency
              /\ CostOf(previous) + message.cost <= task.cost
              /\ ComputeOf(previous) + message.compute <= task.compute
           THEN recorders' = [recorders EXCEPT ![u].state = "begun", ![u].snapshot = Len(ledger), ![u].recordedAt = now]
           ELSE RollBack(u)
        /\ UNCHANGED <<now, ledger>>

lockTask(u) ==
    /\ recorders[u].state = "begun"
    /\ \A v \in Usages : Message[v].task = Message[u].task => recorders[v].state \notin InFlight \ {"begun"}
    /\ Set(u, "task")
    /\ UNCHANGED <<now, ledger>>

\* Every policy of the currency that is in force at the receipt's clock,
\* whatever its task, the workspace's first.
lockedPolicies(u) ==
    {p \in Policies : p.currency = Message[u].currency /\ InForce(p, recorders[u].recordedAt)}

lockPolicies(u) ==
    /\ recorders[u].state = "task"
    /\ \A v \in Usages :
          recorders[v].state \in {"policies", "inserted"} => lockedPolicies(u) \cap lockedPolicies(v) = {}
    /\ Set(u, "policies")
    /\ UNCHANGED <<now, ledger>>

\* The policies in force that apply to the message.
applicable(u, scope) ==
    {p \in lockedPolicies(u) : p.scope = scope /\ (scope = "TASK" => p.task = Message[u].task)}

\* Exactly one policy of each scope, unaltered, of one period, and the task's
\* own: its version, and no more than the task was given.
bound(u, workspacePolicy, taskPolicy) ==
    /\ applicable(u, "WORKSPACE") = {workspacePolicy} /\ applicable(u, "TASK") = {taskPolicy}
    /\ policyHash(workspacePolicy) = workspacePolicy.id
    /\ policyHash(taskPolicy) = taskPolicy.id
    /\ taskPolicy.version = Task[Message[u].task].version
    /\ taskPolicy.from = workspacePolicy.from /\ taskPolicy.until = workspacePolicy.until
    /\ taskPolicy.limit <= Task[Message[u].task].cost

\* The aggregates, over the snapshot, leave room for the message.
affordable(u, workspacePolicy, taskPolicy, entries) ==
    LET message == Message[u]
        task == Task[message.task]
        lifetime == lifetimeOf(message.task, entries)
    IN  /\ CostOf(lifetime) + message.cost <= task.cost
        /\ ComputeOf(lifetime) + message.compute <= task.compute
        /\ assertBudgetAllows(spendUnder(workspacePolicy, entries), workspacePolicy.limit,
                              spendUnder(taskPolicy, entries), taskPolicy.limit, message.cost)

entryFor(u, workspacePolicy, taskPolicy, entries) ==
    LET e == [usage |-> u, run |-> Message[u].run, task |-> Message[u].task, currency |-> Message[u].currency,
              cost |-> Message[u].cost, compute |-> Message[u].compute,
              workspacePolicy |-> workspacePolicy, taskPolicy |-> taskPolicy,
              workspaceSpend |-> spendUnder(workspacePolicy, entries) + Message[u].cost,
              taskSpend |-> spendUnder(taskPolicy, entries) + Message[u].cost,
              from |-> workspacePolicy.from, until |-> workspacePolicy.until, recordedAt |-> recorders[u].recordedAt]
    IN  e @@ [checksum |-> costLedgerChecksum(e, workspacePolicy, taskPolicy)]

\* The insert trigger repeats the checks in SQL over the same snapshot, which
\* can tell no more than they did, and reads the clock again: the period must
\* not have ended since the receipt.
insertGuard(workspacePolicy, taskPolicy) == InForce(workspacePolicy, now) /\ InForce(taskPolicy, now)

\* Select, check, aggregate, insert and compare the row that was stored; one
\* step, since all of it reads the snapshot.
recordUsage(u) ==
    LET entries == SubSeq(ledger, 1, recorders[u].snapshot)
        pairs == {pair \in Policies \X Policies : bound(u, pair[1], pair[2])}
        accepted == {pair \in pairs : affordable(u, pair[1], pair[2], entries) /\ insertGuard(pair[1], pair[2])}
    IN  /\ recorders[u].state = "policies"
        /\ IF \E pair \in accepted : entryFor(u, pair[1], pair[2], entries).checksum # None
           THEN \E pair \in accepted :
                   recorders' = [recorders EXCEPT ![u].state = "inserted", ![u].entry = entryFor(u, pair[1], pair[2], entries)]
           ELSE RollBack(u)
        /\ UNCHANGED <<now, ledger>>

\* mutant: the transaction runs at REPEATABLE READ
neverConflicts(u) == FALSE

\* Serializable: what a transaction summed must not have grown since it began.
conflicts(u) ==
    \E i \in recorders[u].snapshot + 1 .. Len(ledger) :
        \/ ledger[i].task = Message[u].task
        \/ /\ ledger[i].currency = Message[u].currency
           /\ InForce(recorders[u].entry.workspacePolicy, ledger[i].recordedAt)

commit(u) ==
    /\ recorders[u].state = "inserted"
    /\ IF conflicts(u)
       THEN RollBack(u) /\ UNCHANGED ledger
       ELSE ledger' = Append(ledger, recorders[u].entry) /\ Set(u, "done")
    /\ UNCHANGED now

\* The connection is lost, or a serialization failure the model does not
\* predict: the transaction is gone and its locks with it.
txFails(u) ==
    /\ recorders[u].state \in InFlight
    /\ RollBack(u)
    /\ UNCHANGED <<now, ledger>>

Tick ==
    /\ now < Horizon
    /\ now' = now + 1
    /\ UNCHANGED <<ledger, recorders>>

Next ==
    \/ \E u \in Usages :
          \/ \E actor \in Actors : admitUsage(u, actor)
          \/ lockTask(u) \/ lockPolicies(u) \/ recordUsage(u) \/ commit(u) \/ txFails(u)
    \/ Tick

Spec == Init /\ [][Next]_vars

----------------------------------------------------------------------------
\* The newest entries an observer may export, each verified again from the row
\* and its policies; None when the request or an entry is refused.
listLedger(actor, take) ==
    LET Newer(d, e) == d.recordedAt > e.recordedAt \/ (d.recordedAt = e.recordedAt /\ d.usage > e.usage)
        page == SubSeq(SortSeq(ledger, Newer), 1, IF take < Len(ledger) THEN take ELSE Len(ledger))
    IN  IF /\ authorizedTo(actor, 0) /\ take \in 1..100
           /\ \A i \in DOMAIN page :
                 LET e == page[i]
                 IN  /\ costLedgerChecksum(e, e.workspacePolicy, e.taskPolicy) = e.checksum
                     /\ policyHash(e.workspacePolicy) = e.workspacePolicy.id
                     /\ policyHash(e.taskPolicy) = e.taskPolicy.id
        THEN page
        ELSE None

TypeOK ==
    /\ now \in 0..Horizon
    /\ \A u \in Usages :
          /\ recorders[u].state \in InFlight \cup {"idle", "done"}
          /\ recorders[u].snapshot \in 0..Len(ledger)

\* No interleaving of usage transactions spends more than a budget allows: not
\* the workspace's or the task's of any period, and not what the task was given
\* for its whole life, in cost or in compute, over however many periods.
BudgetsHold ==
    /\ \A p \in Policies : spendUnder(p, ledger) <= p.limit
    /\ \A e \in ToSet(ledger) :
          /\ CostOf(lifetimeOf(e.task, ledger)) <= Task[e.task].cost
          /\ ComputeOf(lifetimeOf(e.task, ledger)) <= Task[e.task].compute

\* The totals an entry carries are the exact sums of the entries committed up to
\* it, a message is charged once, and whoever may export the ledger can.
LedgerIsExact ==
    /\ \A i \in DOMAIN ledger :
          LET e == ledger[i] upTo == SubSeq(ledger, 1, i)
          IN  /\ e.workspaceSpend = spendUnder(e.workspacePolicy, upTo)
              /\ e.taskSpend = spendUnder(e.taskPolicy, upTo)
              /\ recorders[e.usage].state = "done"
    /\ \A i, j \in DOMAIN ledger : ledger[i].usage = ledger[j].usage => i = j
    /\ \A take \in 1..2 : listLedger([level |-> 0, kind |-> "HUMAN"], take) # None
============================================================================
