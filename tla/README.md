# TLA+ verification of the VentureOS agent control plane

VentureOS is a human-controlled "AI business operating system": a NestJS API
(`apps/api`), a Temporal worker (`apps/worker`), a web application (`apps/web`)
and some twenty packages. The part with the hardest state is the agent control
plane, which decides when an AI runtime may be given work, hands the work over
exactly once, keeps it cancellable and records what came of it; around it stand
the services that authorise, pay for, supervise and publish that work. This
directory models them, checks them with TLC on small instances and proves the
central invariants with TLAPS for every instance.

## 1. Inventory

| Part | State | Operations | Hard behaviour |
| --- | --- | --- | --- |
| Reference control plane, `packages/agent-control-plane/src/control-plane.ts` | runtimes, adapters with a registration id, agents, capabilities, tools, grants, connections with proofs, heartbeats, tasks, runs, events, usage, outstanding permits | put/grant/register, heartbeats, tasks, runs, mint and execute dispatch and cancellation | two awaited adapter calls between whose start and end every other operation may run; permits that go stale; derived connection status |
| Durable task/run spine, `acp-task-run.service.ts` with `task-run-policy.ts` | objectives, tasks with dependencies, runs, artifacts, audit events as idempotency records | createPlan, reserveAssignment, startRun, recordArtifact, failRun, completeRun | concurrent callers with optimistic versions, replays, retries, release of dependents |
| Approval bridge, `acp-approval-bridge.service.ts` | approval requests, founder decisions and permits bound to Level-4 runs | request, approve, reject, revoke, issue, claim | a claim that waits for its locks racing revocation, expiry and a second claim |
| Bridge admission, `acp-bridge-admission.service.ts` (7 k lines) | sessions, receipts, dispatches, outbox, handoff claims, Codex evidence, process sessions | admit, enqueue, claim, record evidence, recover | batches that wait for locks, leases, crash recovery, sequence numbers |
| Agent bridge, `packages/agent-bridge` | egress controllers, supervised processes, native listeners and clients, trust sources, provisioning | hand off, supervise, listen, answer, load, provision | deadlines, partial failure, files that change under a check, aborts racing pool threads |
| Broker, `runtime-broker.ts`, `acp-broker-reservation.service.ts` | candidate evidence, reservations on runs and connections | route, reserve, verify, claim, release, expire | last slot races, evidence that changes between read and lock, expiry |
| Business spending, cost governance, revenue runs | account and commitments; budget policies and ledger; plans, facts, links, reconciliations | reserve, cancel, reconcile, pause; record usage; link, assert, reconcile | sums under concurrency, snapshots older than locks, evidence counted twice or changed |
| AI COO, agent factory, voice gateway, operational events | plans, tasks, agents, templates, sessions, history, log | plan, assign, fail, retry; instantiate, finalize; talk, route; append | partial failure when the log refuses, limits of trees, replays of transcripts |
| Marketplace publication and idempotency, `packages/marketplace-connectors` | idempotency keys, publication attempts, approvals of kind PUBLICATION | prepare, request approval, publish, replay, withIdempotency | crash between an external write and its record, ambiguous failure, concurrent retry |
| Workspaces, accounts, sessions, plans | members, invitations, sessions, subscriptions | register, sign in, switch, invite, accept, claim, remove | advisory locks taken in turn, stale reads, the last place of a plan |
| Approvals and board, memory, product studio, research, web application, scoring, schemas, logging | little or none of their own | — | — |

`PROJECT.json` lists every part with its sources and status, and under
`hazards` what in this code a test would hardly reach, each at its line.

Interactions. The AI COO (or a human) submits a plan to the task/run spine; the
broker reserves a runtime for a prepared run, together with the funds it may
need, and the spine records the assignment; a Level-4 run is offered to the
approval bridge instead. The bridge admission service moves an assigned run's
dispatch through an outbox to the agent bridge, which supervises the runtime
process and returns evidence that becomes artifacts. Costs are authorised and
recorded in the ledger. Trust sources decide whose signatures count, and native
modules are loaded only under a published authorization. The reference control
plane states the same life cycle in memory, with adapters in place of the
bridge, and is the normative description of permits and connection evidence.

## 2. Modules

| Module | Models | Checked by | Proved in |
| --- | --- | --- | --- |
| `ControlPlane` | `InMemoryControlPlane` | `MCControlPlane`, `ControlPlane.cfg` | `ControlPlaneProofs` |
| `TaskRun` | `AcpTaskRunService` with `task-run-policy.ts` | `MCTaskRun`, `TaskRun.cfg` | `TaskRunProofs` |
| `ApprovalBridge`, abstract `SingleUsePermit` | `AcpApprovalBridgeService` with the triggers of its tables, and what it promises | `MCApprovalBridge`, `ApprovalBridge.cfg` | `ApprovalBridgeProofs` |
| `Publication` | `publication-runner.ts` over `withIdempotency` | `MCPublication` inside `MCCoo`, `Coo.cfg`; alone in `PublicationRecovery.cfg` | `BusinessProofs` |
| `BridgeSession` | sessions, receipts and dispatches of the bridge admission | `MCBridge`, `Bridge.cfg` | |
| `DispatchOutbox` | outbox, handoff claims and egress controller | `MCBridge`; its liveness in `MCNative` | `TransportProofs` |
| `Membership` | accounts, workspaces, invitations, sessions, plan limits | `MCBridge` | `TransportProofs` |
| `CodexAdmission` | evidence chain of a Codex validation and its one-shot handoff | `MCCodex`, `Codex.cfg` | `CodexProofs` |
| `ProcessSession` | process of a handoff: coordinators, recovery, terminal evidence | `MCCodex` | `CodexProofs` |
| `BrokerReservation` over `BusinessSpending` | reservations with the funds they commit | `MCBroker`, `Broker.cfg` | `BrokerProofs` |
| `RuntimeBroker` | eligibility, integer scores and choice of a runtime | `MCBroker` | |
| `CostLedger` | `AcpCostGovernanceService.recordUsage` | `MCBroker` | |
| `RevenueRun` | revenue runs, their evidence, reconciliation and outcome | `MCBroker` | |
| `OperationalLog`, `AgentFactory`, `AiCoo` | event log, agent factory and AI COO, each on top of the other | `MCCoo`, `Coo.cfg` | `BusinessProofs` (the last two) |
| `CriticalPath` | `criticalPath`, against a reference definition | `MCCoo` | |
| `NativeListener`, `NativeClient` | both ends of the retained native supervisor's socket | `MCNative`, `Native.cfg`, `NativeStranded.cfg` | `TransportProofs` |
| `NativeOperation` | asynchronous calls of both C addons | `MCNative` | `TransportProofs` |
| `ModuleAuthority` | who may load a native module: roots, issuance, checkpoint, loader | `MCGovernance`, `Governance.cfg`, `GovernanceCurrent.cfg` | `GovernanceProofs` |
| `TrustSource` | supervisor and executable-authority trust sources | `MCGovernance` | `GovernanceProofs` |
| `VoiceGateway` | `GovernedVoiceGateway` | `MCGovernance` | `GovernanceProofs` |
| `Supervision` | from a launch manifest to a single launch | `MCGovernance` | `GovernanceProofs` |
| `Provisioning` | topology gate, authorities and hosts that prepare a supervisor's files | `MCGovernance` | `GovernanceProofs` |
| `Clock` | the time and `None`, shared by components that one run or one proof module extends together | | |

A definition marked `mutant:` in a module is not part of the model. It is the
definition after it with a plausible bug; `PROJECT.json` pairs it with the
property that must then fail.

Side by side. Several MC modules hold more than one component, or more than one
instance of one. A variable `part` is chosen by the initial state and never
changes; only the component of that part takes steps, and the variables of the
others stay at their initial value or at `None`. Nothing is gained or lost by
this against separate runs. A component whose theorems are listed is extended,
and gets its constants from the `.cfg`, so that the property the run checks and
the property a theorem states are the same definition; further instances are
made with `INSTANCE`.

### ControlPlane

One variable per private map or set of the class, under the same name.
`adapters` keeps only the registration id of an adapter (`registrations` counts
the ids issued, which `randomUUID` makes fresh). `startCalls` and `cancelCalls`
are the promises awaited in `executeDispatch` and `executeCancellation`, and
`starts` is a history variable counting calls of `adapter.start` per run.

Each public method is an action of the same name whose parameter `p` is the
authenticated principal. A method that awaits is cut at its await:
`executeDispatch` is everything up to the call of the adapter
(`#claimDispatch` included); `startResolves` and `startFails` are what follows
when the promise settles (`#bindExternalRun`, then the `finally` clause). A
claim that fails its revalidation still consumes the permit and reopens the
run, so it is an action (`executeDispatchStale`); every other throwing call
changes nothing and is a stuttering step. `startFails` is also enabled when the
answer could be bound, because the adapter may reject for its own reasons.

Abstractions: one workspace (every key contains the workspace id and nothing
crosses it); the records callers submit are taken from input sets; a proof that
`#validateConnectionProofs` only accepts when correlated to its own connection
is kept as present or absent; of a tool grant's scopes only whether they
contain the required one; the operational event sink is left out (when it
throws, the call fails before it wrote or undoes its write).

### TaskRun

`tasks` and `runs` are the rows of `acp_tasks` and `acp_runs`; `artifacts` is
keyed by idempotency key; `runEvents`, `taskEvents` and `eventKeys` are the
audit events under which `startRun`, `failRun`, `completeRun`,
`reserveAssignment` and `recordArtifact` recognise a repeated call. Every method
runs in one serializable transaction and is one action; `failRun` is two actions
because its two outcomes write different rows. A replayed or refused call writes
nothing. What remains concurrent is the caller: it acts on a run record it
received earlier (`views`), and its call carries that record's version. Unique
indexes are guards (a violated one aborts the transaction). The trusted
verifiers of assignment and artifact evidence are inputs: a refused one is a
call that writes nothing. Text, JSON and hash checks of plans are left out;
`IsAcyclic` states what the depth-first search of `assertAcyclic` decides. Money
and compute budgets are one number.

### ApprovalBridge and SingleUsePermit

`requests`, `decisions` and `permits` are the rows of `acp_approval_requests`,
`acp_approval_decisions` and `acp_execution_permits`. A binding (objective,
task, run, action, target, artifact, evidence and policy hashes) is one value,
since the code compares all its fields and their hash together. A permit's own
copies of binding and expiry are not repeated: the triggers of the migration
keep both rows from changing. `decideApproval` is `approve`, `reject` and
`revoke`; they, `requestApproval` and `issueExecutionPermit` decide under row
locks in one transaction and are one action each. `claimExecutionPermit` checks
the permit before its transaction (`checkClaim`), waits (`claimCalls`), and
checks again with the database clock once it has both locks; in between
anything may happen. The expiry of a request is validated before the
transaction that stores it, so `ExpiryWasValid` accepts any earlier reading of
the clock. Repeated calls under a known key, and refused ones, write nothing.
Founder membership and the preparation of Level-4 work change freely around the
service; prepared work stays prepared, which `TaskRunProofs` shows
(`ApprovalBindingIsReadyHolds`).

`SingleUsePermit` has one authorization per approval, given once for one binding
and one deadline, then used before the deadline or withdrawn, never both.
`authorizationBar` reads it off the state column: APPROVED and PERMIT_ISSUED are
given, PERMIT_CLAIMED is used, REVOKED is withdrawn.

### Publication

The rows of `idempotency_keys`, `publication_attempts` and `approval_requests`
(kind PUBLICATION) for one listing version on one account within one day, and
`calls`: executions of `prepareListingForPublication` and `publishListing`, each
with a `pc`. Temporal retries activities and the API offers the same functions,
so any number of calls overlap. A call is cut at every await that separates two
writes, or a decision from the write it leads to; consecutive reads are one step
with the write that depends on them when a unique index, a conditional update or
the lock of the account row makes it so. `prepareListingForPublication` and
`publishListing` are the checks up to the first write; from there both run
through `withIdempotency` (`claimKey`, `replayKey`, `refuseKey`,
`checkDispatch`, the provider, `cacheSuccess`, `failKey`, `keyWriteThrows`) once
per external write: the draft, each upload, the publication. A publication
reserves its attempt after it has claimed its key, a preparation before.

What the capability policy, the kill switch, the listing's product approval and
changes of the listing decide is a free choice wherever they are read. The
request payload of a key is the listing it writes to. `crash` ends a call at any
point; it also stands for a database that answers no more, which is why writes
other than those of the keys do not throw on their own. A key left PENDING by a
call that died stays so, as in the code: nothing ever releases it. `writes` and
`publisher` are history variables about the provider. `providerRefuses` is an
error before anything was written: the only client in the repository is a
synchronous mock that throws before it stores, and for a real one
`idempotency.ts` relies on the provider's own idempotency. An error whose cause
is unknown is `crash`.

### BridgeSession and DispatchOutbox

`BridgeSession` is what a runtime sends. Its variables are tables
(`connections`, `sessions`, `dispatches`, `receipts`, `usages`) and two things
the service reads elsewhere (`runs`, `evidence`). A batch of frames is admitted
whole or not at all, in one action that folds its frames over the state; the
clock is read when the locks are held and again before the commit, and the two
readings may differ. `DispatchOutbox` is the other direction: `outbox` and
`attempts` are rows; `tx` is the one transaction that holds the row locks, which
reads the clock, checks, and inserts later; `writes` are handoffs in progress in
the egress controllers, `lines` what transports took and `reports` what was
reported as written. A transport may hang, refuse, or take a line whose answer
is lost.

### CodexAdmission and ProcessSession

`CodexAdmission` has one table per kind of evidence, from `registration` to
`handoffs`; a call builds its candidate and reads the external authorization of
it (`calls`), and its transaction comes later, against the database clock.
`bundles` and `used` are what a controller holds and remembers, `writes` the
frames that reached a transport. Answers get lost, processes restart.
`ProcessSession` follows one handoff: `claim`, `completion`, `leases` and
`outcomes` are tables, `processes` what the owner opened, `exec` and `recovery`
where each coordinator and each recovery worker waits, `messages` the signed
ends that left an adapter.

### BrokerReservation, BusinessSpending, RuntimeBroker, CostLedger, RevenueRun

`reserveForPreparedRun` locks its run, reads and routes (`beginReservation`),
waits for the connection it chose, and then reads the evidence again and stores
reservation and commitment in one step. `prepareDispatch` verifies on another
database connection (`beginDispatch`) before it inserts. `calls` are the
transactions between the two halves. The triggers that claim and release a
reservation are part of the actions that fire them. A candidate has capacity
when it has a slot, budget and compute units left, and a run in another currency
than euros is refused before its funds are looked at. Every operation on the
spending account holds its row lock and is one action; a charge may be higher than
what was reserved for it.

`RuntimeBroker` keeps the integer arithmetic of scores and the order of the
comparison; `CostLedger` the snapshot from which a transaction reads, taken
before its locks, and the check at commit; `RevenueRun` the facts, the links to
them and what a hash was computed from, with an actor who changes facts behind
the program's back. Its amounts are in cents: the columns have scale two, so what
`eurDecimalToMinorUnits` is given never has a finer part to refuse.

### OperationalLog, AgentFactory, AiCoo, CriticalPath

Synchronous classes: an action is a call that succeeds. `AiCoo` changes its maps
before it appends events, so a call that throws in the log keeps what it did so
far, and this is an action of its own. `CriticalPath` takes one turn of a loop
per step and is compared with the longest path defined by a quantifier. A sum
beyond `MaxSafeInteger`, a small number here, refuses the plan.

### NativeListener, NativeClient, NativeOperation

The socket file system (`sockets`, known by inode, moved by other processes),
the attempts of the service owners (`service`), connections (`wires`) and the
client's progress. `NativeOperation` is the level below: an operation that a
pool thread executes while the JavaScript thread aborts, closes or loses the
object to the garbage collector, with what the finalizers may still do.

### ModuleAuthority, TrustSource, Supervision, Provisioning, VoiceGateway

Every await ends a step in the first four; clocks, files and what the trusted
ports answer change between steps. `ModuleAuthority` follows an authorization
from the approval of its payload to the mapping of the file. The last transaction
of a read is Serializable: what it sees is fixed by its first statement, the one
that asks for the advisory lock (`beginRecheck`), and compared once it has both
locks (`recheck`); publications and revocations commit in between. A load is cut
at every system call (`openModule` with the first `fstat`, `digestModule`,
`mapModule`, which is the `dlopen` of `/proc/self/fd`, and `retainModule` with the
second `fstat`), because another process may replace or write the file between any
two of them, although no other load of this process runs there (`Alone`). Callers
ask for any version of a root, and in one instance for any place in the chain of
snapshots; the triggers of the tables (`RootGuard`, `AppendGuard`) decide.

`TrustSource` is two kinds of readers over checkpoints that several of them
advance; `Supervision` prepare, inspection, activation and the single launch. The
last `stat` of the executable (`recheckExecutable`) and the dating of the evidence
(`dateEvidence`) are two steps. The manifest's policy and the process states
belong to it, because they decide which launches are admitted and which follow.
`Provisioning` is the four authorized phases against a file system of nodes that
others move and replace; `adopted` records the directories that were swapped in
between the `mkdir` and the `open` of a host. `VoiceGateway` is synchronous; the
answers and failures of its ports are inputs.

### Membership

A request is checked by the session guard, then takes its advisory locks one at
a time (`keys`, of which it holds the first `locks`), reads (`read`, `found`), and
commits; other requests commit between any two of these steps. Sign-in and registration take no locks, as in the code.

## 3. Runs

| Run | Parts, instances and bounds | Shows |
| --- | --- | --- |
| `controlplane` | `lifecycle`: 1 connection, 2 tasks, 2 runs, 2 external ids, 2 adapter registrations, clock 0..1, an authorizer and two runtime principals, inputs that bootstrap, rotate and deprovision the connection. `evidence`: 2 connections, 2 heartbeats, a health-check and a research task | `TaskRunAgreement`, `StartAtMostOnce`, `StartedRunIsNeverOrphaned`, `BoundRunStaysCancellable`, `CancelledRunIsStopped`, `ConnectedIsEarned` |
| `taskrun` | two callers, 3 run ids; either a plan of 3 tasks (two independent, one with a retry, and a Level-4 task that needs both; a cyclic and a colliding plan are refused) or one task with 2 criteria and 2 attempts; a retryable and a stopping failure code | `BlockedByDependencies`, `OneLiveRun`, `CompletionIsEvidenced`, and the action property `NoStaleWrite` |
| `approval_bridge` | 2 requests, 2 bindings, 1 user who is or is not a founder, 2 execution principals, 3 decision keys, validity of at most 2 ticks, clock 0..2 | `ClaimIsAuthorised`, and the refinement `ImplementsSingleUsePermit` |
| `publication_recovery` | from a prepared and approved listing: 3 calls | violated: `RecoveryIsExact` |
| `bridge` | `session`: 1 connection, 2 sessions, 1 run, 13 batches, 6 frames, clock 0..2. `frames`: 2 dispatches; `claims`: 2 owners race for one frame; clock 0..3. `leave`, `join`, `expire`: 2 or 3 addresses, 2 requests at a time, 1 or 2 sessions and invitations | `ReceiptsTellTheStory`, `CancellationWins` (action property), `HandoffsAgree`, `MembershipHolds` |
| `codex` | `egress`: 2 runs, 2 authorizations; `chain`: 2 sessions, 2 calls at a time; clock 0..3. `owners`: 2 coordinators, 1 worker, 2 processes, a crash; `recovery`: 2 workers, clock 0..5 | `AtMostOneFrame`, `OneOutcome` |
| `broker` | `reservation`: 2 runs, 2 reservations, a connection with 1 slot, clock 0..2. `account`: 3 purchases of 1 or 3 cents for 2 obligations in 2 months, funding 5, limit 3 for an obligation and 4 a month, charges above what was reserved. `route`: 14 variants of a candidate on 3 connections, 4 requests. `ledger`: 4 usage messages of 3 runs, 2 periods. `revenue`: 3 plans, 4 facts, 2 keys, one failed audit, one fact tampered with | `ReservationsAreExclusive`, `FundsAreReserved`, `RouteIsBest`, `SpendingIsGoverned` |
| `coo` | `factory`: 2 workspaces, trees up to 3 agents and depth 1. `chain`: 2 dependent tasks with retries. `founder`: a task for the Founder. `path`: every plan of 4 tasks of duration 1, at most 3 in all; `weighted`: of 3 tasks with durations 1 to 3, at most 7. `publication`: 2 calls, a listing with 2 uploads, 2 attempts a day, 2 approvals, with fairness | `LineageHolds`, `DependenciesComeFirst`, `SpendingHolds`, `ReportIsCritical`, `WriteAtMostOnce`, `RateLimitHolds`, `PublicationWasApproved`, and the liveness property `ReservationResolves` |
| `native` | `clients`: 1 attempt, an authorized and another client; `owners`: 2 attempts on one path; `kinds`: 6 pairs of request and carrier; `listener` and `connection`: one operation of each kind; `outbox`: a write that hangs; with fairness | `AnswersAreAuthentic`, `AttemptsLeaveNothing`, `DescriptorsAreSafe`, and the liveness property `WaitsEnd` |
| `native_stranded` | the same instances | violated: `NoListenerIsStranded` |
| `governance` | `issuance`: 2 issuers and callers who may not; `chain`: an issuer that asks for any place in the chain; `reads`: a reader while 2 snapshots are published and a root is rotated or revoked, clock 0..1; `loads`: 2 loaders, an unusable module and a restart; `mapping`: a loader while files are replaced, and each is written in place once; `swaps`: 3 readers race for the checkpoint; `sources`: 3 readers, an untrusted one of snapshots; `voice`: 2 principals, 2 sessions; `supervise`: 2 prepared launches with one nonce; `inspect`: a file changed twice; `twice`: 2 processes with one plan; `timed`: 1 against its timers; both with one interference | `ModulesAreAuthorized`, `TrustNeverGoesBack`, `TranscriptsRouteOnce`, `LaunchesAreAuthorized`, `BundlesAreOwn`, and the action property `AuthorityIsCurrent` |
| `governance_current` | the same instances | violated: `DecisionIsLinearized` |

What the properties say is in the comments above them. `CHECK_DEADLOCK FALSE`
throughout: a system whose ids, inputs and calls are used up has nothing left to
do.

Why the bounds are enough to be interesting. Every hazard of `ControlPlane`
needs one run whose adapter call is pending and one other actor, and a second
run for clashes of external ids; one clock tick lets the authority grant expire
between mint and claim. In `TaskRun`, two dependencies are what a lost or early
release needs, and two callers what a stale write needs. In `ApprovalBridge`, a
claim races a revocation or a second claim, which takes two calls. In
`Publication`, two calls race for a key, two attempts a day are no more than the
calls, so that the limit is met, and two uploads make the last one differ from
the first. In the bridge, two frames in one batch are what a partial admission
needs, and two owners with a claim that expires what an overlap needs. In
`BrokerReservation`, one slot and two runs are the race for the last one; on the
account, two purchases of 3 cents exceed each of its limits, and the second month
makes room under the monthly one alone. For a module, one write in place is what
falls between the digest and the mapping, and a patched image has the size of the
good one, so that the second `fstat` lets it pass. The
lifetimes are chosen so that each deadline can fall before and after each step.
Identifiers are model values and symmetric; what is checked under symmetry are
invariants and step properties, never liveness. Between them the runs take every
action of the modules. The properties that are proved hold without these bounds.

Fairness. `coo` assumes weak fairness of `Continue(c)` in its part `publication`,
the steps of one call from await to await: a settled promise is always continued, and a database
operation that never answers ends in an error of its driver, which is
`keyWriteThrows` or `crash`. `native` assumes it of the clock, of the timers
(`WriteTimesOut`, `TimerFires`), of the next step of an attempt that can take one
(`ServiceStep`) and of a pool thread or completion callback that can run
(`CallStep`, which leaves out an operation that polls and was not cancelled).
Nothing is assumed about peers, writes that hang, new calls, founders, expiry or
crashes, and no outcome of a step is preferred. All other runs check safety only.

What `publication_recovery` finds. `docs/SECURITY.md` says that the recovery of
an interrupted success completes only the exact row that is still reserved. The
replay looks for any RESERVED attempt of the idempotency key. A call whose check
fails marks the key FAILED before it marks its own attempt, so a second call can
claim the key, reserve a second attempt and publish, and a replay that comes
before either call has recorded its attempt may pick the first. The first call
then marks the attempt FAILED that was recorded as PUBLISHED. The provider's
listing is not affected (`WriteAtMostOnce` holds); the record of who published
it is.

What `native_stranded` finds. ADR 0087 says that synchronous cleanup prevents an
aborted signal from stranding a listener, and ADR 0113 that the lifecycle cleans
up before it returns. The carrier's `interruptible` rejects while the native read
or write it has aborted is still active; `session_close` and `listener_cleanup`
refuse, nothing tries again, and the socket stays bound and listening until the
objects are garbage-collected. `AttemptsLeaveNothing` holds for every other end
of an attempt.

What `governance_current` finds. ADR 0109 (lines 26-28) says that the separate
reads after the locks avoid a stale snapshot and keep a rotation, a revocation or a
newer snapshot from falling inside the final decision on a grant. The transaction is Serializable and its first statement is the `SELECT` of the
lock, so its snapshot of the database is taken before it waits. A publisher or a
revoker that holds the lock commits during the wait; the reader then gets the
lock, reads the rows as they were, finds them equal to what it had read before,
and hands out a grant that was superseded or revoked when it was decided. The
writers run at read committed, so nothing aborts. What does hold, and is proved,
is `GrantIsCurrent`: the grant was the latest when that transaction began.

## 4. Proofs

For every value of the constants that the named ASSUMEs allow, the eight proof
modules prove these properties of the runs:

| Module | Properties of runs | Inductive invariant |
| --- | --- | --- |
| `ControlPlaneProofs` | all six of `controlplane` | `IInv`, `EInv` |
| `TaskRunProofs` | all four of `taskrun` | `IInv` |
| `ApprovalBridgeProofs` | both of `approval_bridge`, the refinement included | `IInv` |
| `BusinessProofs` | `WriteAtMostOnce`, `RateLimitHolds`, `PublicationWasApproved`, `LineageHolds` (of the factory alone and under the COO), `DependenciesComeFirst`; of `SpendingHolds`, the part about single tasks | `KeysAreOwned`, `AttemptsAreOwned`, `ApprovalsAreChecked`; `FactoryInvariant`, `CooInvariant` |
| `TransportProofs` | `HandoffsAgree`, `DescriptorsAreSafe`, `AnswersAreAuthentic`, `AttemptsLeaveNothing`, `MembershipHolds` | `Safety`, `CallsInv`, `NativeSafety`, `MembersInvariant` |
| `CodexProofs` | `AtMostOneFrame`, `OneOutcome` | `Safety`, `SessionSafety` |
| `BrokerProofs` | `ReservationsAreExclusive` | `BrokerSafety` |
| `GovernanceProofs` | `TrustNeverGoesBack`, `TranscriptsRouteOnce`, `ModulesAreAuthorized`, `LaunchesAreAuthorized`; of `BundlesAreOwn`, `BundlesAreSound`; of `AuthorityIsCurrent`, the parts about modules and provisioning | `TrustSafety`, `VoiceSafety`, `ModuleSafety`, `LaunchSafety`, `ProvisionSafety` |

`ControlPlaneProofs`. None of the properties is inductive alone. `IInv` is

- `TypeOK` and `PrincipalPresent`: a connection with an active run has an
  authenticated principal. It is what makes a minted permit well typed, and it
  rests on `putConnection` refusing to rotate an identity under active runs;
- `TaskRunAgreement`;
- `DispatchLedger`: how a run's membership in `dispatchedRuns`, `dispatches`,
  `claimedDispatchRuns` and its `starts` count go together. A run has at most
  one outstanding permit, and one that was claimed never gets another;
- `StartCallsIntact`: an awaited start call is registered in
  `inFlightDispatchAdapters` under the registration that is still the current
  one, for a run that is still QUEUED and a principal that is still bound;
- `CancelLedger`: the same for cancellation permits and calls.

`EInv` adds `BootstrapFirst` and `ConnectedEvidence`, the part of
`ConnectedIsEarned` that is preserved on its own: ended runs, recorded events
and the identity of a connection that keeps its stored proof do not change. The
step lemmas (`AgreementStep`, `DispatchLedgerStep`, ...) have one case per action
that can disturb their conjunct; `Frame` disposes of the registry actions at once.

`TaskRunProofs`. `IInv` is `TypeOK`, `ViewsAreReal` (a caller's view at a run's
current version shows its current status, because versions only grow: the
argument behind `NoStaleWrite`) and `RowInv`:

- `References`: dependencies and runs lead to tasks, and every task came in a
  stored plan. This is why the collision checks of `createPlan` on objectives
  keep the tasks of different plans apart;
- `LiveRuns`: a live run is at the status its task implies and is its task's
  latest attempt, which is what makes the number of a retry new. `OneLiveRun`
  follows;
- `RetryBudget` and `BlockedByDependencies`;
- `LevelFour`: Level-4 tasks only wait, and nothing else awaits approval;
- `Evidence`: a completed run has its evidence, a completed task such a run.

The lemmas `...Moves` say what each action writes in terms of two predicates,
`RunMoved` and `TaskMoved`; `MoveTogether` then treats assignment, start and
final failure alike, and `...KeepsRows` the actions that also add or release
rows. The theorems assume `InputAssumption` (submitted plans and keys have the
types of their columns) and `NoneAssumption`.

`ApprovalBridgeProofs`. `IInv` is `TypeOK`, `StateTellsHistory` (inductive once
it covers decisions, permit and claim together; `RevokedIsNeverClaimed` is a
consequence, because a request has one state), `Origins` (requests are about
prepared work, decisions about existing requests and not in the future) and
`PermitTimes` (approved before issued, issued before claimed, claimed before the
expiry). `Implementation` is the refinement: `BarMoves` says that a step changes
the authorization of one request at most, and `StepRefines` maps approve to
`Give`, claim to `Use`, revoke to `Withdraw`, the clock to `Tick` and everything
else to a stutter. The assumptions are bounds that are naturals and a `None` that
is no principal, key, time or authorization.

`BusinessProofs`, publication. `KeysAreOwned`: a call between its claim and the end of its
operation (`HoldsKey`) finds its key PENDING, holds it alone, and the provider
has accepted the operation exactly when the call is about to cache it; a key that
is new or FAILED was not written, one that is SUCCEEDED was written once. A
PENDING key without a holder may have been written or not, and nothing claims it:
this is why the code must leave it PENDING when caching fails. `AttemptsAreOwned`
says that a preparation is alone with its attempt, which stays RESERVED until the
preparation says otherwise, and that publications have attempts of their own kind.
So an attempt that stopped counting never counts again, a new one is counted
under the account's lock when it is inserted, and this second check, not the
first, carries `RateLimitHolds`. `ApprovalsAreChecked` says what a call past
its check has established: its approval was given for exactly its attempt. What
is decided, revoked or expired later does not undo that, and
`PublicationWasApproved` asks for no more than the code promises.

`BusinessProofs`, agents. `FactoryInvariant`: an agent was made from a consumed
request and a stored template, its grants and ceilings are within its template's
and its parent's, the agents are finitely many and one per request, links name
known objectives, and the log tells the life of every identifier, used or not:
a birth exactly for a consumed one, an outcome only for one that ended. The step
that needs most of it is a birth: the new agent has no children yet, because an
active child has an active parent, whose request is consumed, and the new one is
not. `CooInvariant` adds the planner: stored plans are valid and have no task in
common, so that a task's identifier determines its plan and its definition
(`TaskIdsAreDistinct`, by the cardinality of a surjection); a COMPLETED task
stays so, and a task that is READY or BLOCKED has an attempt left, which is why
the retry after the last failure is refused before an agent is asked for; a
task's agent was made for it and is no other task's. `LineageIsKeptByPlans` is
the composition: whatever the planner asks of the factory, also in calls that
throw half way, the factory's promises hold. `FactoryAssumption` and
`PlansAssumption` say that limits, ceilings and costs are natural numbers and
identifiers are no `None`; the code validates the former as non-negative safe
integers and the latter as references.

`TransportProofs`. What the checks at the beginning of a transaction found is
still true when its row is inserted, because the row locks keep every other
transaction out: `TxIsSound`. With it, numbers without a gap, disjoint windows
of attempts and the nesting of their authority are inductive. `CallsInv` says for
each operation of a native addon what the owner of its descriptor looks like at
every stage: while a pool thread may run, the object is busy and therefore
neither closed nor finalized, a completed read or write has advanced the phase
that keeps the other from starting early, and a descriptor that was made is held
by the operation until the callback passes it on or closes it. It covers both
sides (`Side` is a constant) and frames of any length.

`NativeSafety` ties the four tables of the native exchange together. Sockets and
connections are only added, a socket keeps its maker, stays closed once it is
closed, and is marked when it comes back to the path (`SocketsGoOn`); a connection
keeps where it leads, and nobody but the attempt that answers adds an answer of an
owner (`WiresGoOn`). So what one attempt or client knows survives every step of the
others, and each step has to be looked at for its own attempt only
(`ServicesStay`, `ClientsStay`). `ServiceIsSound` says what an attempt has checked
of its client at each stage (`AnswerIsDue` before there is an answer), that only
one that leaves has answered, and how it leaves; the invariant has to add that
nothing is interrupted before an attempt leaves, or success could be reported of a
listener that survives. A client that finds the maker of the socket it reached to
be the one authorized knows who answered, because an answer on a connection is of
the maker of its socket (`AnswerIsOfOwner`). `PeersAssumption`: authorized clients
may connect, an owner is no stranger, and `None` is neither a stranger nor an open
custody. The theorems are for any number of attempts, clients and disturbances.

`MembersInvariant` says what a request of a member still knows once it holds its
advisory locks and has read: a switch that its account belongs to the workspace,
a claim whether it does and that there is room if it does not, an acceptance
that there is room. `KeepsKnowledge` is what another request has to leave alone
for that to stay true, and it does, because whoever adds or removes a membership
holds the lock of its workspace, and of its account if that account existed
(`LocksAreExclusive`). Room is meant under some plan and not under the present
one: `changePlan` takes no lock, so the property says that no workspace grows
beyond the largest plan. No two transactions wait for each other, because a
workspace is locked last, after an account or an invitee. `MembersAssumption`:
the founder's role is no collaboration role, the trial admits somebody and no
more than some plan, and `None` is no row.

`CodexProofs`. `AtMostOneFrame` rests on `Alone` (a connection has at most one
heartbeat, so one dispatch, so one handoff) and `Spent` (once a frame is out,
whoever still holds the handoff while it lives has it in `#used`). `OneOutcome`
rests on what each coordinator and each worker knows where it waits:
`ExecIsSound` and `TurnIsSound` tie every stage to the claim, the process, the
lease and the reason it was entered with, and `Grows` lists what of the tables
can only be added to, so that this knowledge stays true while others move.

`BrokerProofs`. `CallsAreSound` is what a transaction still knows when it stores
its row: nobody else has a call of its run, a run that was routable has got no
active reservation, and the reservation a dispatch verified is still there.
Expiry of the reservations that are due is what makes the new one the only one;
the count under the connection's lock bounds the cardinality of the active ones
(`FewerHolds`, `OneHoldMore`). `MoneyFollowsRoute` is the part of
`FundsAreReserved` that is not a sum.

`GovernanceProofs`. `CallIsSound` ties a call of a trust source to the checkpoint
of its scope: the version it began with is not above the checkpoint's, what it
is about to store is the successor of what it saw, and once it is past the swap
the checkpoint is at least as new as what it trusts, and equal to it if of the
same version; a checkpoint only moves to a higher version. `VoiceSafety` says
that a session that talks was granted its microphone, that every routed
transcript has its proof among the used ones and none twice, and what the history
of each principal may hold. Its theorems assume `OptionsAssumption`, which the
gateway's constructor checks.

`ModuleSafety`: versions have no gaps, whatever versions are asked for, because
the triggers refuse the others; every published snapshot names the one before it;
and `LoadIsSound` for every load: the snapshot it goes on with is a published one
under a root it read, at the swap it is the successor of the checkpoint the
loader saw, and from the recheck on it grants the kind that is loaded. The file
that is open has the granted identity, and stays the one that is mapped whatever
takes its path, because it is mapped by way of its descriptor; the bytes that were
digested are those of the grant, and are still in the file as long as its count of
writes is the one that was read (`ReadHolds`). So what is mapped is the granted
file, and the granted image unless it was written in place between digest and
mapping, which is the exception `ModulesAreAuthorized` states. `OneLoadAtATime`
keeps the retained module of a kind absent between the digest and the mapping.
`GrantsAreCurrent` and `CheckpointsAdvance` are the action properties inside
`AuthorityIsCurrent`. The first rests on the equality of the view that was fixed
at the beginning of the last transaction with what was read before, and on
`CheckpointIsReached`: who is past the swap is not ahead of the checkpoint. The
second uses that an issuer has its request until it publishes
(`RequestsAreThere`): a checkpoint that moves was compared with the one that was
read, and the new one is in the table under its version. All the theorems about
modules assume `NoneIsNoRecord`, that the value for an absent record is no record.

`LaunchSafety` has four parts. `WorldHolds`: a file's change count only grows.
`CallsHold`: a call that is reading holds an inode, with the change count it saw
when it opened it and the content it digested if that count is unchanged; this is
why an equal `stat` afterwards makes the evidence true at that moment, which is
before it is dated.
`NoncesAreApart`: whoever holds a nonce with an authorization that lasts has its
keys in `consumed`, which keeps them until that time, so two plans with one nonce
do not overlap. `LaunchesAreTaken`: an execution past its activation has taken
its plan, and no launch and no other execution of that plan is there before it
launches. `SignersAssumption` says that the test signer is no trusted one (the
composition refuses it) and that authorizations end at some time.

`ProvisionSafety`: the file system only gains nodes, and a node keeps its creator
(`OnlyAdds`, shown once for each call the hosts and the operator make), so what an
attempt owns stays its own whoever else moves. `AttemptIsSound` says that the
descriptor of a module is of a file the attempt created, because a host creates a
module exclusively and never opens one it finds (`HostsCreateModules`); that a
rejected attempt is aborted and runs no host; that the gate's deadline is at most
the end of each observation, which no observer changes once the gate has read it;
and what the evidence holds when the controller is done. `BundlesStaySound` and
`RejectionsStopAttempts` follow for any number of attempts and interferences, from
`LifetimesAssumption`: the lifetimes are positive and within their maxima.

The invariants `Safety`, `SessionSafety`, `TrustSafety`, `VoiceSafety` and
`BrokerSafety` contain the type invariants, which are theorems of their own.
`ModuleSafety`, `LaunchSafety`, `ProvisionSafety`, `NativeSafety`, `MembersInvariant`
and `CallsInv` hold the types they need.

Only model-checked, and why:

- `ReservationResolves` and `WaitsEnd` are liveness under fairness;
- `ReceiptsTellTheStory` and `CancellationWins` are about batches that are folded
  over the state, `LimitsHold` (in `FundsAreReserved`), `SpendingIsGoverned` and
  the totals in `SpendingHolds` about sums, `RouteIsBest` and `ReportIsCritical`
  about what recursive definitions compute: these need induction over data. Of
  `SpendingHolds`, `TasksKeepToPolicy` is no sum and is proved (`PoliciesAreKept`);
- `BundlesAreApart`, the other half of `BundlesAreOwn`, is stated without a bound,
  and excepts attempts that adopted a directory (section 5). It is checked for two
  attempts and one interference; a proof needs an invariant about what the cleanup
  of one attempt leaves of every node of another, which is not attempted.

## 5. Observations

Behaviour that modelling brought to light. None contradicts a property above,
and where a document states the limit it is named.

- Trust sources: ADR 0094 denies a rollback of authorization versions, while the
  checkpoint of module authorizations compares only with its immediate
  predecessor; after an empty revoking snapshot the same authorization id may
  return at a lower version. Checkpoints advance by exactly one, so two
  publications without a read in between deny every later read
  (docs/EXECUTION_PLAN.md intends this).
- Module loader: two unusable modules exhaust
  `MAX_RETAINED_MODULE_DESCRIPTORS` for the life of the process; a module denied
  by the second `fstat` or for its exports is mapped already and stays so.
- Voice gateway: an error after a transcript is marked leaves its session ROUTING
  for ever, and RESPONDING never returns to READY.
- Supervision: consumed decisions and nonces are local to the process (ADR 0029);
  a revocation after the trust read of `execute`, and a change between the file's
  inspection and the launch, are documented limits; a failed activation leaves
  its plan PENDING.
- Provisioning: a directory swapped in between `mkdir` and `open` is attested as
  the attempt's own (only the modules are created exclusively), so that an operator
  who interferes three times can make two attempts of one plan return bundles with
  one root; `BundlesAreApart` excepts exactly the attempts that adopted such a
  directory. A failing later phase leaves the directories of earlier ones.
- Native: a client closed during an operation keeps its descriptor until garbage
  collection (ADR 0085); `unlink` removes whatever is at the path since `lstat`.
- Cost ledger: the locks come after the snapshot, so contention ends in a
  serialization failure rather than in waiting.
- Broker: funds of reservations that expired unused are never released by the
  code.
- Membership: sign-in reads the membership and creates the session outside a
  transaction, which is harmless because the guard joins the membership on every
  request; `changePlan` leaves members above the new limit; a removed member may
  still complete a pending claim; `revokedAt` of an invitation is never set.
- Finance: assumptions lock the proposal before the subscription, scale decisions
  the subscription first; two approvals of one scale decision may be pending;
  runs in other currencies than euros can never be reconciled; the audit record
  may be missing although the row exists, and the retry is an exact replay.
- AI COO: a Founder decision card is not created when the log refuses its event.

## 6. Not modelled, and why

Cryptography, byte codecs, input shape and text checks, logging, the web
application and generated or schema code have no state of their own. Approvals
and board review (a Temporal workflow over one conditional update), agent memory,
research acquisition, the product studio, instruction intake and the views are
listed as not modelled in `PROJECT.json` with their reasons. Carrier certificates
and worker-side compositions of the retained supervisor repeat protocols that are
modelled once. Adapters, databases, file systems, launchers and providers appear
as what the code may observe of them.

## 7. Plan

Done: the modules of section 2 and the proofs of section 4. Next:
`BoardApproval` with the Temporal timeout, which starts the calls of
`Publication`; the composition of `TaskRun` and `ApprovalBridge`, in which
`prepared` is the set of runs for which `ApprovalReady` holds.
