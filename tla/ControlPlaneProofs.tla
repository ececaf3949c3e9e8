------------------------- MODULE ControlPlaneProofs -------------------------
(***************************************************************************)
(* Proofs about ControlPlane, for every value of its constants.            *)
(***************************************************************************)
EXTENDS ControlPlane, TLAPS

-----------------------------------------------------------------------------
(* The inductive invariant *)

\* An active run sits on a connection with an authenticated principal.
PrincipalPresent ==
    \A r \in DOMAIN runs : IsActive(r) => connections[runs[r].conn].principal # None

\* The state dispatch permits pass through: at most one outstanding permit per
\* run, only for a run not claimed yet; a claimed run is never offered again.
DispatchLedger ==
    /\ \A d \in dispatches : d.run \in dispatchedRuns /\ d.run \notin claimedDispatchRuns
    /\ \A d, e \in dispatches : d.run = e.run => d = e
    /\ claimedDispatchRuns \subseteq dispatchedRuns
    /\ \A r \in RunIds : starts[r] = IF r \in claimedDispatchRuns THEN 1 ELSE 0
    /\ \A r \in DOMAIN runs :
          /\ runs[r].ext # None => r \in claimedDispatchRuns
          /\ runs[r].status \in {"RUNNING", "PAUSED", "COMPLETED", "FAILED"}
                => runs[r].ext # None

\* What holds of a start call from its making to its return.
StartCallIntact(call) ==
    LET run == runs[call.run]
        cn == connections[run.conn]
    IN /\ call.run \in claimedDispatchRuns
       /\ call.run \in DOMAIN inFlightDispatchAdapters
       /\ inFlightDispatchAdapters[call.run] = call.reg
       /\ run.status = "QUEUED"
       /\ run.ext = None
       /\ call.principal = cn.principal
       /\ cn.runtime \in DOMAIN adapters
       /\ adapters[cn.runtime] = call.reg

StartCallsIntact ==
    /\ \A call \in startCalls : StartCallIntact(call)
    /\ \A a, b \in startCalls : a.run = b.run => a = b

\* The bound, active run r belongs to the adapter registered now.
AdapterRetained(r) ==
    LET rt == connections[runs[r].conn].runtime IN
    rt \in DOMAIN adapters /\ adapters[rt] = runs[r].reg

\* Cancellation permits and calls: one attempt per run at a time, for the
\* external run and the adapter the run is bound to.
CancelLedger ==
    /\ \A r \in DOMAIN runs : IsActive(r) /\ runs[r].ext # None => AdapterRetained(r)
    /\ \A k \in cancellations :
          /\ k.run \in cancelledRuns
          /\ runs[k.run].ext = k.ext
          /\ runs[k.run].reg = k.reg
          /\ runs[k.run].conn = k.conn
          /\ IsActive(k.run) => k.principal = connections[k.conn].principal
    /\ \A call \in cancelCalls : call.run \in cancelledRuns
    /\ \A k, l \in cancellations : k.run = l.run => k = l
    /\ \A a, b \in cancelCalls : a.run = b.run => a = b
    /\ \A k \in cancellations, call \in cancelCalls : k.run # call.run
    /\ \A r \in cancelledRuns : \/ \E k \in cancellations : k.run = r
                                \/ \E call \in cancelCalls : call.run = r
                                \/ r \in successfulCancellations
    /\ \A r \in DOMAIN runs : runs[r].status = "CANCELLED" /\ runs[r].ext # None
                              => r \in successfulCancellations

IInv == /\ TypeOK
        /\ PrincipalPresent
        /\ TaskRunAgreement
        /\ DispatchLedger
        /\ StartCallsIntact
        /\ CancelLedger

-----------------------------------------------------------------------------
(* Type correctness *)

\* The initial state is well typed.
LEMMA TypeInit == Init => TypeOK
BY BoundAssumption DEF Init, EmptyMap, TypeOK, RegistryTypeOK, EvidenceTypeOK, WorkTypeOK,
   PermitTypeOK, Times

\* Steps on the registry keep it well typed; nothing else is disturbed.
LEMMA RegistryTypeStep ==
    ASSUME TypeOK, NEW p \in Principals, RegistryNext(p)
    PROVE  TypeOK'
<1> USE DEF OutsideRegistryUnchanged, registryVars, adapterVars, evidenceVars, workVars,
            usageVars, dispatchVars, cancelVars
<1>0. RegistryTypeOK /\ EvidenceTypeOK /\ WorkTypeOK /\ PermitTypeOK
  BY DEF TypeOK
<1>1. EvidenceTypeOK' /\ WorkTypeOK' /\ PermitTypeOK'
  BY <1>0 DEF RegistryNext, putRuntime, registerRuntimeAdapter, putCapability, putTool,
     putAgent, grantAgentCapability, grantTool, grantAuthority, EvidenceTypeOK, WorkTypeOK,
     PermitTypeOK
<1>2. ASSUME NEW rt \in Runtimes, putRuntime(p, rt) PROVE RegistryTypeOK'
  BY <1>0, <1>2 DEF putRuntime, RegistryTypeOK
<1>3. ASSUME NEW rt \in Runtimes, registerRuntimeAdapter(p, rt) PROVE RegistryTypeOK'
  BY <1>0, <1>3, BoundAssumption DEF registerRuntimeAdapter, RegistryTypeOK, Put
<1>4. ASSUME NEW i \in CapabilityInputs, putCapability(p, i[1], i[2]) PROVE RegistryTypeOK'
  BY <1>0, <1>4, InputAssumption DEF putCapability, RegistryTypeOK, Put
<1>5. ASSUME NEW i \in ToolInputs, putTool(p, i[1], i[2]) PROVE RegistryTypeOK'
  BY <1>0, <1>5, InputAssumption DEF putTool, RegistryTypeOK, Put
<1>6. ASSUME NEW i \in AgentInputs, putAgent(p, i[1], i[2]) PROVE RegistryTypeOK'
  BY <1>0, <1>6, InputAssumption DEF putAgent, RegistryTypeOK, Put
<1>7. ASSUME NEW i \in CapabilityGrantInputs, grantAgentCapability(p, i[1], i[2])
      PROVE  RegistryTypeOK'
  BY <1>0, <1>7, InputAssumption DEF grantAgentCapability, RegistryTypeOK, Put
<1>8. ASSUME NEW i \in ToolGrantInputs, grantTool(p, i[1], i[2]) PROVE RegistryTypeOK'
  BY <1>0, <1>8, InputAssumption DEF grantTool, RegistryTypeOK, Put
<1>9. ASSUME NEW i \in AuthorityInputs, grantAuthority(p, i[1], i[2]) PROVE RegistryTypeOK'
  BY <1>0, <1>9, InputAssumption DEF grantAuthority, RegistryTypeOK, Put
<1> QED
  BY <1>1, <1>2, <1>3, <1>4, <1>5, <1>6, <1>7, <1>8, <1>9 DEF RegistryNext, TypeOK

\* Steps on the evidence keep it, and the runs' references into it, well typed.
LEMMA EvidenceTypeStep ==
    ASSUME TypeOK, NEW p \in Principals, EvidenceNext(p)
    PROVE  TypeOK'
<1> USE DEF registryVars, adapterVars, evidenceVars, workVars, usageVars, dispatchVars,
            cancelVars
<1>0. RegistryTypeOK /\ EvidenceTypeOK /\ WorkTypeOK /\ PermitTypeOK
  BY DEF TypeOK
<1>1. RegistryTypeOK' /\ PermitTypeOK'
  BY <1>0 DEF EvidenceNext, putConnection, recordHeartbeat, appendEvent, RegistryTypeOK,
     PermitTypeOK
<1>2. ASSUME NEW c \in ConnectionIds, NEW cn \in ConnectionInputs, putConnection(p, c, cn)
      PROVE  EvidenceTypeOK' /\ WorkTypeOK'
  BY <1>0, <1>2, InputAssumption DEF putConnection, EvidenceTypeOK, WorkTypeOK, Put
<1>3. ASSUME NEW h \in HeartbeatIds, NEW beat \in HeartbeatInputs, recordHeartbeat(p, h, beat)
      PROVE  EvidenceTypeOK' /\ WorkTypeOK'
  BY <1>0, <1>3, InputAssumption DEF recordHeartbeat, EvidenceTypeOK, WorkTypeOK, Put
<1>4. ASSUME NEW e \in EventIds, NEW event \in EventRecord, appendEvent(p, e, event)
      PROVE  EvidenceTypeOK' /\ WorkTypeOK'
  BY <1>0, <1>4 DEF appendEvent, EvidenceTypeOK, WorkTypeOK, Put
<1> QED
  BY <1>1, <1>2, <1>3, <1>4 DEF EvidenceNext, TypeOK

\* Steps on tasks and runs.
LEMMA WorkTypeStep ==
    ASSUME TypeOK, NEW p \in Principals, WorkNext(p)
    PROVE  TypeOK'
<1> USE DEF registryVars, adapterVars, evidenceVars, workVars, usageVars, dispatchVars,
            cancelVars
<1>0. RegistryTypeOK /\ EvidenceTypeOK /\ WorkTypeOK /\ PermitTypeOK
  BY DEF TypeOK
<1>1. RegistryTypeOK' /\ EvidenceTypeOK'
  BY <1>0 DEF WorkNext, createTask, transitionTask, startRun, transitionRun, recordUsage,
     RegistryTypeOK, EvidenceTypeOK
<1>2. ASSUME NEW i \in TaskInputs, createTask(p, i[1], i[2])
      PROVE  WorkTypeOK' /\ PermitTypeOK'
  <2>1. i[1] \in TaskIds /\ i[2] \in TaskInput
    BY InputAssumption
  <2>2. tasks'[i[1]] \in TaskRecord /\ [cost |-> 0, compute |-> 0] \in Limit
    BY <1>2, <2>1 DEF createTask, Put, TaskInput, TaskRecord, TaskStatuses, Limit
  <2> QED
    BY <1>0, <1>2, <2>1, <2>2 DEF createTask, Put, WorkTypeOK, PermitTypeOK
<1>3. ASSUME NEW t \in TaskIds, NEW next \in TaskStatuses, transitionTask(p, t, next)
      PROVE  WorkTypeOK' /\ PermitTypeOK'
  BY <1>0, <1>3 DEF transitionTask, WorkTypeOK, PermitTypeOK, TaskRecord
<1>4. ASSUME NEW r \in RunIds, NEW t \in TaskIds, NEW c \in ConnectionIds, startRun(p, r, t, c)
      PROVE  WorkTypeOK' /\ PermitTypeOK'
  <2>1. runs'[r] \in RunRecord
    BY <1>0, <1>4 DEF startRun, Put, WorkTypeOK, TaskRecord, RunRecord, RunStatuses
  <2> QED
    BY <1>0, <1>4, <2>1 DEF startRun, Put, WorkTypeOK, PermitTypeOK
<1>5. ASSUME NEW r \in RunIds, NEW next \in RunStatuses, transitionRun(p, r, next)
      PROVE  WorkTypeOK' /\ PermitTypeOK'
  <2>1. TaskNext(runs[r].status, next) \in TaskStatuses \cup {None}
    BY DEF TaskNext, TaskStatuses
  <2>2. /\ DOMAIN tasks' = DOMAIN tasks
        /\ tasks' \in [DOMAIN tasks -> TaskRecord]
    BY <1>0, <1>5, <2>1 DEF transitionRun, WorkTypeOK, TaskRecord
  <2>3. /\ DOMAIN runs' = DOMAIN runs
        /\ runs' \in [DOMAIN runs -> RunRecord]
        /\ \A q \in DOMAIN runs : runs'[q].task = runs[q].task /\ runs'[q].conn = runs[q].conn
    BY <1>0, <1>5 DEF transitionRun, WorkTypeOK, RunRecord
  <2> QED
    BY <1>0, <1>5, <2>2, <2>3 DEF transitionRun, WorkTypeOK, PermitTypeOK
<1>6. ASSUME NEW u \in UsageIds, NEW r \in RunIds, NEW amount \in UsageInputs,
             recordUsage(p, u, r, amount)
      PROVE  WorkTypeOK' /\ PermitTypeOK'
  BY <1>0, <1>6, InputAssumption DEF recordUsage, WorkTypeOK, PermitTypeOK, Limit
<1> QED
  BY <1>1, <1>2, <1>3, <1>4, <1>5, <1>6 DEF WorkNext, TypeOK

\* Steps that mint or claim a permit.
LEMMA PermitTypeStep ==
    ASSUME TypeOK, PrincipalPresent, NEW p \in Principals, PermitNext(p)
    PROVE  TypeOK'
<1> USE DEF registryVars, adapterVars, evidenceVars, workVars, usageVars, dispatchVars,
            cancelVars
<1>0. RegistryTypeOK /\ EvidenceTypeOK /\ WorkTypeOK /\ PermitTypeOK
  BY DEF TypeOK
<1>1. RegistryTypeOK' /\ EvidenceTypeOK' /\ WorkTypeOK'
  BY <1>0 DEF PermitNext, mintDispatch, mintCancellation, executeDispatch,
     executeDispatchStale, executeCancellation, executeCancellationStale, RegistryTypeOK,
     EvidenceTypeOK, WorkTypeOK
<1>2. ASSUME NEW r \in DOMAIN runs, IsActive(r)
      PROVE  /\ connections[runs[r].conn] \in ConnectionRecord
             /\ connections[runs[r].conn].principal \in Principals
  BY <1>0, <1>2 DEF PrincipalPresent, EvidenceTypeOK, WorkTypeOK, ConnectionRecord
<1>3. \A rt \in DOMAIN adapters : adapters[rt] \in Registrations
  BY <1>0, BoundAssumption DEF RegistryTypeOK, Registrations
<1>4. ASSUME NEW r \in RunIds, mintDispatch(p, r) PROVE PermitTypeOK'
  <2>1. r \in DOMAIN runs /\ IsActive(r) /\ runs[r].conn \in ConnectionIds
    BY <1>0, <1>4 DEF mintDispatch, IsActive, ActiveStatuses, WorkTypeOK, RunRecord
  <2>2. dispatches' \subseteq DispatchPermit /\ \A d \in dispatches' : d.run \in DOMAIN runs
    BY <1>0, <1>2, <1>3, <1>4, <2>1 DEF mintDispatch, PermitTypeOK, DispatchPermit
  <2> QED
    BY <1>0, <1>4, <2>2 DEF mintDispatch, PermitTypeOK
<1>5. ASSUME NEW r \in RunIds, mintCancellation(p, r) PROVE PermitTypeOK'
  <2>1. /\ r \in DOMAIN runs /\ IsActive(r) /\ runs[r].conn \in ConnectionIds
        /\ runs[r].ext \in ExternalIds /\ runs[r].reg \in Registrations
    BY <1>0, <1>5 DEF mintCancellation, WorkTypeOK, RunRecord
  <2>2. /\ cancellations' \subseteq CancellationPermit
        /\ \A k \in cancellations' : k.run \in DOMAIN runs
    BY <1>0, <1>2, <1>5, <2>1 DEF mintCancellation, PermitTypeOK, CancellationPermit
  <2> QED
    BY <1>0, <1>5, <2>1, <2>2 DEF mintCancellation, PermitTypeOK
<1>6. ASSUME NEW d \in dispatches, executeDispatch(p, d) PROVE PermitTypeOK'
  <2>1. d \in DispatchPermit /\ d.run \in DOMAIN runs /\ d.run \in RunIds
    BY <1>0 DEF PermitTypeOK, DispatchPermit
  <2>2. [run |-> d.run, principal |-> p, reg |-> d.reg] \in AdapterCall
    BY <2>1 DEF DispatchPermit, AdapterCall
  <2>3. /\ starts' \in [RunIds -> Nat]
        /\ DOMAIN inFlightDispatchAdapters' \subseteq DOMAIN runs
        /\ inFlightDispatchAdapters' \in [DOMAIN inFlightDispatchAdapters' -> Registrations]
    BY <1>0, <1>6, <2>1 DEF executeDispatch, PermitTypeOK, Put, DispatchPermit
  <2> QED
    BY <1>0, <1>6, <2>1, <2>2, <2>3 DEF executeDispatch, PermitTypeOK
<1>7. ASSUME NEW d \in dispatches, executeDispatchStale(p, d) PROVE PermitTypeOK'
  BY <1>0, <1>7 DEF executeDispatchStale, PermitTypeOK
<1>8. ASSUME NEW k \in cancellations, executeCancellation(p, k) PROVE PermitTypeOK'
  <2>1. [run |-> k.run, principal |-> p, reg |-> k.reg] \in AdapterCall
    BY <1>0 DEF PermitTypeOK, CancellationPermit, AdapterCall
  <2> QED
    BY <1>0, <1>8, <2>1 DEF executeCancellation, PermitTypeOK
<1>9. ASSUME NEW k \in cancellations, executeCancellationStale(p, k) PROVE PermitTypeOK'
  BY <1>0, <1>9 DEF executeCancellationStale, PermitTypeOK
<1> QED
  BY <1>1, <1>4, <1>5, <1>6, <1>7, <1>8, <1>9 DEF PermitNext, TypeOK

\* Steps of an adapter answering, and of the clock.
LEMMA AdapterTypeStep ==
    ASSUME TypeOK, AdapterNext \/ tick
    PROVE  TypeOK'
<1> USE DEF registryVars, adapterVars, evidenceVars, workVars, usageVars, dispatchVars,
            cancelVars
<1>0. RegistryTypeOK /\ EvidenceTypeOK /\ WorkTypeOK /\ PermitTypeOK
  BY DEF TypeOK
<1>1. ASSUME NEW call \in startCalls, NEW ext \in ExternalIds, startResolves(call, ext)
      PROVE  TypeOK'
  <2>1. call.run \in DOMAIN runs /\ call.reg \in Registrations
    BY <1>0 DEF PermitTypeOK, AdapterCall
  <2>2. RegistryTypeOK' /\ EvidenceTypeOK'
    BY <1>0, <1>1 DEF startResolves, StartReturns, RegistryTypeOK, EvidenceTypeOK
  <2>3. WorkTypeOK'
    BY <1>0, <1>1, <2>1 DEF startResolves, StartReturns, WorkTypeOK, RunRecord
  <2>4. PermitTypeOK'
    BY <1>0, <1>1, <2>1 DEF startResolves, StartReturns, PermitTypeOK
  <2> QED
    BY <2>2, <2>3, <2>4 DEF TypeOK
<1>2. ASSUME NEW call \in startCalls, startFails(call) PROVE TypeOK'
  BY <1>0, <1>2 DEF startFails, StartReturns, TypeOK, RegistryTypeOK, EvidenceTypeOK,
     WorkTypeOK, PermitTypeOK
<1>3. ASSUME NEW call \in cancelCalls, cancelResolves(call) \/ cancelRejects(call) PROVE TypeOK'
  BY <1>0, <1>3 DEF cancelResolves, cancelRejects, TypeOK, RegistryTypeOK, EvidenceTypeOK,
     WorkTypeOK, PermitTypeOK
<1>4. ASSUME tick PROVE TypeOK'
  BY <1>0, <1>4, BoundAssumption DEF tick, TypeOK, RegistryTypeOK, EvidenceTypeOK,
     WorkTypeOK, PermitTypeOK, Times
<1> QED
  BY <1>1, <1>2, <1>3, <1>4 DEF AdapterNext

\* A step that changes nothing keeps every type.
LEMMA StutterTypeStep == TypeOK /\ UNCHANGED vars => TypeOK'
BY DEF vars, registryVars, adapterVars, evidenceVars, workVars, usageVars, dispatchVars,
   cancelVars, TypeOK, RegistryTypeOK, EvidenceTypeOK, WorkTypeOK, PermitTypeOK

\* Every step keeps the state well typed.
LEMMA TypeStep == TypeOK /\ PrincipalPresent /\ [Next]_vars => TypeOK'
BY RegistryTypeStep, EvidenceTypeStep, WorkTypeStep, PermitTypeStep, AdapterTypeStep,
   StutterTypeStep DEF Next

-----------------------------------------------------------------------------
(* The steps that matter to runs, permits and adapter calls *)

coreVars == <<adapters, connections, tasks, runs, dispatchVars, cancelVars>>

CoreNext ==
    \/ \E p \in Principals :
          \/ \E rt \in Runtimes : registerRuntimeAdapter(p, rt)
          \/ \E c \in ConnectionIds, cn \in ConnectionInputs : putConnection(p, c, cn)
          \/ \E i \in TaskInputs : createTask(p, i[1], i[2])
          \/ \E t \in TaskIds, next \in TaskStatuses : transitionTask(p, t, next)
          \/ \E r \in RunIds, t \in TaskIds, c \in ConnectionIds : startRun(p, r, t, c)
          \/ \E r \in RunIds, next \in RunStatuses : transitionRun(p, r, next)
          \/ PermitNext(p)
    \/ AdapterNext

\* Grants, heartbeats, events, usage and the clock leave the core state alone.
LEMMA Frame == [Next]_vars => CoreNext \/ UNCHANGED coreVars
<1> USE DEF OutsideRegistryUnchanged, registryVars, adapterVars, evidenceVars, workVars,
            usageVars, dispatchVars, cancelVars, coreVars
<1>1. ASSUME NEW p \in Principals, RegistryNext(p) PROVE CoreNext \/ UNCHANGED coreVars
  BY <1>1 DEF RegistryNext, CoreNext, putRuntime, putCapability, putTool, putAgent,
     grantAgentCapability, grantTool, grantAuthority
<1>2. ASSUME NEW p \in Principals, EvidenceNext(p) PROVE CoreNext \/ UNCHANGED coreVars
  BY <1>2 DEF EvidenceNext, CoreNext, recordHeartbeat, appendEvent
<1>3. ASSUME NEW p \in Principals, WorkNext(p) PROVE CoreNext \/ UNCHANGED coreVars
  <2>1. ASSUME NEW u, NEW r, NEW amount, recordUsage(p, u, r, amount)
        PROVE  UNCHANGED coreVars
    BY <2>1 DEF recordUsage
  <2> QED
    BY <1>3, <2>1 DEF WorkNext, CoreNext
<1>4. tick => UNCHANGED coreVars
  BY DEF tick
<1>5. UNCHANGED vars => UNCHANGED coreVars
  BY DEF vars
<1> QED
  BY <1>1, <1>2, <1>3, <1>4, <1>5 DEF Next, CoreNext

\* The effect of transitionRun on runs: one status moves along RUN_TRANSITIONS,
\* from an active status.
LEMMA TransitionRunEffect ==
    ASSUME WorkTypeOK, NEW p, NEW r \in RunIds, NEW next \in RunStatuses,
           transitionRun(p, r, next)
    PROVE  /\ r \in DOMAIN runs /\ IsActive(r)
           /\ DOMAIN runs' = DOMAIN runs
           /\ runs'[r].status = next
           /\ \A q \in DOMAIN runs :
                 /\ runs'[q].task = runs[q].task
                 /\ runs'[q].agent = runs[q].agent
                 /\ runs'[q].conn = runs[q].conn
                 /\ runs'[q].ext = runs[q].ext
                 /\ runs'[q].reg = runs[q].reg
                 /\ q # r => runs'[q] = runs[q]
           /\ \/ runs[r].status = "QUEUED" /\ next \in {"RUNNING", "CANCELLED"}
              \/ runs[r].status = "RUNNING" /\ next \in {"PAUSED", "COMPLETED", "FAILED", "CANCELLED"}
              \/ runs[r].status = "PAUSED" /\ next \in {"RUNNING", "CANCELLED"}
<1>1. r \in DOMAIN runs /\ runs[r] \in RunRecord /\ next \in RunTransitions[runs[r].status]
  BY DEF transitionRun, WorkTypeOK
<1>2. \/ runs[r].status = "QUEUED" /\ next \in {"RUNNING", "CANCELLED"}
      \/ runs[r].status = "RUNNING" /\ next \in {"PAUSED", "COMPLETED", "FAILED", "CANCELLED"}
      \/ runs[r].status = "PAUSED" /\ next \in {"RUNNING", "CANCELLED"}
  BY <1>1 DEF RunTransitions, RunRecord, RunStatuses
<1>3. IsActive(r)
  BY <1>2 DEF IsActive, ActiveStatuses
<1> QED
  BY <1>1, <1>2, <1>3 DEF transitionRun, WorkTypeOK, RunRecord

\* The effect of startRun on runs: one queued, unbound run on a connection
\* that has a principal.
LEMMA StartRunEffect ==
    ASSUME WorkTypeOK, NEW p \in Principals, NEW r \in RunIds, NEW t \in TaskIds,
           NEW c \in ConnectionIds, startRun(p, r, t, c)
    PROVE  /\ r \notin DOMAIN runs
           /\ DOMAIN runs' = DOMAIN runs \cup {r}
           /\ runs'[r].task = t /\ runs'[r].conn = c /\ runs'[r].status = "QUEUED"
           /\ runs'[r].ext = None /\ runs'[r].reg = None
           /\ \A q \in DOMAIN runs : runs'[q] = runs[q]
           /\ connections[c].principal # None
<1>1. StatusOf(c) \in {"CONNECTED", "PARTIAL"}
  BY DEF startRun, ConnectionCanRun
<1>2. connections[c].principal # None
  BY <1>1 DEF StatusOf, deriveConnectionStatus
<1> QED
  BY <1>2 DEF startRun, Put

\* putConnection keeps the identity of a connection that carries an active run.
LEMMA PutConnectionEffect ==
    ASSUME WorkTypeOK, NEW p, NEW c, NEW cn, putConnection(p, c, cn),
           NEW r \in DOMAIN runs, IsActive(r)
    PROVE  /\ connections'[runs[r].conn].principal = connections[runs[r].conn].principal
           /\ connections'[runs[r].conn].runtime = connections[runs[r].conn].runtime
BY DEF putConnection, MayPutConnection, SameIdentity, Put, WorkTypeOK

\* An active run's connection keeps a principal.
LEMMA PrincipalStep == TypeOK /\ PrincipalPresent /\ [Next]_vars => PrincipalPresent'
<1> SUFFICES ASSUME TypeOK, PrincipalPresent, CoreNext \/ UNCHANGED coreVars
             PROVE  PrincipalPresent'
  BY Frame
<1> USE DEF registryVars, adapterVars, evidenceVars, workVars, usageVars, dispatchVars,
            cancelVars
<1>0. WorkTypeOK /\ PermitTypeOK
  BY DEF TypeOK
<1>1. ASSUME UNCHANGED <<runs, connections>> PROVE PrincipalPresent'
  BY <1>1 DEF PrincipalPresent, IsActive
<1>2. ASSUME NEW p, NEW c, NEW cn, putConnection(p, c, cn) PROVE PrincipalPresent'
  <2>1. UNCHANGED runs
    BY <1>2 DEF putConnection
  <2> QED
    BY <1>0, <1>2, <2>1, PutConnectionEffect DEF PrincipalPresent, IsActive
<1>3. ASSUME NEW p \in Principals, NEW r \in RunIds, NEW t \in TaskIds,
             NEW c \in ConnectionIds, startRun(p, r, t, c)
      PROVE  PrincipalPresent'
  <2>1. UNCHANGED connections
    BY <1>3 DEF startRun
  <2>2. /\ DOMAIN runs' = DOMAIN runs \cup {r}
        /\ runs'[r].conn = c /\ connections[c].principal # None
        /\ \A q \in DOMAIN runs : runs'[q] = runs[q]
    BY <1>0, <1>3, StartRunEffect
  <2> QED
    BY <2>1, <2>2 DEF PrincipalPresent, IsActive
<1>4. ASSUME NEW p, NEW r \in RunIds, NEW next \in RunStatuses, transitionRun(p, r, next)
      PROVE  PrincipalPresent'
  <2>1. UNCHANGED connections
    BY <1>4 DEF transitionRun
  <2> QED
    BY <1>0, <1>4, <2>1, TransitionRunEffect DEF PrincipalPresent, IsActive
<1>5. ASSUME NEW call \in startCalls, NEW ext, startResolves(call, ext) PROVE PrincipalPresent'
  BY <1>0, <1>5 DEF startResolves, StartReturns, PrincipalPresent, IsActive, WorkTypeOK,
     PermitTypeOK, RunRecord
<1>6. ASSUME NEW p, PermitNext(p) PROVE PrincipalPresent'
  BY <1>1, <1>6 DEF PermitNext, mintDispatch, mintCancellation, executeDispatch,
     executeDispatchStale, executeCancellation, executeCancellationStale
<1>7. ASSUME AdapterNext PROVE PrincipalPresent'
  BY <1>1, <1>5, <1>7 DEF AdapterNext, startFails, StartReturns, cancelResolves, cancelRejects
<1> QED
  BY <1>1, <1>2, <1>3, <1>4, <1>6, <1>7 DEF CoreNext, coreVars, registerRuntimeAdapter,
     createTask, transitionTask

-----------------------------------------------------------------------------
(* Tasks and runs agree *)

\* startResolves changes only the binding of its run.
LEMMA StartResolvesEffect ==
    ASSUME WorkTypeOK, PermitTypeOK, NEW call \in startCalls, NEW ext \in ExternalIds,
           startResolves(call, ext)
    PROVE  /\ call.run \in DOMAIN runs
           /\ DOMAIN runs' = DOMAIN runs
           /\ runs'[call.run].ext = ext /\ runs'[call.run].reg = call.reg
           /\ \A q \in DOMAIN runs :
                 /\ runs'[q].task = runs[q].task
                 /\ runs'[q].conn = runs[q].conn
                 /\ runs'[q].status = runs[q].status
                 /\ q # call.run => runs'[q] = runs[q]
BY DEF startResolves, WorkTypeOK, PermitTypeOK, RunRecord

\* A step keeps tasks and runs in agreement.
LEMMA AgreementStep == TypeOK /\ TaskRunAgreement /\ [Next]_vars => TaskRunAgreement'
<1> SUFFICES ASSUME TypeOK, TaskRunAgreement, CoreNext \/ UNCHANGED coreVars
             PROVE  TaskRunAgreement'
  BY Frame
<1>0. WorkTypeOK /\ PermitTypeOK
  BY DEF TypeOK
<1>1. ASSUME UNCHANGED <<tasks, runs>> PROVE TaskRunAgreement'
  BY <1>1 DEF TaskRunAgreement
<1>2. ASSUME NEW p \in Principals, NEW i \in TaskInputs, createTask(p, i[1], i[2])
      PROVE  TaskRunAgreement'
  <2>1. /\ UNCHANGED runs
        /\ i[1] \notin DOMAIN tasks /\ DOMAIN tasks' = DOMAIN tasks \cup {i[1]}
        /\ tasks'[i[1]].status = "READY"
        /\ \A t \in DOMAIN tasks : tasks'[t] = tasks[t]
    BY <1>2 DEF createTask, Put
  <2> QED
    BY <1>0, <2>1 DEF TaskRunAgreement, WorkTypeOK
<1>3. ASSUME NEW p \in Principals, NEW t \in TaskIds, NEW next \in TaskStatuses,
             transitionTask(p, t, next)
      PROVE  TaskRunAgreement'
  <2>1. /\ UNCHANGED runs /\ t \in DOMAIN tasks /\ DOMAIN tasks' = DOMAIN tasks
        /\ tasks'[t].status = next
        /\ \A s \in DOMAIN tasks : s # t => tasks'[s] = tasks[s]
        /\ next \notin {"RUNNING", "COMPLETED"} /\ next \in TaskTransitions[tasks[t].status]
        /\ \A r \in DOMAIN runs : runs[r].task = t => ~IsActive(r)
    BY <1>0, <1>3 DEF transitionTask, ActiveRunsOf, WorkTypeOK, TaskRecord
  <2>2. tasks[t].status \in TaskStatuses
    BY <1>0, <2>1 DEF WorkTypeOK, TaskRecord
  <2>3. tasks[t].status \in {"READY", "RUNNING", "BLOCKED"}
    BY <2>1, <2>2 DEF TaskTransitions, TaskStatuses
  <2>4. \A r \in DOMAIN runs : runs[r].task # t
    BY <1>0, <2>1, <2>3 DEF TaskRunAgreement, IsActive, ActiveStatuses, WorkTypeOK, RunRecord,
       RunStatuses
  <2>5. tasks[t].status \in {"READY", "BLOCKED"} /\ next # "FAILED"
    BY <2>1, <2>2, <2>3, <2>4 DEF TaskRunAgreement, TaskTransitions, TaskStatuses
  <2> QED
    BY <1>0, <2>1, <2>4, <2>5 DEF TaskRunAgreement, WorkTypeOK
<1>4. ASSUME NEW p \in Principals, NEW r \in RunIds, NEW t \in TaskIds,
             NEW c \in ConnectionIds, startRun(p, r, t, c)
      PROVE  TaskRunAgreement'
  <2>1. /\ UNCHANGED tasks /\ t \in DOMAIN tasks /\ tasks[t].status = "READY"
        /\ \A q \in DOMAIN runs : runs[q].task = t => ~IsActive(q)
    BY <1>4 DEF startRun, ActiveRunsOf
  <2>2. /\ r \notin DOMAIN runs /\ DOMAIN runs' = DOMAIN runs \cup {r}
        /\ runs'[r].task = t /\ runs'[r].status = "QUEUED"
        /\ \A q \in DOMAIN runs : runs'[q] = runs[q]
    BY <1>0, <1>4, StartRunEffect
  <2>3. \A q \in DOMAIN runs : runs[q].task # t
    BY <1>0, <2>1 DEF TaskRunAgreement, IsActive, ActiveStatuses, WorkTypeOK, RunRecord,
       RunStatuses
  <2> QED
    BY <2>1, <2>2, <2>3 DEF TaskRunAgreement
<1>5. ASSUME NEW p \in Principals, NEW r \in RunIds, NEW next \in RunStatuses,
             transitionRun(p, r, next)
      PROVE  TaskRunAgreement'
  <2>1. /\ r \in DOMAIN runs /\ DOMAIN runs' = DOMAIN runs
        /\ runs'[r].status = next
        /\ \A q \in DOMAIN runs : /\ runs'[q].task = runs[q].task
                                  /\ q # r => runs'[q] = runs[q]
        /\ \/ runs[r].status = "QUEUED" /\ next \in {"RUNNING", "CANCELLED"}
           \/ runs[r].status = "RUNNING" /\ next \in {"PAUSED", "COMPLETED", "FAILED", "CANCELLED"}
           \/ runs[r].status = "PAUSED" /\ next \in {"RUNNING", "CANCELLED"}
    BY <1>0, <1>5, TransitionRunEffect
  <2> DEFINE t == runs[r].task
             taskNext == TaskNext(runs[r].status, next)
  <2>2. t \in DOMAIN tasks
    BY <1>0, <2>1 DEF WorkTypeOK
  <2>3. tasks' = IF taskNext = None THEN tasks ELSE [tasks EXCEPT ![t].status = taskNext]
    BY <1>5 DEF transitionRun
  <2>4. /\ DOMAIN tasks' = DOMAIN tasks
        /\ \A s \in DOMAIN tasks : s # t => tasks'[s] = tasks[s]
        /\ taskNext = None => tasks'[t].status = tasks[t].status
        /\ taskNext # None => tasks'[t].status = taskNext
    BY <1>0, <2>2, <2>3 DEF WorkTypeOK, TaskRecord
  <2>5. tasks'[t].status = CASE next = "QUEUED" -> "READY"
                             [] next \in {"RUNNING", "PAUSED"} -> "RUNNING"
                             [] OTHER -> next
    <3>1. taskNext = IF runs[r].status = "QUEUED" /\ next = "RUNNING" THEN "RUNNING"
                     ELSE IF next \in {"COMPLETED", "FAILED", "CANCELLED"} THEN next
                     ELSE None
      BY DEF TaskNext
    <3>2. tasks[t].status = CASE runs[r].status = "QUEUED" -> "READY"
                              [] runs[r].status \in {"RUNNING", "PAUSED"} -> "RUNNING"
                              [] OTHER -> runs[r].status
      BY <2>1 DEF TaskRunAgreement
    <3> QED
      BY <2>1, <2>4, <3>1, <3>2, NoneAssumption DEF TaskStatuses
  <2>6. \A q \in DOMAIN runs : q # r => runs[q].task # t
    BY <2>1 DEF TaskRunAgreement
  <2>7. \A q \in DOMAIN runs' :
          tasks'[runs'[q].task].status =
             CASE runs'[q].status = "QUEUED" -> "READY"
               [] runs'[q].status \in {"RUNNING", "PAUSED"} -> "RUNNING"
               [] OTHER -> runs'[q].status
    <3> SUFFICES ASSUME NEW q \in DOMAIN runs
                 PROVE  tasks'[runs'[q].task].status =
                         CASE runs'[q].status = "QUEUED" -> "READY"
                           [] runs'[q].status \in {"RUNNING", "PAUSED"} -> "RUNNING"
                           [] OTHER -> runs'[q].status
      BY <2>1
    <3>1. CASE q = r
      BY <2>1, <2>5, <3>1
    <3>2. CASE q # r
      <4>1. runs'[q] = runs[q] /\ runs[q].task # t /\ runs[q].task \in DOMAIN tasks
        BY <1>0, <2>1, <2>6, <3>2 DEF WorkTypeOK
      <4> QED
        BY <2>4, <4>1 DEF TaskRunAgreement
    <3> QED
      BY <3>1, <3>2
  <2> QED
    BY <2>1, <2>2, <2>4, <2>7 DEF TaskRunAgreement
<1>6. ASSUME NEW call \in startCalls, NEW ext \in ExternalIds, startResolves(call, ext)
      PROVE  TaskRunAgreement'
  <2>1. UNCHANGED tasks
    BY <1>6 DEF startResolves, StartReturns
  <2>2. /\ DOMAIN runs' = DOMAIN runs
        /\ \A q \in DOMAIN runs : runs'[q].task = runs[q].task /\ runs'[q].status = runs[q].status
    BY <1>0, <1>6, StartResolvesEffect
  <2> QED
    BY <2>1, <2>2 DEF TaskRunAgreement
<1>7. ASSUME NEW p \in Principals, PermitNext(p) PROVE UNCHANGED <<tasks, runs>>
  BY <1>7 DEF PermitNext, mintDispatch, mintCancellation, executeDispatch,
     executeDispatchStale, executeCancellation, executeCancellationStale, workVars
<1>8. ASSUME AdapterNext PROVE TaskRunAgreement'
  <2>1. ASSUME NEW call, startFails(call) \/ cancelResolves(call) \/ cancelRejects(call)
        PROVE  UNCHANGED <<tasks, runs>>
    BY <2>1 DEF startFails, StartReturns, cancelResolves, cancelRejects, workVars
  <2> QED
    BY <1>1, <1>6, <1>8, <2>1 DEF AdapterNext
<1>9. ASSUME NEW p \in Principals,
             \/ \E rt \in Runtimes : registerRuntimeAdapter(p, rt)
             \/ \E c \in ConnectionIds, cn \in ConnectionInputs : putConnection(p, c, cn)
      PROVE  UNCHANGED <<tasks, runs>>
  BY <1>9 DEF registerRuntimeAdapter, putConnection, workVars
<1>10. UNCHANGED coreVars => UNCHANGED <<tasks, runs>>
  BY DEF coreVars
<1> QED
  BY <1>1, <1>2, <1>3, <1>4, <1>5, <1>7, <1>8, <1>9, <1>10 DEF CoreNext

-----------------------------------------------------------------------------
(* Permits are one-use *)

\* The dispatch ledger survives every step.
LEMMA DispatchLedgerStep == TypeOK /\ DispatchLedger /\ [Next]_vars => DispatchLedger'
<1> SUFFICES ASSUME TypeOK, DispatchLedger, CoreNext \/ UNCHANGED coreVars
             PROVE  DispatchLedger'
  BY Frame
<1> DEFINE ledgerVars == <<runs, dispatches, dispatchedRuns, claimedDispatchRuns, starts>>
<1>0. WorkTypeOK /\ PermitTypeOK
  BY DEF TypeOK
<1>1. ASSUME UNCHANGED ledgerVars PROVE DispatchLedger'
  BY <1>1 DEF DispatchLedger
<1>2. ASSUME NEW p \in Principals, NEW r \in RunIds, NEW t \in TaskIds,
             NEW c \in ConnectionIds, startRun(p, r, t, c)
      PROVE  DispatchLedger'
  <2>1. UNCHANGED <<dispatches, dispatchedRuns, claimedDispatchRuns, starts>>
    BY <1>2 DEF startRun, dispatchVars
  <2>2. /\ DOMAIN runs' = DOMAIN runs \cup {r}
        /\ runs'[r].ext = None /\ runs'[r].status = "QUEUED"
        /\ \A q \in DOMAIN runs : runs'[q] = runs[q]
    BY <1>0, <1>2, StartRunEffect
  <2> QED
    BY <2>1, <2>2 DEF DispatchLedger
<1>3. ASSUME NEW p \in Principals, NEW r \in RunIds, NEW next \in RunStatuses,
             transitionRun(p, r, next)
      PROVE  DispatchLedger'
  <2>1. /\ UNCHANGED <<dispatches, dispatchedRuns, claimedDispatchRuns, starts>>
        /\ runs[r].status = "QUEUED" /\ next = "RUNNING" => runs[r].ext # None
    BY <1>3 DEF transitionRun, dispatchVars, DispatchBound
  <2>2. /\ r \in DOMAIN runs /\ DOMAIN runs' = DOMAIN runs
        /\ runs'[r].status = next
        /\ \A q \in DOMAIN runs : /\ runs'[q].ext = runs[q].ext
                                  /\ q # r => runs'[q] = runs[q]
        /\ \/ runs[r].status = "QUEUED" /\ next \in {"RUNNING", "CANCELLED"}
           \/ runs[r].status \in {"RUNNING", "PAUSED"}
    BY <1>0, <1>3, TransitionRunEffect
  <2> QED
    BY <2>1, <2>2 DEF DispatchLedger
<1>4. ASSUME NEW p \in Principals, NEW r \in RunIds, mintDispatch(p, r) PROVE DispatchLedger'
  <2> DEFINE permit(tool) ==
               [run |-> r, conn |-> runs[r].conn,
                reg |-> adapters[connections[runs[r].conn].runtime],
                principal |-> connections[runs[r].conn].principal, tool |-> tool]
  <2>1. PICK tool \in ToolIds : dispatches' = dispatches \cup {permit(tool)}
    BY <1>4 DEF mintDispatch
  <2>2. /\ UNCHANGED <<runs, claimedDispatchRuns, starts>>
        /\ r \notin dispatchedRuns /\ dispatchedRuns' = dispatchedRuns \cup {r}
    BY <1>4 DEF mintDispatch, workVars
  <2> QED
    BY <2>1, <2>2 DEF DispatchLedger
<1>5. ASSUME NEW p \in Principals, NEW d \in dispatches, executeDispatch(p, d)
      PROVE  DispatchLedger'
  <2>1. /\ UNCHANGED <<runs, dispatchedRuns>>
        /\ dispatches' = dispatches \ {d}
        /\ claimedDispatchRuns' = claimedDispatchRuns \cup {d.run}
        /\ starts' = [starts EXCEPT ![d.run] = @ + 1]
    BY <1>5 DEF executeDispatch, workVars
  <2>2. d.run \in RunIds /\ starts \in [RunIds -> Nat]
    BY <1>0 DEF PermitTypeOK, DispatchPermit
  <2> QED
    BY <2>1, <2>2 DEF DispatchLedger
<1>6. ASSUME NEW p \in Principals, NEW d \in dispatches, executeDispatchStale(p, d)
      PROVE  DispatchLedger'
  <2>1. /\ UNCHANGED <<runs, claimedDispatchRuns, starts>>
        /\ dispatches' = dispatches \ {d}
        /\ dispatchedRuns' = dispatchedRuns \ {d.run}
    BY <1>6 DEF executeDispatchStale, workVars
  <2> QED
    BY <2>1 DEF DispatchLedger
<1>7. ASSUME NEW call \in startCalls, NEW ext \in ExternalIds, startResolves(call, ext)
      PROVE  DispatchLedger'
  <2>1. /\ UNCHANGED <<dispatches, dispatchedRuns, claimedDispatchRuns, starts>>
        /\ call.run \in claimedDispatchRuns
    BY <1>7 DEF startResolves, StartReturns, MayBind
  <2>2. /\ DOMAIN runs' = DOMAIN runs /\ runs'[call.run].ext = ext
        /\ \A q \in DOMAIN runs : /\ runs'[q].status = runs[q].status
                                  /\ q # call.run => runs'[q] = runs[q]
    BY <1>0, <1>7, StartResolvesEffect
  <2> QED
    BY <2>1, <2>2, NoneAssumption DEF DispatchLedger
<1>8. ASSUME NEW p \in Principals,
             \/ \E rt \in Runtimes : registerRuntimeAdapter(p, rt)
             \/ \E c \in ConnectionIds, cn \in ConnectionInputs : putConnection(p, c, cn)
             \/ \E i \in TaskInputs : createTask(p, i[1], i[2])
             \/ \E t \in TaskIds, next \in TaskStatuses : transitionTask(p, t, next)
      PROVE  UNCHANGED ledgerVars
  BY <1>8 DEF registerRuntimeAdapter, putConnection, createTask, transitionTask, workVars,
     dispatchVars
<1>9. ASSUME NEW p \in Principals, PermitNext(p) PROVE DispatchLedger'
  <2>1. ASSUME NEW r, mintCancellation(p, r) PROVE UNCHANGED ledgerVars
    BY <2>1 DEF mintCancellation, workVars, dispatchVars
  <2>2. ASSUME NEW k, executeCancellation(p, k) \/ executeCancellationStale(p, k)
        PROVE  UNCHANGED ledgerVars
    BY <2>2 DEF executeCancellation, executeCancellationStale, workVars, dispatchVars
  <2> QED
    BY <1>1, <1>4, <1>5, <1>6, <1>9, <2>1, <2>2 DEF PermitNext
<1>10. ASSUME AdapterNext PROVE DispatchLedger'
  <2>1. ASSUME NEW call, startFails(call) \/ cancelResolves(call) \/ cancelRejects(call)
        PROVE  UNCHANGED ledgerVars
    BY <2>1 DEF startFails, StartReturns, cancelResolves, cancelRejects, workVars, dispatchVars
  <2> QED
    BY <1>1, <1>7, <1>10, <2>1 DEF AdapterNext
<1>11. UNCHANGED coreVars => UNCHANGED ledgerVars
  BY DEF coreVars, dispatchVars
<1> QED
  BY <1>1, <1>2, <1>3, <1>8, <1>9, <1>10, <1>11 DEF CoreNext

-----------------------------------------------------------------------------
(* An awaited start keeps what its answer needs *)

\* Start calls survive every step intact until they return.
LEMMA StartCallsStep ==
    TypeOK /\ DispatchLedger /\ StartCallsIntact /\ [Next]_vars => StartCallsIntact'
<1> SUFFICES ASSUME TypeOK, DispatchLedger, StartCallsIntact, CoreNext \/ UNCHANGED coreVars
             PROVE  StartCallsIntact'
  BY Frame
<1> DEFINE callVars == <<runs, connections, adapters, claimedDispatchRuns,
                         inFlightDispatchAdapters, startCalls>>
<1>0. WorkTypeOK /\ PermitTypeOK
  BY DEF TypeOK
<1>a. \A call \in startCalls : call.run \in DOMAIN runs /\ IsActive(call.run)
  BY <1>0 DEF PermitTypeOK, StartCallsIntact, StartCallIntact, IsActive, ActiveStatuses
<1>1. ASSUME UNCHANGED callVars PROVE StartCallsIntact'
  BY <1>1 DEF StartCallsIntact, StartCallIntact
<1>2. ASSUME NEW p \in Principals, NEW rt \in Runtimes, registerRuntimeAdapter(p, rt)
      PROVE  StartCallsIntact'
  <2>1. /\ UNCHANGED <<runs, connections, claimedDispatchRuns, inFlightDispatchAdapters, startCalls>>
        /\ DOMAIN adapters' = DOMAIN adapters \cup {rt}
        /\ \A x \in DOMAIN adapters : x # rt => adapters'[x] = adapters[x]
        /\ rt \in DOMAIN adapters => \A r \in DOMAIN inFlightDispatchAdapters :
                                        inFlightDispatchAdapters[r] # adapters[rt]
    BY <1>2 DEF registerRuntimeAdapter, AdapterIsPinned, Put, workVars, evidenceVars,
       dispatchVars
  <2> QED
    BY <2>1 DEF StartCallsIntact, StartCallIntact
<1>3. ASSUME NEW p \in Principals, NEW c \in ConnectionIds, NEW cn \in ConnectionInputs,
             putConnection(p, c, cn)
      PROVE  StartCallsIntact'
  <2>1. UNCHANGED <<runs, adapters, claimedDispatchRuns, inFlightDispatchAdapters, startCalls>>
    BY <1>3 DEF putConnection, adapterVars, workVars, dispatchVars
  <2>2. \A call \in startCalls :
          /\ connections'[runs[call.run].conn].principal = connections[runs[call.run].conn].principal
          /\ connections'[runs[call.run].conn].runtime = connections[runs[call.run].conn].runtime
    BY <1>0, <1>a, <1>3, PutConnectionEffect
  <2> QED
    BY <2>1, <2>2 DEF StartCallsIntact, StartCallIntact
<1>4. ASSUME NEW p \in Principals, NEW r \in RunIds, NEW t \in TaskIds,
             NEW c \in ConnectionIds, startRun(p, r, t, c)
      PROVE  StartCallsIntact'
  <2>1. UNCHANGED <<connections, adapters, claimedDispatchRuns, inFlightDispatchAdapters, startCalls>>
    BY <1>4 DEF startRun, adapterVars, evidenceVars, dispatchVars
  <2>2. \A q \in DOMAIN runs : runs'[q] = runs[q]
    BY <1>0, <1>4, StartRunEffect
  <2> QED
    BY <1>a, <2>1, <2>2 DEF StartCallsIntact, StartCallIntact
<1>5. ASSUME NEW p \in Principals, NEW r \in RunIds, NEW next \in RunStatuses,
             transitionRun(p, r, next)
      PROVE  StartCallsIntact'
  <2>1. /\ UNCHANGED <<connections, adapters, claimedDispatchRuns, inFlightDispatchAdapters, startCalls>>
        /\ r \notin DOMAIN inFlightDispatchAdapters
    BY <1>5 DEF transitionRun, adapterVars, evidenceVars, dispatchVars
  <2>2. \A q \in DOMAIN runs : q # r => runs'[q] = runs[q]
    BY <1>0, <1>5, TransitionRunEffect
  <2> QED
    BY <1>a, <2>1, <2>2 DEF StartCallsIntact, StartCallIntact
<1>6. ASSUME NEW p \in Principals, NEW d \in dispatches, executeDispatch(p, d)
      PROVE  StartCallsIntact'
  <2> DEFINE new == [run |-> d.run, principal |-> p, reg |-> d.reg]
  <2>1. /\ UNCHANGED <<runs, connections, adapters>>
        /\ p = d.principal /\ DispatchIsValid(d)
        /\ claimedDispatchRuns' = claimedDispatchRuns \cup {d.run}
        /\ inFlightDispatchAdapters' = Put(inFlightDispatchAdapters, d.run, d.reg)
        /\ startCalls' = startCalls \cup {new}
    BY <1>6 DEF executeDispatch, adapterVars, evidenceVars, workVars
  <2>2. /\ runs[d.run].status = "QUEUED" /\ runs[d.run].conn = d.conn
        /\ connections[d.conn].runtime \in DOMAIN adapters
        /\ adapters[connections[d.conn].runtime] = d.reg
        /\ connections[d.conn].principal = p
    BY <2>1 DEF DispatchIsValid, PermitIsCurrent
  <2>3. d.run \in DOMAIN runs /\ d.run \notin claimedDispatchRuns /\ runs[d.run].ext = None
    BY <1>0 DEF PermitTypeOK, DispatchLedger
  <2>4. \A call \in startCalls : call.run # d.run
    BY <2>3 DEF StartCallsIntact, StartCallIntact
  <2>5. /\ DOMAIN inFlightDispatchAdapters' = DOMAIN inFlightDispatchAdapters \cup {d.run}
        /\ inFlightDispatchAdapters'[d.run] = d.reg
        /\ \A r \in DOMAIN inFlightDispatchAdapters :
              r # d.run => inFlightDispatchAdapters'[r] = inFlightDispatchAdapters[r]
    BY <2>1 DEF Put
  <2>6. StartCallIntact(new)'
    BY <2>1, <2>2, <2>3, <2>5 DEF StartCallIntact
  <2>7. ASSUME NEW call \in startCalls PROVE StartCallIntact(call)'
    BY <2>1, <2>4, <2>5, <2>7 DEF StartCallsIntact, StartCallIntact
  <2>8. \A a, b \in startCalls' : a.run = b.run => a = b
    BY <2>1, <2>4 DEF StartCallsIntact
  <2> QED
    BY <2>1, <2>6, <2>7, <2>8 DEF StartCallsIntact
<1>7. ASSUME NEW call \in startCalls, StartReturns(call),
             DOMAIN runs' = DOMAIN runs,
             \A q \in DOMAIN runs : q # call.run => runs'[q] = runs[q]
      PROVE  StartCallsIntact'
  <2>1. /\ UNCHANGED <<connections, adapters, claimedDispatchRuns>>
        /\ startCalls' = startCalls \ {call}
        /\ DOMAIN inFlightDispatchAdapters' = DOMAIN inFlightDispatchAdapters \ {call.run}
        /\ \A r \in DOMAIN inFlightDispatchAdapters \ {call.run} :
              inFlightDispatchAdapters'[r] = inFlightDispatchAdapters[r]
    BY <1>7 DEF StartReturns, adapterVars, evidenceVars
  <2>2. \A other \in startCalls' : other \in startCalls /\ other.run # call.run
    BY <2>1 DEF StartCallsIntact
  <2> QED
    BY <1>a, <1>7, <2>1, <2>2 DEF StartCallsIntact, StartCallIntact
<1>8. ASSUME NEW p \in Principals,
             \/ \E i \in TaskInputs : createTask(p, i[1], i[2])
             \/ \E t \in TaskIds, next \in TaskStatuses : transitionTask(p, t, next)
      PROVE  UNCHANGED callVars
  BY <1>8 DEF createTask, transitionTask, adapterVars, evidenceVars, dispatchVars
<1>9. ASSUME NEW p \in Principals, PermitNext(p) PROVE StartCallsIntact'
  <2>1. ASSUME NEW r, mintDispatch(p, r) \/ mintCancellation(p, r) PROVE UNCHANGED callVars
    BY <2>1 DEF mintDispatch, mintCancellation, adapterVars, evidenceVars, workVars, dispatchVars
  <2>2. ASSUME NEW d, executeDispatchStale(p, d) PROVE UNCHANGED callVars
    BY <2>2 DEF executeDispatchStale, adapterVars, evidenceVars, workVars
  <2>3. ASSUME NEW k, executeCancellation(p, k) \/ executeCancellationStale(p, k)
        PROVE  UNCHANGED callVars
    BY <2>3 DEF executeCancellation, executeCancellationStale, adapterVars, evidenceVars,
       workVars, dispatchVars
  <2> QED
    BY <1>1, <1>6, <1>9, <2>1, <2>2, <2>3 DEF PermitNext
<1>10. ASSUME AdapterNext PROVE StartCallsIntact'
  <2>1. ASSUME NEW call, cancelResolves(call) \/ cancelRejects(call) PROVE UNCHANGED callVars
    BY <2>1 DEF cancelResolves, cancelRejects, adapterVars, evidenceVars, workVars, dispatchVars
  <2>2. ASSUME NEW call \in startCalls, startFails(call) PROVE StartCallsIntact'
    BY <1>7, <2>2 DEF startFails
  <2>3. ASSUME NEW call \in startCalls, NEW ext \in ExternalIds, startResolves(call, ext)
        PROVE  StartCallsIntact'
    <3>1. /\ DOMAIN runs' = DOMAIN runs
          /\ \A q \in DOMAIN runs : q # call.run => runs'[q] = runs[q]
      BY <1>0, <2>3, StartResolvesEffect
    <3> QED
      BY <1>7, <2>3, <3>1 DEF startResolves
  <2> QED
    BY <1>1, <1>10, <2>1, <2>2, <2>3 DEF AdapterNext
<1>11. UNCHANGED coreVars => UNCHANGED callVars
  BY DEF coreVars, dispatchVars
<1> QED
  BY <1>1, <1>2, <1>3, <1>4, <1>5, <1>8, <1>9, <1>10, <1>11 DEF CoreNext

-----------------------------------------------------------------------------
(* Cancellation *)

\* The cancellation ledger survives every step.
LEMMA CancelLedgerStep ==
    TypeOK /\ StartCallsIntact /\ CancelLedger /\ [Next]_vars => CancelLedger'
<1> SUFFICES ASSUME TypeOK, StartCallsIntact, CancelLedger, CoreNext \/ UNCHANGED coreVars
             PROVE  CancelLedger'
  BY Frame
<1> DEFINE cancelCore == <<runs, connections, adapters, cancelVars>>
<1> USE DEF cancelVars
<1>0. WorkTypeOK /\ PermitTypeOK
  BY DEF TypeOK
<1>1. ASSUME UNCHANGED cancelCore PROVE CancelLedger'
  BY <1>1 DEF CancelLedger, AdapterRetained, IsActive
<1>2. ASSUME NEW p \in Principals, NEW rt \in Runtimes, registerRuntimeAdapter(p, rt)
      PROVE  CancelLedger'
  <2>1. /\ UNCHANGED <<runs, connections, cancelVars>>
        /\ DOMAIN adapters' = DOMAIN adapters \cup {rt}
        /\ \A x \in DOMAIN adapters : x # rt => adapters'[x] = adapters[x]
        /\ rt \in DOMAIN adapters =>
              \A r \in DOMAIN runs : ~ /\ runs[r].reg = adapters[rt]
                                       /\ IsActive(r)
                                       /\ connections[runs[r].conn].runtime = rt
    BY <1>2 DEF registerRuntimeAdapter, AdapterIsPinned, Put, workVars, evidenceVars
  <2>2. \A r \in DOMAIN runs : IsActive(r) /\ runs[r].ext # None => AdapterRetained(r)'
    BY <2>1 DEF CancelLedger, AdapterRetained
  <2> QED
    BY <2>1, <2>2 DEF CancelLedger, IsActive
<1>3. ASSUME NEW p \in Principals, NEW c \in ConnectionIds, NEW cn \in ConnectionInputs,
             putConnection(p, c, cn)
      PROVE  CancelLedger'
  <2>1. UNCHANGED <<runs, adapters, cancelVars>>
    BY <1>3 DEF putConnection, adapterVars, workVars
  <2>2. \A r \in DOMAIN runs : IsActive(r) =>
          /\ connections'[runs[r].conn].principal = connections[runs[r].conn].principal
          /\ connections'[runs[r].conn].runtime = connections[runs[r].conn].runtime
    BY <1>0, <1>3, PutConnectionEffect
  <2>3. \A r \in DOMAIN runs : IsActive(r) /\ runs[r].ext # None => AdapterRetained(r)'
    BY <2>1, <2>2 DEF CancelLedger, AdapterRetained
  <2>4. \A k \in cancellations : IsActive(k.run) => k.principal = connections'[k.conn].principal
    BY <1>0, <2>2 DEF CancelLedger, PermitTypeOK
  <2> QED
    BY <2>1, <2>3, <2>4 DEF CancelLedger, IsActive
<1>4. ASSUME NEW p \in Principals, NEW r \in RunIds, NEW t \in TaskIds,
             NEW c \in ConnectionIds, startRun(p, r, t, c)
      PROVE  CancelLedger'
  <2>1. UNCHANGED <<connections, adapters, cancelVars>>
    BY <1>4 DEF startRun, adapterVars, evidenceVars
  <2>2. /\ DOMAIN runs' = DOMAIN runs \cup {r}
        /\ runs'[r].ext = None
        /\ \A q \in DOMAIN runs : runs'[q] = runs[q]
    BY <1>0, <1>4, StartRunEffect
  <2> QED
    BY <1>0, <2>1, <2>2 DEF CancelLedger, AdapterRetained, IsActive, PermitTypeOK
<1>5. ASSUME NEW p \in Principals, NEW r \in RunIds, NEW next \in RunStatuses,
             transitionRun(p, r, next)
      PROVE  CancelLedger'
  <2>1. /\ UNCHANGED <<connections, adapters, cancelVars>>
        /\ next = "CANCELLED" => runs[r].ext = None \/ r \in successfulCancellations
    BY <1>5 DEF transitionRun, CancellationConfirmed, adapterVars, evidenceVars
  <2>2. /\ r \in DOMAIN runs /\ IsActive(r) /\ DOMAIN runs' = DOMAIN runs
        /\ runs'[r].status = next
        /\ \A q \in DOMAIN runs :
              /\ runs'[q].conn = runs[q].conn
              /\ runs'[q].ext = runs[q].ext
              /\ runs'[q].reg = runs[q].reg
              /\ q # r => runs'[q] = runs[q]
    BY <1>0, <1>5, TransitionRunEffect
  <2>3. \A q \in DOMAIN runs : IsActive(q)' => IsActive(q)
    BY <2>2 DEF IsActive
  <2>4. \A q \in DOMAIN runs' : IsActive(q)' /\ runs'[q].ext # None => AdapterRetained(q)'
    BY <2>1, <2>2, <2>3 DEF CancelLedger, AdapterRetained
  <2>5. \A k \in cancellations :
          /\ runs'[k.run].ext = k.ext /\ runs'[k.run].reg = k.reg /\ runs'[k.run].conn = k.conn
          /\ IsActive(k.run)' => k.principal = connections'[k.conn].principal
    BY <1>0, <2>1, <2>2, <2>3 DEF CancelLedger, PermitTypeOK
  <2>6. \A q \in DOMAIN runs' : runs'[q].status = "CANCELLED" /\ runs'[q].ext # None
                                => q \in successfulCancellations
    BY <2>1, <2>2 DEF CancelLedger
  <2> QED
    BY <2>1, <2>4, <2>5, <2>6 DEF CancelLedger
<1>6. ASSUME NEW call \in startCalls, NEW ext \in ExternalIds, startResolves(call, ext)
      PROVE  CancelLedger'
  <2>1. UNCHANGED <<connections, adapters, cancelVars>>
    BY <1>6 DEF startResolves, StartReturns, adapterVars, evidenceVars
  <2>2. /\ call.run \in DOMAIN runs /\ DOMAIN runs' = DOMAIN runs
        /\ runs'[call.run].ext = ext /\ runs'[call.run].reg = call.reg
        /\ \A q \in DOMAIN runs :
              /\ runs'[q].conn = runs[q].conn
              /\ runs'[q].status = runs[q].status
              /\ q # call.run => runs'[q] = runs[q]
    BY <1>0, <1>6, StartResolvesEffect
  <2>3. /\ runs[call.run].ext = None /\ runs[call.run].status = "QUEUED"
        /\ connections[runs[call.run].conn].runtime \in DOMAIN adapters
        /\ adapters[connections[runs[call.run].conn].runtime] = call.reg
    BY DEF StartCallsIntact, StartCallIntact
  <2>4. \A k \in cancellations : k.run # call.run /\ k.run \in DOMAIN runs
    BY <1>0, <2>3, NoneAssumption DEF CancelLedger, PermitTypeOK, CancellationPermit
  <2>5. \A q \in DOMAIN runs' : IsActive(q)' /\ runs'[q].ext # None => AdapterRetained(q)'
    BY <2>1, <2>2, <2>3 DEF CancelLedger, AdapterRetained, IsActive
  <2> QED
    BY <2>1, <2>2, <2>3, <2>4, <2>5 DEF CancelLedger, IsActive
<1>7. ASSUME NEW p \in Principals, NEW r \in RunIds, mintCancellation(p, r) PROVE CancelLedger'
  <2> DEFINE k == [run |-> r, conn |-> runs[r].conn, reg |-> runs[r].reg,
                   principal |-> connections[runs[r].conn].principal, ext |-> runs[r].ext]
  <2>1. /\ UNCHANGED <<runs, connections, adapters, cancelCalls, successfulCancellations>>
        /\ r \in DOMAIN runs /\ r \notin cancelledRuns
        /\ cancellations' = cancellations \cup {k}
        /\ cancelledRuns' = cancelledRuns \cup {r}
    BY <1>7 DEF mintCancellation, adapterVars, evidenceVars, workVars
  <2>2. \A l \in cancellations : l.run # r
    BY <2>1 DEF CancelLedger
  <2>3. \A call \in cancelCalls : call.run # r
    BY <2>1 DEF CancelLedger
  <2>4. \A q \in cancelledRuns' : \/ \E l \in cancellations' : l.run = q
                                  \/ \E call \in cancelCalls' : call.run = q
                                  \/ q \in successfulCancellations'
    <3>1. k \in cancellations' /\ k.run = r
      BY <2>1
    <3> QED
      BY <2>1, <3>1 DEF CancelLedger
  <2> QED
    BY <2>1, <2>2, <2>3, <2>4 DEF CancelLedger, AdapterRetained, IsActive
<1>8. ASSUME NEW p \in Principals, NEW k \in cancellations, executeCancellation(p, k)
      PROVE  CancelLedger'
  <2> DEFINE new == [run |-> k.run, principal |-> p, reg |-> k.reg]
  <2>1. /\ UNCHANGED <<runs, connections, adapters, cancelledRuns, successfulCancellations>>
        /\ cancellations' = cancellations \ {k}
        /\ cancelCalls' = cancelCalls \cup {new}
    BY <1>8 DEF executeCancellation, adapterVars, evidenceVars, workVars
  <2>2. /\ \A l \in cancellations' : l.run # k.run
        /\ \A call \in cancelCalls : call.run # k.run
        /\ k.run \in cancelledRuns
    BY <2>1 DEF CancelLedger
  <2>3. \A q \in cancelledRuns' : \/ \E l \in cancellations' : l.run = q
                                  \/ \E call \in cancelCalls' : call.run = q
                                  \/ q \in successfulCancellations'
    <3>1. new \in cancelCalls' /\ new.run = k.run
      BY <2>1
    <3> QED
      BY <2>1, <3>1 DEF CancelLedger
  <2> QED
    BY <2>1, <2>2, <2>3 DEF CancelLedger, AdapterRetained, IsActive
<1>9. ASSUME NEW p \in Principals, NEW k \in cancellations, executeCancellationStale(p, k)
      PROVE  CancelLedger'
  <2>1. /\ UNCHANGED <<runs, connections, adapters, cancelCalls, successfulCancellations>>
        /\ cancellations' = cancellations \ {k}
        /\ cancelledRuns' = cancelledRuns \ {k.run}
    BY <1>9 DEF executeCancellationStale, adapterVars, evidenceVars, workVars
  <2> QED
    BY <2>1 DEF CancelLedger, AdapterRetained, IsActive
<1>10. ASSUME NEW call \in cancelCalls, cancelResolves(call) \/ cancelRejects(call)
       PROVE  CancelLedger'
  <2>1. /\ UNCHANGED <<runs, connections, adapters, cancellations>>
        /\ cancelCalls' = cancelCalls \ {call}
        /\ \/ /\ successfulCancellations' = successfulCancellations \cup {call.run}
              /\ cancelledRuns' = cancelledRuns
           \/ /\ successfulCancellations' = successfulCancellations
              /\ cancelledRuns' = cancelledRuns \ {call.run}
    BY <1>10 DEF cancelResolves, cancelRejects, adapterVars, evidenceVars, workVars
  <2> QED
    BY <2>1 DEF CancelLedger, AdapterRetained, IsActive
<1>11. ASSUME NEW p \in Principals,
              \/ \E i \in TaskInputs : createTask(p, i[1], i[2])
              \/ \E t \in TaskIds, next \in TaskStatuses : transitionTask(p, t, next)
       PROVE  UNCHANGED cancelCore
  BY <1>11 DEF createTask, transitionTask, adapterVars, evidenceVars
<1>12. ASSUME NEW p \in Principals, PermitNext(p) PROVE CancelLedger'
  <2>1. ASSUME NEW r, mintDispatch(p, r) PROVE UNCHANGED cancelCore
    BY <2>1 DEF mintDispatch, adapterVars, evidenceVars, workVars
  <2>2. ASSUME NEW d, executeDispatch(p, d) \/ executeDispatchStale(p, d)
        PROVE  UNCHANGED cancelCore
    BY <2>2 DEF executeDispatch, executeDispatchStale, adapterVars, evidenceVars, workVars
  <2> QED
    BY <1>1, <1>7, <1>8, <1>9, <1>12, <2>1, <2>2 DEF PermitNext
<1>13. ASSUME AdapterNext PROVE CancelLedger'
  <2>1. ASSUME NEW call, startFails(call) PROVE UNCHANGED cancelCore
    BY <2>1 DEF startFails, StartReturns, adapterVars, evidenceVars
  <2> QED
    BY <1>1, <1>6, <1>10, <1>13, <2>1 DEF AdapterNext
<1>14. UNCHANGED coreVars => UNCHANGED cancelCore
  BY DEF coreVars
<1> QED
  BY <1>1, <1>2, <1>3, <1>4, <1>5, <1>11, <1>12, <1>13, <1>14 DEF CoreNext

-----------------------------------------------------------------------------
(* The theorems *)

\* The inductive invariant holds initially.
LEMMA InvInit == Init => IInv
<1> SUFFICES ASSUME Init PROVE IInv
  OBVIOUS
<1>1. TypeOK
  BY TypeInit
<1>2. PrincipalPresent /\ TaskRunAgreement
  BY DEF Init, EmptyMap, PrincipalPresent, TaskRunAgreement
<1>3. DispatchLedger /\ StartCallsIntact /\ CancelLedger
  BY DEF Init, EmptyMap, DispatchLedger, StartCallsIntact, CancelLedger
<1> QED
  BY <1>1, <1>2, <1>3 DEF IInv

\* The inductive invariant is kept by every step.
LEMMA InvStep == IInv /\ [Next]_vars => IInv'
BY TypeStep, PrincipalStep, AgreementStep, DispatchLedgerStep, StartCallsStep,
   CancelLedgerStep DEF IInv

\* The inductive invariant implies each checked property.
LEMMA InvImplies ==
    IInv => /\ TypeOK /\ TaskRunAgreement /\ StartAtMostOnce /\ StartedRunIsNeverOrphaned
            /\ BoundRunStaysCancellable /\ CancelledRunIsStopped
<1> SUFFICES ASSUME IInv PROVE /\ StartAtMostOnce /\ StartedRunIsNeverOrphaned
                               /\ BoundRunStaysCancellable /\ CancelledRunIsStopped
  BY DEF IInv
<1>0. WorkTypeOK /\ PermitTypeOK /\ DispatchLedger /\ StartCallsIntact /\ CancelLedger
  BY DEF IInv, TypeOK
<1>1. StartAtMostOnce
  BY <1>0 DEF DispatchLedger, StartAtMostOnce, WorkTypeOK
<1>2. StartedRunIsNeverOrphaned
  <2> SUFFICES ASSUME NEW call \in startCalls, NEW ext \in ExternalIds,
                      \A q \in DOMAIN runs :
                         runs[q].conn = runs[call.run].conn => runs[q].ext # ext
               PROVE  MayBind(call, ext)
    BY DEF StartedRunIsNeverOrphaned
  <2> QED
    BY <1>0 DEF StartCallsIntact, StartCallIntact, MayBind, ActiveStatuses
<1>3. BoundRunStaysCancellable
  <2> SUFFICES ASSUME NEW r \in DOMAIN runs, IsActive(r), runs[r].ext # None
               PROVE  /\ AdapterRetained(r)
                      /\ \A k \in cancellations : k.run = r => CancellationIsValid(k)
                      /\ r \in cancelledRuns =>
                            \/ \E k \in cancellations : k.run = r
                            \/ \E call \in cancelCalls : call.run = r
                            \/ r \in successfulCancellations
    BY DEF BoundRunStaysCancellable, AdapterRetained
  <2> QED
    BY <1>0 DEF CancelLedger, AdapterRetained, CancellationIsValid, PermitIsCurrent
<1>4. CancelledRunIsStopped
  BY <1>0 DEF CancelLedger, StartCallsIntact, StartCallIntact, CancelledRunIsStopped
<1> QED
  BY <1>1, <1>2, <1>3, <1>4

\* InMemoryControlPlane keeps its inductive invariant whatever its callers do.
THEOREM Invariance == Spec => []IInv
BY InvInit, InvStep, PTL DEF Spec

\* Every reachable state is well typed and every reference in it resolves.
THEOREM TypeCorrect == Spec => []TypeOK
BY Invariance, InvImplies, PTL

\* Tasks and runs never drift apart (transitionRun, transitionTask, startRun).
THEOREM TasksFollowRuns == Spec => []TaskRunAgreement
BY Invariance, InvImplies, PTL

\* A runtime is asked at most once to start a run (mintDispatch, #claimDispatch).
THEOREM DispatchIsOneUse == Spec => []StartAtMostOnce
BY Invariance, InvImplies, PTL

\* The answer of an awaited start can always be bound (#bindExternalRun).
THEOREM NoOrphanedStart == Spec => []StartedRunIsNeverOrphaned
BY Invariance, InvImplies, PTL

\* A bound run can always be cancelled through the adapter that started it.
THEOREM Cancellable == Spec => []BoundRunStaysCancellable
BY Invariance, InvImplies, PTL

\* A CANCELLED run that was bound had its adapter's confirmation.
THEOREM CancelledIsStopped == Spec => []CancelledRunIsStopped
BY Invariance, InvImplies, PTL

-----------------------------------------------------------------------------
(* Evidence: what CONNECTED and a first non-bootstrap run rest on *)

\* ConnectedIsEarned in inductive form: the proof's references resolve.  That
\* the proving run was started follows from DispatchLedger.
ConnectedEvidence ==
    \A c \in DOMAIN connections : connections[c].status = "CONNECTED" =>
        LET proof == connections[c].roundTrip IN
        /\ proof # None
        /\ proof.run \in DOMAIN runs
        /\ proof.event \in DOMAIN events
        /\ runs[proof.run].conn = c
        /\ runs[proof.run].status = "COMPLETED"
        /\ events[proof.event].run = proof.run
        /\ events[proof.event].actor = connections[c].principal

\* A completed run and the kind of its task never change.
LEMMA CompletedIsFinal ==
    ASSUME TypeOK, [Next]_vars
    PROVE  /\ \A r \in DOMAIN runs :
                 /\ r \in DOMAIN runs'
                 /\ runs'[r].conn = runs[r].conn
                 /\ runs'[r].task = runs[r].task
                 /\ runs[r].status = "COMPLETED" => runs'[r].status = "COMPLETED"
           /\ \A t \in DOMAIN tasks : t \in DOMAIN tasks' /\ tasks'[t].kind = tasks[t].kind
<1> DEFINE Kept == \A r \in DOMAIN runs :
                     /\ r \in DOMAIN runs'
                     /\ runs'[r].conn = runs[r].conn
                     /\ runs'[r].task = runs[r].task
                     /\ runs[r].status = "COMPLETED" => runs'[r].status = "COMPLETED"
           KindKept == \A t \in DOMAIN tasks :
                         t \in DOMAIN tasks' /\ tasks'[t].kind = tasks[t].kind
<1>0. WorkTypeOK /\ PermitTypeOK /\ (CoreNext \/ UNCHANGED coreVars)
  BY Frame DEF TypeOK
<1>1. UNCHANGED <<tasks, runs>> => Kept /\ KindKept
  OBVIOUS
<1>2. ASSUME NEW p \in Principals, NEW i \in TaskInputs, createTask(p, i[1], i[2])
      PROVE  Kept /\ KindKept
  BY <1>2 DEF createTask, Put
<1>3. ASSUME NEW p \in Principals, NEW t \in TaskIds, NEW next \in TaskStatuses,
             transitionTask(p, t, next)
      PROVE  Kept /\ KindKept
  BY <1>0, <1>3 DEF transitionTask, WorkTypeOK, TaskRecord
<1>4. ASSUME NEW p \in Principals, NEW r \in RunIds, NEW t \in TaskIds,
             NEW c \in ConnectionIds, startRun(p, r, t, c)
      PROVE  Kept /\ KindKept
  <2>1. UNCHANGED tasks
    BY <1>4 DEF startRun
  <2>2. /\ DOMAIN runs' = DOMAIN runs \cup {r}
        /\ \A q \in DOMAIN runs : runs'[q] = runs[q]
    BY <1>0, <1>4, StartRunEffect
  <2> QED
    BY <2>1, <2>2
<1>5. ASSUME NEW p \in Principals, NEW r \in RunIds, NEW next \in RunStatuses,
             transitionRun(p, r, next)
      PROVE  Kept /\ KindKept
  <2>1. KindKept
    BY <1>0, <1>5 DEF transitionRun, WorkTypeOK, TaskRecord
  <2>2. /\ DOMAIN runs' = DOMAIN runs /\ IsActive(r)
        /\ \A q \in DOMAIN runs : /\ runs'[q].task = runs[q].task
                                  /\ runs'[q].conn = runs[q].conn
                                  /\ q # r => runs'[q] = runs[q]
    BY <1>0, <1>5, TransitionRunEffect
  <2> QED
    BY <2>1, <2>2 DEF IsActive, ActiveStatuses
<1>6. ASSUME NEW call \in startCalls, NEW ext \in ExternalIds, startResolves(call, ext)
      PROVE  Kept /\ KindKept
  <2>1. UNCHANGED tasks
    BY <1>6 DEF startResolves, StartReturns
  <2> QED
    BY <1>0, <1>6, <2>1, StartResolvesEffect
<1>7. ASSUME NEW p \in Principals, PermitNext(p) PROVE UNCHANGED <<tasks, runs>>
  BY <1>7 DEF PermitNext, mintDispatch, mintCancellation, executeDispatch,
     executeDispatchStale, executeCancellation, executeCancellationStale, workVars
<1>8. ASSUME NEW call, startFails(call) \/ cancelResolves(call) \/ cancelRejects(call)
      PROVE  UNCHANGED <<tasks, runs>>
  BY <1>8 DEF startFails, StartReturns, cancelResolves, cancelRejects, workVars
<1>9. ASSUME NEW p \in Principals,
             \/ \E rt \in Runtimes : registerRuntimeAdapter(p, rt)
             \/ \E c \in ConnectionIds, cn \in ConnectionInputs : putConnection(p, c, cn)
      PROVE  UNCHANGED <<tasks, runs>>
  BY <1>9 DEF registerRuntimeAdapter, putConnection, workVars
<1>10. ASSUME AdapterNext PROVE Kept /\ KindKept
  BY <1>1, <1>6, <1>8, <1>10 DEF AdapterNext
<1>11. UNCHANGED coreVars => UNCHANGED <<tasks, runs>>
  BY DEF coreVars
<1>12. Kept /\ KindKept
  BY <1>0, <1>1, <1>2, <1>3, <1>4, <1>5, <1>7, <1>9, <1>10, <1>11 DEF CoreNext
<1> QED
  BY <1>12

\* A step adds a run only through startRun.
LEMMA NewRunIsStarted ==
    ASSUME TypeOK, [Next]_vars, NEW r, r \in DOMAIN runs', r \notin DOMAIN runs
    PROVE  r \in RunIds /\ \E p \in Principals, t \in TaskIds, c \in ConnectionIds : startRun(p, r, t, c)
<1>0. WorkTypeOK /\ PermitTypeOK /\ (CoreNext \/ UNCHANGED coreVars)
  BY Frame DEF TypeOK
<1>1. DOMAIN runs' # DOMAIN runs
  OBVIOUS
<1>2. UNCHANGED coreVars => UNCHANGED runs
  BY DEF coreVars
<1>3. ASSUME NEW p \in Principals,
             \/ \E rt \in Runtimes : registerRuntimeAdapter(p, rt)
             \/ \E c \in ConnectionIds, cn \in ConnectionInputs : putConnection(p, c, cn)
             \/ \E i \in TaskInputs : createTask(p, i[1], i[2])
             \/ \E t \in TaskIds, next \in TaskStatuses : transitionTask(p, t, next)
      PROVE  UNCHANGED runs
  BY <1>3 DEF registerRuntimeAdapter, putConnection, createTask, transitionTask, workVars
<1>4. ASSUME NEW p \in Principals, PermitNext(p) PROVE UNCHANGED runs
  BY <1>4 DEF PermitNext, mintDispatch, mintCancellation, executeDispatch,
     executeDispatchStale, executeCancellation, executeCancellationStale, workVars
<1>5. ASSUME NEW p \in Principals, NEW q \in RunIds, NEW next \in RunStatuses,
             transitionRun(p, q, next)
      PROVE  DOMAIN runs' = DOMAIN runs
  BY <1>5 DEF transitionRun
<1>6. ASSUME AdapterNext PROVE DOMAIN runs' = DOMAIN runs
  BY <1>6 DEF AdapterNext, startFails, startResolves, StartReturns, cancelResolves,
     cancelRejects, workVars
<1>7. PICK p \in Principals, q \in RunIds, t \in TaskIds, c \in ConnectionIds : startRun(p, q, t, c)
  BY <1>0, <1>1, <1>2, <1>3, <1>4, <1>5, <1>6 DEF CoreNext
<1>8. DOMAIN runs' = DOMAIN runs \cup {q}
  BY <1>0, <1>7, StartRunEffect
<1> QED
  BY <1>7, <1>8

\* A connection whose derived status is CONNECTED has a proven round trip.
LEMMA ConnectedIsProven ==
    ASSUME NEW c, NEW cn, deriveConnectionStatus(c, cn) = "CONNECTED"
    PROVE  cn.roundTrip # None /\ RoundTripProven(c, cn)
BY DEF deriveConnectionStatus, AllProofs

\* A step keeps the bootstrap order.
LEMMA BootstrapStep == TypeOK /\ BootstrapFirst /\ [Next]_vars => BootstrapFirst'
<1> SUFFICES ASSUME TypeOK, BootstrapFirst, [Next]_vars,
                    NEW r \in DOMAIN runs', tasks'[runs'[r].task].kind # HealthCheck
             PROVE  \E q \in DOMAIN runs' : /\ runs'[q].conn = runs'[r].conn
                                            /\ runs'[q].status = "COMPLETED"
                                            /\ tasks'[runs'[q].task].kind = HealthCheck
  BY DEF BootstrapFirst
<1>0. WorkTypeOK
  BY DEF TypeOK
<1>1. /\ \A q \in DOMAIN runs :
            /\ q \in DOMAIN runs'
            /\ runs'[q].conn = runs[q].conn
            /\ runs'[q].task = runs[q].task
            /\ runs[q].status = "COMPLETED" => runs'[q].status = "COMPLETED"
      /\ \A t \in DOMAIN tasks : t \in DOMAIN tasks' /\ tasks'[t].kind = tasks[t].kind
  BY CompletedIsFinal
<1>2. SUFFICES \E q \in DOMAIN runs : /\ runs[q].conn = runs'[r].conn
                                       /\ runs[q].status = "COMPLETED"
                                       /\ tasks[runs[q].task].kind = HealthCheck
  BY <1>0, <1>1 DEF WorkTypeOK
<1>3. CASE r \in DOMAIN runs
  BY <1>0, <1>1, <1>3 DEF BootstrapFirst, WorkTypeOK
<1>4. CASE r \notin DOMAIN runs
  <2>1. PICK p \in Principals, t \in TaskIds, c \in ConnectionIds : startRun(p, r, t, c)
    BY <1>4, NewRunIsStarted
  <2>2. r \in RunIds /\ runs'[r].task = t /\ runs'[r].conn = c
    BY <1>4, <2>1, NewRunIsStarted DEF startRun, Put
  <2>3. /\ UNCHANGED tasks /\ ConnectionCanRun(c, tasks[t])
    BY <2>1 DEF startRun
  <2>4. StatusOf(c) = "CONNECTED"
    BY <2>2, <2>3 DEF ConnectionCanRun
  <2>5. RoundTripProven(c, connections[c])
    BY <2>4, ConnectedIsProven DEF StatusOf
  <2>6. PICK q \in DOMAIN runs : runs[q].conn = c /\ runs[q].status = "COMPLETED"
    BY <2>5 DEF RoundTripProven, RoundTripCorrelates
  <2>7. CASE tasks[runs[q].task].kind = HealthCheck
    BY <2>2, <2>6, <2>7
  <2>8. CASE tasks[runs[q].task].kind # HealthCheck
    BY <2>2, <2>6, <2>8 DEF BootstrapFirst
  <2> QED
    BY <2>7, <2>8
<1> QED
  BY <1>3, <1>4

\* Events already appended never change, and a connection changes only through
\* putConnection.
LEMMA EvidenceKept ==
    ASSUME [Next]_vars
    PROVE  /\ \A e \in DOMAIN events : e \in DOMAIN events' /\ events'[e] = events[e]
           /\ \/ UNCHANGED connections
              \/ \E p \in Principals, c \in ConnectionIds, cn \in ConnectionInputs :
                    putConnection(p, c, cn)
<1> DEFINE Kept == \A e \in DOMAIN events : e \in DOMAIN events' /\ events'[e] = events[e]
           Put1 == \E p \in Principals, c \in ConnectionIds, cn \in ConnectionInputs :
                     putConnection(p, c, cn)
<1> USE DEF evidenceVars
<1>1. ASSUME UNCHANGED <<events, connections>> PROVE Kept /\ (UNCHANGED connections \/ Put1)
  BY <1>1
<1>2. ASSUME NEW p \in Principals, RegistryNext(p) PROVE UNCHANGED <<events, connections>>
  BY <1>2 DEF RegistryNext, putRuntime, registerRuntimeAdapter, putCapability, putTool,
     putAgent, grantAgentCapability, grantTool, grantAuthority, OutsideRegistryUnchanged
<1>3. ASSUME NEW p \in Principals, EvidenceNext(p)
      PROVE  Kept /\ (UNCHANGED connections \/ Put1)
  <2>1. ASSUME NEW c \in ConnectionIds, NEW cn \in ConnectionInputs, putConnection(p, c, cn)
        PROVE  Kept /\ Put1
    BY <2>1 DEF putConnection
  <2>2. ASSUME NEW h, NEW beat, recordHeartbeat(p, h, beat)
        PROVE  UNCHANGED <<events, connections>>
    BY <2>2 DEF recordHeartbeat
  <2>3. ASSUME NEW e, NEW event, appendEvent(p, e, event)
        PROVE  Kept /\ UNCHANGED connections
    BY <2>3 DEF appendEvent, Put
  <2> QED
    BY <1>1, <1>3, <2>1, <2>2, <2>3 DEF EvidenceNext
<1>4. ASSUME NEW p \in Principals, WorkNext(p) PROVE UNCHANGED <<events, connections>>
  BY <1>4 DEF WorkNext, createTask, transitionTask, startRun, transitionRun, recordUsage
<1>5. ASSUME NEW p \in Principals, PermitNext(p) PROVE UNCHANGED <<events, connections>>
  BY <1>5 DEF PermitNext, mintDispatch, mintCancellation, executeDispatch,
     executeDispatchStale, executeCancellation, executeCancellationStale
<1>6. ASSUME AdapterNext \/ tick \/ UNCHANGED vars PROVE UNCHANGED <<events, connections>>
  BY <1>6 DEF AdapterNext, startFails, startResolves, StartReturns, cancelResolves,
     cancelRejects, tick, vars
<1>7. Kept /\ (UNCHANGED connections \/ Put1)
  BY <1>1, <1>2, <1>3, <1>4, <1>5, <1>6 DEF Next
<1> QED
  BY <1>7

\* A step keeps every CONNECTED claim backed.
LEMMA ConnectedStep == TypeOK /\ ConnectedEvidence /\ [Next]_vars => ConnectedEvidence'
<1> SUFFICES ASSUME TypeOK, ConnectedEvidence, [Next]_vars,
                    NEW c, c \in DOMAIN connections', connections'[c].status = "CONNECTED"
             PROVE  LET proof == connections'[c].roundTrip IN
                    /\ proof # None
                    /\ proof.run \in DOMAIN runs'
                    /\ proof.event \in DOMAIN events'
                    /\ runs'[proof.run].conn = c
                    /\ runs'[proof.run].status = "COMPLETED"
                    /\ events'[proof.event].run = proof.run
                    /\ events'[proof.event].actor = connections'[c].principal
  BY DEF ConnectedEvidence
<1>1. /\ \A q \in DOMAIN runs :
            /\ q \in DOMAIN runs'
            /\ runs'[q].conn = runs[q].conn
            /\ runs[q].status = "COMPLETED" => runs'[q].status = "COMPLETED"
      /\ \A e \in DOMAIN events : e \in DOMAIN events' /\ events'[e] = events[e]
  BY CompletedIsFinal, EvidenceKept
<1>2. SUFFICES LET proof == connections'[c].roundTrip IN
               /\ proof # None
               /\ proof.run \in DOMAIN runs
               /\ proof.event \in DOMAIN events
               /\ runs[proof.run].conn = c
               /\ runs[proof.run].status = "COMPLETED"
               /\ events[proof.event].run = proof.run
               /\ events[proof.event].actor = connections'[c].principal
  BY <1>1
<1>3. CASE UNCHANGED connections
  BY <1>3 DEF ConnectedEvidence
<1>4. ASSUME NEW p \in Principals, NEW d \in ConnectionIds, NEW cn \in ConnectionInputs,
             putConnection(p, d, cn)
      PROVE  LET proof == connections'[c].roundTrip IN
             /\ proof # None
             /\ proof.run \in DOMAIN runs
             /\ proof.event \in DOMAIN events
             /\ runs[proof.run].conn = c
             /\ runs[proof.run].status = "COMPLETED"
             /\ events[proof.event].run = proof.run
             /\ events[proof.event].actor = connections'[c].principal
  <2>1. CASE c = d
    <3>1. connections'[c] = cn
      BY <1>4, <2>1 DEF putConnection, Put
    <3>2. deriveConnectionStatus(c, cn) = "CONNECTED"
      BY <1>4, <2>1, <3>1 DEF putConnection
    <3>3. cn.roundTrip # None /\ RoundTripProven(c, cn)
      BY <3>2, ConnectedIsProven
    <3> QED
      BY <3>1, <3>3 DEF RoundTripProven, RoundTripCorrelates
  <2>2. CASE c # d
    <3>1. c \in DOMAIN connections /\ connections'[c] = connections[c]
      BY <1>4, <2>2 DEF putConnection, Put
    <3> QED
      BY <3>1 DEF ConnectedEvidence
  <2> QED
    BY <2>1, <2>2
<1> QED
  BY <1>3, <1>4, EvidenceKept

\* The evidence invariant.
EInv == IInv /\ BootstrapFirst /\ ConnectedEvidence

\* Bootstrap order and the backing of CONNECTED hold in every reachable state.
THEOREM EvidenceInvariance == Spec => []EInv
<1>1. Init => EInv
  <2>1. Init => BootstrapFirst /\ ConnectedEvidence
    BY DEF Init, EmptyMap, BootstrapFirst, ConnectedEvidence
  <2> QED
    BY <2>1, InvInit DEF EInv
<1>2. EInv /\ [Next]_vars => EInv'
  BY InvStep, BootstrapStep, ConnectedStep DEF EInv, IInv
<1> QED
  BY <1>1, <1>2, PTL DEF Spec

\* No work but a health check reaches a connection before a health check
\* completed on it (#assertConnectionCanRunTask, deriveConnectionStatus).
THEOREM BootstrapOrder == Spec => []BootstrapFirst
<1>1. EInv => BootstrapFirst
  BY DEF EInv
<1> QED
  BY <1>1, EvidenceInvariance, PTL

\* A connection stored as CONNECTED rests on a run its adapter started and
\* that completed on it (putConnection, #validateConnectionProofs).
THEOREM ConnectedClaims == Spec => []ConnectedIsEarned
<1>1. EInv => ConnectedIsEarned
  BY DEF EInv, IInv, TypeOK, WorkTypeOK, ConnectedEvidence, ConnectedIsEarned, DispatchLedger
<1> QED
  BY <1>1, EvidenceInvariance, PTL
=============================================================================
