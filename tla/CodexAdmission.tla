---------------------------- MODULE CodexAdmission ----------------------------
(***************************************************************************)
(* How a Codex connection is admitted up to its one validation dispatch:   *)
(* registration, capability exchange, heartbeat evidence, dispatch and the *)
(* one-shot egress handoff (acp-bridge-admission.service.ts and the        *)
(* candidates of codex-*.ts), and the controller that writes the frame     *)
(* (codex-validation-egress-controller.ts).                                *)
(*                                                                         *)
(* A candidate is identified by its content, as its hash is.  A call first *)
(* builds the candidate and reads the external authorization of exactly    *)
(* that request; its serializable transaction follows later and compares   *)
(* both with the clock of the database.  The replay of a stored row under  *)
(* the same key returns it and writes nothing.  Accounts, catalogs,        *)
(* secrets and frame authentication accept or refuse a call as a whole; a  *)
(* refused call is one that is not made.                                   *)
(***************************************************************************)
EXTENDS Clock, Naturals, Sequences, FiniteSets, FiniteSetsExt

CONSTANTS
    Sessions,       \* authenticated bridge sessions that speak for the connection
    Runs,           \* PREPARED runs of quality.verify tasks
    Authorizations, \* ids of external authorization decisions
    Controllers,    \* BoundedCodexValidationEgressController instances
    EvidenceAge,    \* 5 minutes: registration and capability evidence
    FreshFor,       \* 60 seconds: heartbeat and dispatch
    AuthorizationTTL, HeartbeatTTL, DispatchTTL, HandoffTTL,
    SessionEnd,     \* expiresAt of the sessions
    MaxCalls        \* bound: calls between their authorization and their transaction

\* A handoff is claimed for at least one unit of time.
DurationAssumption ==
    /\ {EvidenceAge, FreshFor, AuthorizationTTL, HeartbeatTTL, DispatchTTL, HandoffTTL, SessionEnd, Horizon} \subseteq Nat
    /\ HandoffTTL # 0

VARIABLES
    registration, \* acp_runtime_registration_evidence of the connection, or None
    capabilities, \* acp_runtime_capability_evidence
    heartbeats,   \* acp_runtime_heartbeat_evidence
    dispatches,   \* acp_codex_validation_dispatch_evidence
    handoffs,     \* acp_codex_validation_egress_handoff_attempts
    runs,         \* runs that are PREPARED, unassigned, with a READY task
    calls,        \* calls whose transaction has not run yet
    bundles,      \* handoffs returned to a caller, by controller
    used,         \* #used of each controller
    writes        \* frames that reached a transport

admissionVars == <<now, registration, capabilities, heartbeats, dispatches, handoffs, runs, calls, bundles, used, writes>>
tables == <<registration, capabilities, heartbeats, dispatches, handoffs>>

\* The decision is made for one request, after the evidence, and lives for AuthorizationTTL.
Decision(a) == [id |-> a, issuedAt |-> now, expiresAt |-> now + AuthorizationTTL]

Call(stage, row) ==
    /\ Cardinality(calls) < MaxCalls
    /\ calls' = calls \cup {[stage |-> stage, row |-> row]}
    /\ UNCHANGED <<now, tables, runs, bundles, used, writes>>

Pending(c, stage) == c \in calls /\ c.stage = stage
Answered(c) == calls' = calls \ {c}

\* A transaction that finds its evidence stale, its chain broken or its identity in use.
callFails(c) ==
    /\ Answered(c)
    /\ UNCHANGED <<now, tables, runs, bundles, used, writes>>

-----------------------------------------------------------------------------
(* registerCodexRuntime *)

\* createCodexAuthenticatedRegistrationCandidate
requestRegistration(s, t, a) == Call("register", [session |-> s, observedAt |-> t, auth |-> Decision(a)])

EvidenceIsCurrent(row) == row.observedAt <= now /\ now <= row.observedAt + EvidenceAge
AuthorizationIsLive(row) == row.observedAt <= row.auth.issuedAt /\ row.auth.issuedAt <= now /\ now < row.auth.expiresAt

registerCodexRuntime(c) ==
    /\ Pending(c, "register")
    /\ EvidenceIsCurrent(c.row)
    /\ AuthorizationIsLive(c.row)
    /\ registration = None
    /\ registration' = c.row
    /\ Answered(c)
    /\ UNCHANGED <<now, capabilities, heartbeats, dispatches, handoffs, runs, bundles, used, writes>>

-----------------------------------------------------------------------------
(* acceptCodexCapabilityExchange *)

\* createCodexCapabilityExchangeCandidate
requestCapabilities(s, t, a) == Call("capability", [session |-> s, observedAt |-> t, auth |-> Decision(a)])

FollowsRegistration(row) ==
    /\ registration # None
    /\ row.session = registration.session
    /\ registration.observedAt <= row.observedAt
    /\ row.observedAt <= registration.observedAt + EvidenceAge

UnusedAuthorization(table, row) == \A r \in table : r.auth.id # row.auth.id

acceptCodexCapabilityExchange(c) ==
    /\ Pending(c, "capability")
    /\ EvidenceIsCurrent(c.row)
    /\ AuthorizationIsLive(c.row)
    /\ UnusedAuthorization(capabilities, c.row)
    /\ FollowsRegistration(c.row)
    /\ capabilities' = capabilities \cup {c.row}
    /\ Answered(c)
    /\ UNCHANGED <<now, registration, heartbeats, dispatches, handoffs, runs, bundles, used, writes>>

-----------------------------------------------------------------------------
(* acceptCodexHeartbeatEvidence *)

\* createCodexHeartbeatEvidenceCandidate: signed by the runtime after the capabilities,
\* with sequence 1, within the session.
requestHeartbeat(cap, t) ==
    LET row == [capability |-> cap, session |-> cap.session, sequence |-> 1, issuedAt |-> t,
                expiresAt |-> Min({t + HeartbeatTTL, SessionEnd})] IN
    /\ cap.observedAt <= t
    /\ t < row.expiresAt
    /\ Call("heartbeat", row)

MessageIsFresh(row) == row.issuedAt <= now /\ now <= row.issuedAt + FreshFor /\ now < row.expiresAt

UnusedSequence(row) == \A h \in heartbeats : h.sequence # row.sequence

\* Registration and capabilities are stored and belong to the session of the message.
FollowsCapability(row) ==
    /\ registration # None /\ registration.session = row.session
    /\ row.capability \in capabilities

acceptCodexHeartbeatEvidence(c) ==
    /\ Pending(c, "heartbeat")
    /\ MessageIsFresh(c.row)
    /\ FollowsCapability(c.row)
    /\ UnusedSequence(c.row)
    /\ heartbeats' = heartbeats \cup {c.row}
    /\ Answered(c)
    /\ UNCHANGED <<now, registration, capabilities, dispatches, handoffs, runs, bundles, used, writes>>

-----------------------------------------------------------------------------
(* prepareCodexValidationDispatch *)

\* createCodexValidationDispatchCandidate, which the transaction checks again.
DispatchExpiry(h, t) == Min({t + DispatchTTL, h.expiresAt})

requestDispatch(h, r, t, a) ==
    /\ h.issuedAt <= t /\ t <= h.issuedAt + FreshFor
    /\ t < DispatchExpiry(h, t)
    /\ Call("dispatch", [heartbeat |-> h, run |-> r, observedAt |-> t, issuedAt |-> t,
                         expiresAt |-> DispatchExpiry(h, t), auth |-> Decision(a)])

\* The run and its task as the policy of a validation wants them.
RunIsAdmissible(r) == r \in runs

FollowsHeartbeat(row) == row.heartbeat \in heartbeats /\ row.expiresAt <= row.heartbeat.expiresAt

\* Neither the authorization, nor the heartbeat, nor the run has a dispatch.
UnusedIdentity(row) ==
    \A d \in dispatches : d.heartbeat # row.heartbeat /\ d.run # row.run /\ d.auth.id # row.auth.id

prepareCodexValidationDispatch(c) ==
    /\ Pending(c, "dispatch")
    /\ MessageIsFresh(c.row)
    /\ AuthorizationIsLive(c.row)
    /\ FollowsHeartbeat(c.row)
    /\ RunIsAdmissible(c.row.run)
    /\ UnusedIdentity(c.row)
    /\ dispatches' = dispatches \cup {c.row}
    /\ Answered(c)
    /\ UNCHANGED <<now, registration, capabilities, heartbeats, handoffs, runs, bundles, used, writes>>

-----------------------------------------------------------------------------
(* claimCodexValidationEgressHandoff: one row per dispatch, and no replay *)

\* mutant: the stored claim of the dispatch is returned again.
ReplaysHandoff(d) == TRUE

NoHandoff(d) == \A h \in handoffs : h.dispatch # d

DispatchIsLive(d) == now < d.expiresAt /\ now < d.auth.expiresAt /\ RunIsAdmissible(d.run)

HandoffOf(d) == [dispatch |-> d, claimedAt |-> now, expiresAt |-> Min({d.expiresAt, now + HandoffTTL})]

\* The answer, with the signed frame, may be lost on its way to the caller.
claimCodexValidationEgressHandoff(d, k) ==
    /\ NoHandoff(d)
    /\ DispatchIsLive(d)
    /\ handoffs' = handoffs \cup {HandoffOf(d)}
    /\ \/ bundles' = [bundles EXCEPT ![k] = @ \cup {HandoffOf(d)}]
       \/ bundles' = bundles
    /\ UNCHANGED <<now, registration, capabilities, heartbeats, dispatches, runs, calls, used, writes>>

-----------------------------------------------------------------------------
(* BoundedCodexValidationEgressController.handoff *)

NotUsed(k, h) == h \notin used[k]

\* The write may fail after the transport took the line: the caller may try again.
handoff(k, h) ==
    /\ now < h.expiresAt
    /\ NotUsed(k, h)
    /\ used' = [used EXCEPT ![k] = {u \in @ : now < u.expiresAt} \cup {h}]
    /\ writes' = Append(writes, [handoff |-> h, at |-> now])
    /\ UNCHANGED <<now, tables, runs, calls, bundles>>

\* A controller and the bundles its callers hold are in memory.
restart(k) ==
    /\ bundles[k] # {}
    /\ bundles' = [bundles EXCEPT ![k] = {}]
    /\ used' = [used EXCEPT ![k] = {}]
    /\ UNCHANGED <<now, tables, runs, calls, writes>>

-----------------------------------------------------------------------------

\* The run is assigned, cancelled or its objective stopped.
runMoves(r) ==
    /\ r \in runs
    /\ runs' = runs \ {r}
    /\ UNCHANGED <<now, tables, calls, bundles, used, writes>>

timePasses ==
    /\ now < Horizon
    /\ now' = now + 1
    /\ UNCHANGED <<tables, runs, calls, bundles, used, writes>>

AdmissionInit ==
    /\ now = 0
    /\ registration = None
    /\ capabilities = {} /\ heartbeats = {} /\ dispatches = {} /\ handoffs = {}
    /\ runs = Runs
    /\ calls = {}
    /\ bundles = [k \in Controllers |-> {}]
    /\ used = [k \in Controllers |-> {}]
    /\ writes = <<>>

Request ==
    \E t \in 0 .. now :
        \/ \E s \in Sessions, a \in Authorizations : requestRegistration(s, t, a) \/ requestCapabilities(s, t, a)
        \/ \E cap \in capabilities : requestHeartbeat(cap, t)
        \/ \E h \in heartbeats, r \in Runs, a \in Authorizations : requestDispatch(h, r, t, a)

Transaction ==
    \E c \in calls :
        \/ registerCodexRuntime(c) \/ acceptCodexCapabilityExchange(c)
        \/ acceptCodexHeartbeatEvidence(c) \/ prepareCodexValidationDispatch(c) \/ callFails(c)

Egress ==
    \E k \in Controllers :
        \/ \E d \in dispatches : claimCodexValidationEgressHandoff(d, k)
        \/ \E h \in bundles[k] : handoff(k, h)
        \/ restart(k)

AdmissionNext ==
    \/ Request \/ Transaction \/ Egress
    \/ \E r \in Runs : runMoves(r)
    \/ timePasses

AdmissionSpec == AdmissionInit /\ [][AdmissionNext]_admissionVars

-----------------------------------------------------------------------------

AdmissionTypeOK ==
    /\ now \in 0 .. Horizon
    /\ \A r \in capabilities : r.session \in Sessions /\ r.auth.id \in Authorizations /\ r.observedAt < r.auth.expiresAt
    /\ \A h \in heartbeats : h.sequence = 1 /\ h.issuedAt < h.expiresAt
    /\ \A d \in dispatches : d.run \in Runs /\ d.issuedAt < d.expiresAt
    /\ \A h \in handoffs : h.claimedAt < h.expiresAt
    /\ runs \subseteq Runs
    /\ \A k \in Controllers : bundles[k] \subseteq handoffs /\ used[k] \subseteq handoffs

\* A handoff rests on an unbroken chain of evidence of one session, each link made after
\* the one before and, from the heartbeat on, ending before it: a late transaction cannot
\* join evidence that does not belong together.
ChainIsExact ==
    /\ \A cap \in capabilities :
         cap.session = registration.session /\ registration.observedAt <= cap.observedAt
    /\ \A h \in heartbeats :
         /\ h.capability \in capabilities /\ h.capability.observedAt <= h.issuedAt
         /\ h.expiresAt <= SessionEnd
    /\ \A d \in dispatches :
         d.heartbeat \in heartbeats /\ d.heartbeat.issuedAt <= d.issuedAt /\ d.expiresAt <= d.heartbeat.expiresAt
    /\ \A f \in handoffs :
         f.dispatch \in dispatches /\ f.dispatch.issuedAt <= f.claimedAt /\ f.expiresAt <= f.dispatch.expiresAt

\* A frame is written while its handoff, its dispatch and its heartbeat are live.
WritesAreTimely ==
    \A i \in DOMAIN writes :
        LET f == writes[i].handoff IN
        /\ f \in handoffs
        /\ writes[i].at \in f.claimedAt .. f.expiresAt - 1
        /\ writes[i].at < f.dispatch.heartbeat.expiresAt

\* A decision of the external authority is spent once in each step, whatever calls race.
AuthorizationsAreSpentOnce ==
    /\ \A x, y \in capabilities : x.auth.id = y.auth.id => x = y
    /\ \A x, y \in dispatches : x.auth.id = y.auth.id => x = y

\* The challenge reaches the runtime of a connection at most once, through lost answers,
\* failed writes, second callers and restarts of the controllers
\* (BoundedCodexValidationEgressController), while its handoff, dispatch and heartbeat are
\* live.  Its handoff rests on an unbroken chain of evidence of one session, and no
\* decision of the external authority is spent twice, although every link is stored by a
\* transaction that starts after its decision was read.
AtMostOneFrame ==
    /\ Len(writes) <= 1
    /\ WritesAreTimely /\ ChainIsExact /\ AuthorizationsAreSpentOnce
=============================================================================
