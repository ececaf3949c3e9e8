--------------------------- MODULE ApprovalBridge ---------------------------
(***************************************************************************)
(* AcpApprovalBridgeService over acp_approval_requests,                    *)
(* acp_approval_decisions and acp_execution_permits, with the triggers and *)
(* checks of their migration, for one workspace.                           *)
(*                                                                         *)
(* requestApproval, decideApproval and issueExecutionPermit decide inside  *)
(* one transaction that holds the rows they decide on, and are one action  *)
(* each.  claimExecutionPermit first checks the permit outside any         *)
(* transaction and waits for its locks; the world may change in between,   *)
(* so it is two actions.  A call that throws or replays an earlier one     *)
(* writes nothing.                                                         *)
(***************************************************************************)
EXTENDS Naturals

CONSTANTS
    Requests,       \* ids of approval requests
    Bindings,       \* exact work: objective, task, run, action, target, artifact, policy
    Requesters,     \* human or agent principals with at least Level-1 authority
    Users,          \* human principals that may try to decide
    Executors,      \* principals a permit may be bound to
    RequestKeys, DecisionKeys, IssueKeys, ClaimKeys,
    MaxValidity,    \* seven days
    MaxTime,        \* bound of the clock
    None

ASSUME BoundAssumption == MaxValidity \in Nat /\ MaxTime \in Nat
ASSUME NoneAssumption == None \notin Executors /\ None \notin ClaimKeys /\ None \notin Nat

States == {"PENDING", "APPROVED", "REJECTED", "REVOKED", "PERMIT_ISSUED", "PERMIT_CLAIMED"}
Decisions == {"APPROVE", "REJECT", "REVOKE"}

Deadlines == 1..(MaxTime + MaxValidity)

RequestRecord == [key : RequestKeys, requester : Requesters, binding : Bindings,
                  expiresAt : Deadlines, state : States]
DecisionRecord == [request : Requests, decision : Decisions, approver : Users, decidedAt : Nat]
\* The binding and the expiry of a permit are copies of its request's, and the
\* triggers keep both from changing.
PermitRecord == [principal : Executors, issueKey : IssueKeys, issuedAt : Nat,
                 claimedAt : Nat \cup {None}, claimedBy : Executors \cup {None},
                 claimKey : ClaimKeys \cup {None}]
ClaimCall == [request : Requests, principal : Executors, binding : Bindings, key : ClaimKeys]

VARIABLES
    now,           \* the database clock
    founders,      \* current members that are founders with approval:decide
    prepared,      \* bindings for which getPreparedApprovalBinding succeeds
    requests,      \* acp_approval_requests by id
    decisions,     \* acp_approval_decisions by idempotency key
    permits,       \* acp_execution_permits by request, which is unique
    claimCalls     \* claims that passed their first checks and wait for the locks

vars == <<now, founders, prepared, requests, decisions, permits, claimCalls>>

EmptyMap == [x \in {} |-> x]
Put(map, k, v) == [x \in DOMAIN map \cup {k} |-> IF x = k THEN v ELSE map[x]]

-----------------------------------------------------------------------------

\* mutant: the expiry is not compared with the database clock.
MatchesBinding(r, binding) == requests[r].binding = binding

\* assertExecutable: the caller still means the approved work, and in time.
IsExecutable(r, binding) ==
    /\ requests[r].binding = binding
    /\ now < requests[r].expiresAt

SetState(r, state) == requests' = [requests EXCEPT ![r].state = state]

Decide(f, r, decision, k) ==
    decisions' = Put(decisions, k,
        [request |-> r, decision |-> decision, approver |-> f, decidedAt |-> now])

WasDecided(r, decision) == \E k \in DOMAIN decisions :
    decisions[k].request = r /\ decisions[k].decision = decision

\* decideApproval up to the choice of decision
MayDecide(f, r, k) ==
    /\ f \in founders
    /\ k \notin DOMAIN decisions
    /\ r \in DOMAIN requests

-----------------------------------------------------------------------------
(* Operations *)

\* validateAcpApprovalRequestInput reads the clock before the transaction, which
\* may have to wait for the rows of the run and commit after the expiry.
ExpiryWasValid(expiresAt) == \E checkedAt \in 0..now :
    checkedAt < expiresAt /\ expiresAt <= checkedAt + MaxValidity

requestApproval(p, r, input) ==
    /\ \A q \in DOMAIN requests : requests[q].key # input.key
    /\ ExpiryWasValid(input.expiresAt)
    /\ input.binding \in prepared
    /\ r \notin DOMAIN requests
    /\ requests' = Put(requests, r,
         [key |-> input.key, requester |-> p, binding |-> input.binding,
          expiresAt |-> input.expiresAt, state |-> "PENDING"])
    /\ UNCHANGED <<now, founders, prepared, decisions, permits, claimCalls>>

approve(f, r, binding, k) ==
    /\ MayDecide(f, r, k)
    /\ IsExecutable(r, binding)
    /\ requests[r].state = "PENDING"
    /\ SetState(r, "APPROVED")
    /\ Decide(f, r, "APPROVE", k)
    /\ UNCHANGED <<now, founders, prepared, permits, claimCalls>>

\* mutant: an approval may still be turned into a rejection.
rejectApproved(f, r, k) ==
    /\ MayDecide(f, r, k)
    /\ requests[r].state \in {"PENDING", "APPROVED"}
    /\ now < requests[r].expiresAt
    /\ SetState(r, "REJECTED")
    /\ Decide(f, r, "REJECT", k)
    /\ UNCHANGED <<now, founders, prepared, permits, claimCalls>>

\* The check acp_approval_decisions_expiry_check aborts a rejection of an
\* expired request.
reject(f, r, k) ==
    /\ MayDecide(f, r, k)
    /\ requests[r].state = "PENDING"
    /\ now < requests[r].expiresAt
    /\ SetState(r, "REJECTED")
    /\ Decide(f, r, "REJECT", k)
    /\ UNCHANGED <<now, founders, prepared, permits, claimCalls>>

revoke(f, r, k) ==
    /\ MayDecide(f, r, k)
    /\ requests[r].state \in {"APPROVED", "PERMIT_ISSUED"}
    /\ SetState(r, "REVOKED")
    /\ Decide(f, r, "REVOKE", k)
    /\ UNCHANGED <<now, founders, prepared, permits, claimCalls>>

issueExecutionPermit(r, binding, executor, k) ==
    /\ \A q \in DOMAIN permits : permits[q].issueKey # k
    /\ r \in DOMAIN requests
    /\ requests[r].state = "APPROVED"
    /\ IsExecutable(r, binding)
    /\ WasDecided(r, "APPROVE")
    /\ r \notin DOMAIN permits
    /\ permits' = Put(permits, r,
         [principal |-> executor, issueKey |-> k, issuedAt |-> now,
          claimedAt |-> None, claimedBy |-> None, claimKey |-> None])
    /\ SetState(r, "PERMIT_ISSUED")
    /\ UNCHANGED <<now, founders, prepared, decisions, claimCalls>>

\* What claimExecutionPermit checks of the permit and its request
IsClaimable(call) ==
    /\ call.request \in DOMAIN permits
    /\ permits[call.request].principal = call.principal
    /\ permits[call.request].claimedAt = None
    /\ requests[call.request].state = "PERMIT_ISSUED"
    /\ requests[call.request].binding = call.binding

\* claimExecutionPermit before its transaction.  It also compares the expiry
\* with the clock of the API process, which may be behind.
checkClaim(call) ==
    /\ call \notin claimCalls
    /\ IsClaimable(call)
    /\ claimCalls' = claimCalls \cup {call}
    /\ UNCHANGED <<now, founders, prepared, requests, decisions, permits>>

\* Repeated under both locks, with the database clock
ClaimHolds(call) ==
    /\ IsClaimable(call)
    /\ IsExecutable(call.request, call.binding)

claimExecutionPermit(call) ==
    /\ call \in claimCalls
    /\ ClaimHolds(call)
    /\ \A q \in DOMAIN permits : permits[q].claimKey # call.key
    /\ permits' = [permits EXCEPT ![call.request] =
         [@ EXCEPT !.claimedAt = now, !.claimedBy = call.principal, !.claimKey = call.key]]
    /\ SetState(call.request, "PERMIT_CLAIMED")
    /\ claimCalls' = claimCalls \ {call}
    /\ UNCHANGED <<now, founders, prepared, decisions>>

\* The transaction fails, or the process dies while it waits.
claimFails(call) ==
    /\ call \in claimCalls
    /\ claimCalls' = claimCalls \ {call}
    /\ UNCHANGED <<now, founders, prepared, requests, decisions, permits>>

-----------------------------------------------------------------------------
(* The surroundings *)

\* A Level-4 run reaches the state that ApprovalReady of TaskRun describes, and
\* keeps it.
workPrepared(b) ==
    /\ b \notin prepared
    /\ prepared' = prepared \cup {b}
    /\ UNCHANGED <<now, founders, requests, decisions, permits, claimCalls>>

\* Users gain and lose founder authority in this workspace.  The program makes a founder
\* when a workspace is registered and removes none (Membership); what else changes the
\* rows that decideApproval reads is the operator's work on the database.
membershipChanges(u) ==
    /\ founders' = IF u \in founders THEN founders \ {u} ELSE founders \cup {u}
    /\ UNCHANGED <<now, prepared, requests, decisions, permits, claimCalls>>

timePasses ==
    /\ now < MaxTime
    /\ now' = now + 1
    /\ UNCHANGED <<founders, prepared, requests, decisions, permits, claimCalls>>

-----------------------------------------------------------------------------

Init ==
    /\ now = 0
    /\ founders \in SUBSET Users
    /\ prepared = {}
    /\ requests = EmptyMap
    /\ decisions = EmptyMap
    /\ permits = EmptyMap
    /\ claimCalls = {}

Inputs == [key : RequestKeys, binding : Bindings, expiresAt : Deadlines]

Next ==
    \/ \E p \in Requesters, r \in Requests, input \in Inputs : requestApproval(p, r, input)
    \/ \E f \in Users, r \in Requests, k \in DecisionKeys :
        \/ \E b \in Bindings : approve(f, r, b, k)
        \/ reject(f, r, k)
        \/ revoke(f, r, k)
    \/ \E r \in Requests, b \in Bindings, e \in Executors, k \in IssueKeys :
        issueExecutionPermit(r, b, e, k)
    \/ \E call \in ClaimCall : checkClaim(call) \/ claimExecutionPermit(call) \/ claimFails(call)
    \/ \E b \in Bindings : workPrepared(b)
    \/ \E u \in Users : membershipChanges(u)
    \/ timePasses

Spec == Init /\ [][Next]_vars

-----------------------------------------------------------------------------
(* Properties *)

TypeOK ==
    /\ now \in 0..MaxTime
    /\ founders \subseteq Users
    /\ prepared \subseteq Bindings
    /\ DOMAIN requests \subseteq Requests
    /\ \A r \in DOMAIN requests : requests[r] \in RequestRecord
    /\ DOMAIN decisions \subseteq DecisionKeys
    /\ \A k \in DOMAIN decisions : decisions[k] \in DecisionRecord
    /\ DOMAIN permits \subseteq DOMAIN requests
    /\ \A r \in DOMAIN permits : permits[r] \in PermitRecord
    /\ claimCalls \subseteq ClaimCall

IsClaimed(r) == r \in DOMAIN permits /\ permits[r].claimedAt # None

\* Revocation and consumption exclude each other, whichever of two racing
\* calls commits first: a claimed permit was never revoked and a revoked one
\* is never claimed.
RevokedIsNeverClaimed == \A r \in DOMAIN requests :
    WasDecided(r, "REVOKE") => ~IsClaimed(r)

\* A claim rests on a founder's approval of this request, on work that was
\* prepared, and falls between the issue and the expiry of the permit.
ClaimIsAuthorised == \A r \in DOMAIN requests : IsClaimed(r) =>
    /\ requests[r].binding \in prepared
    /\ permits[r].claimedBy = permits[r].principal
    /\ permits[r].claimedAt < requests[r].expiresAt
    /\ \E k \in DOMAIN decisions :
        /\ decisions[k].request = r /\ decisions[k].decision = "APPROVE"
        /\ decisions[k].decidedAt <= permits[r].issuedAt
        /\ permits[r].issuedAt <= permits[r].claimedAt

TellsHistory(r) ==
    LET state == requests[r].state IN
    /\ WasDecided(r, "APPROVE") <=> state \notin {"PENDING", "REJECTED"}
    /\ WasDecided(r, "REJECT") <=> state = "REJECTED"
    /\ WasDecided(r, "REVOKE") <=> state = "REVOKED"
    /\ state \in {"PERMIT_ISSUED", "PERMIT_CLAIMED"} => r \in DOMAIN permits
    /\ r \in DOMAIN permits => state \in {"PERMIT_ISSUED", "PERMIT_CLAIMED", "REVOKED"}
    /\ IsClaimed(r) <=> state = "PERMIT_CLAIMED"

\* The state of a request and the rows about it agree: which decisions exist,
\* whether there is a permit and whether it is claimed.
StateTellsHistory == \A r \in DOMAIN requests : TellsHistory(r)

\* The authorization a request stands for
authorizationBar == [r \in Requests |->
    IF r \in DOMAIN requests /\ requests[r].state \notin {"PENDING", "REJECTED"}
    THEN [binding |-> requests[r].binding, until |-> requests[r].expiresAt,
          phase |-> CASE requests[r].state = "PERMIT_CLAIMED" -> "USED"
                      [] requests[r].state = "REVOKED" -> "WITHDRAWN"
                      [] OTHER -> "GIVEN"]
    ELSE None]

Permit == INSTANCE SingleUsePermit WITH
    Approvals <- Requests, Times <- Deadlines, clock <- now, authorization <- authorizationBar

ASSUME AuthorizationAssumption == None \notin Permit!Authorization

\* The service implements single-use authorizations.
ImplementsSingleUsePermit == Permit!Spec
=============================================================================
