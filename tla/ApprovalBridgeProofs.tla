------------------------ MODULE ApprovalBridgeProofs ------------------------
(***************************************************************************)
(* Proofs about ApprovalBridge, for every value of its constants.          *)
(***************************************************************************)
EXTENDS ApprovalBridge, TLAPS

-----------------------------------------------------------------------------
(* The inductive invariant *)

\* Requests are about prepared work, and decisions about requests.
Origins ==
    /\ \A r \in DOMAIN requests : requests[r].binding \in prepared
    /\ \A k \in DOMAIN decisions :
          decisions[k].request \in DOMAIN requests /\ decisions[k].decidedAt <= now

\* The times of a permit: approved, then issued, then claimed before the expiry.
PermitTimes == \A r \in DOMAIN permits :
    /\ permits[r].issuedAt <= now
    /\ \E k \in DOMAIN decisions :
          /\ decisions[k].request = r /\ decisions[k].decision = "APPROVE"
          /\ decisions[k].decidedAt <= permits[r].issuedAt
    /\ permits[r].claimedAt # None =>
          /\ permits[r].claimedBy = permits[r].principal
          /\ permits[r].issuedAt <= permits[r].claimedAt
          /\ permits[r].claimedAt < requests[r].expiresAt

IInv == TypeOK /\ StateTellsHistory /\ Origins /\ PermitTimes

-----------------------------------------------------------------------------
(* What the actions write *)

\* Request r has moved to state s; nothing else of the requests has changed.
StateMoved(r, s) ==
    /\ DOMAIN requests' = DOMAIN requests
    /\ \A q \in DOMAIN requests : q # r => requests'[q] = requests[q]
    /\ requests'[r] \in RequestRecord
    /\ requests'[r].state = s
    /\ requests'[r].binding = requests[r].binding
    /\ requests'[r].expiresAt = requests[r].expiresAt

\* One decision row has been added.
DecisionAdded(f, r, decision, k) ==
    /\ DOMAIN decisions' = DOMAIN decisions \cup {k}
    /\ \A j \in DOMAIN decisions : decisions'[j] = decisions[j]
    /\ decisions'[k] = [request |-> r, decision |-> decision, approver |-> f, decidedAt |-> now]

\* A guarded state update keeps the rest of the row.
LEMMA SetStateMoves ==
    ASSUME TypeOK, NEW r \in DOMAIN requests, NEW s \in States, SetState(r, s)
    PROVE  StateMoved(r, s)
<1>1. requests[r] \in RequestRecord
  BY DEF TypeOK
<1>2. /\ [requests[r] EXCEPT !.state = s] \in RequestRecord
      /\ [requests[r] EXCEPT !.state = s].state = s
      /\ [requests[r] EXCEPT !.state = s].binding = requests[r].binding
      /\ [requests[r] EXCEPT !.state = s].expiresAt = requests[r].expiresAt
  BY <1>1 DEF RequestRecord
<1>3. requests' = [requests EXCEPT ![r] = [requests[r] EXCEPT !.state = s]]
  BY DEF SetState
<1>4. QED
  BY <1>2, <1>3 DEF StateMoved

\* A decision is one new row; the key is new because a replay returns early.
LEMMA DecideAdds ==
    ASSUME NEW f, NEW r, NEW d, NEW k, k \notin DOMAIN decisions, Decide(f, r, d, k)
    PROVE  DecisionAdded(f, r, d, k)
BY DEF Decide, Put, DecisionAdded

\* The decisions about a request after one more has been added.
LEMMA DecidedAfter ==
    ASSUME NEW f, NEW r, NEW d, NEW k, k \notin DOMAIN decisions, DecisionAdded(f, r, d, k),
           NEW q, NEW e
    PROVE  WasDecided(q, e)' <=> WasDecided(q, e) \/ (q = r /\ e = d)
BY DEF DecisionAdded, WasDecided

-----------------------------------------------------------------------------
(* Each action keeps the invariant *)

\* The three moves of decideApproval and of the transition trigger.
DecisionMoves(from, decision, to) ==
    \/ from = "PENDING" /\ decision = "APPROVE" /\ to = "APPROVED"
    \/ from = "PENDING" /\ decision = "REJECT" /\ to = "REJECTED"
    \/ from \in {"APPROVED", "PERMIT_ISSUED"} /\ decision = "REVOKE" /\ to = "REVOKED"

\* decideApproval, whichever the decision is.
LEMMA DecisionKeepsInvariant ==
    ASSUME IInv, NEW f \in Users, NEW r \in DOMAIN requests, NEW k \in DecisionKeys,
           NEW d, NEW s, k \notin DOMAIN decisions,
           DecisionMoves(requests[r].state, d, s),
           SetState(r, s), Decide(f, r, d, k),
           UNCHANGED <<now, founders, prepared, permits, claimCalls>>
    PROVE  IInv'
<1>1. d \in Decisions /\ s \in States
  BY DEF DecisionMoves, Decisions, States
<1>2. StateMoved(r, s) /\ DecisionAdded(f, r, d, k)
  BY <1>1, SetStateMoves, DecideAdds DEF IInv
<1>3. TypeOK'
  <2>1. decisions'[k] \in DecisionRecord
    BY <1>1, <1>2 DEF IInv, TypeOK, DecisionAdded, DecisionRecord
  <2>2. \A q \in DOMAIN requests' : requests'[q] \in RequestRecord
    BY <1>2 DEF IInv, TypeOK, StateMoved
  <2>3. QED
    BY <1>2, <2>1, <2>2 DEF IInv, TypeOK, StateMoved, DecisionAdded
<1>4. StateTellsHistory'
  <2>1. ASSUME NEW q \in DOMAIN requests
        PROVE  TellsHistory(q)'
    <3>1. /\ TellsHistory(q)
          /\ TellsHistory(r)
          /\ requests[q] \in RequestRecord
      BY DEF IInv, StateTellsHistory, TypeOK
    <3>2. IsClaimed(q)' = IsClaimed(q)
      BY DEF IsClaimed
    <3>3. \A e : WasDecided(q, e)' <=> WasDecided(q, e) \/ (q = r /\ e = d)
      BY <1>2, DecidedAfter
    <3>4. CASE q = r
      BY <1>2, <3>1, <3>2, <3>3, <3>4 DEF StateMoved, DecisionMoves, TellsHistory
    <3>5. CASE q # r
      BY <1>2, <3>1, <3>2, <3>3, <3>5 DEF StateMoved, TellsHistory
    <3>6. QED
      BY <3>4, <3>5
  <2>2. QED
    BY <1>2, <2>1 DEF StateTellsHistory, StateMoved
<1>5. Origins'
  BY <1>2 DEF IInv, TypeOK, Origins, StateMoved, DecisionAdded
<1>6. PermitTimes'
  BY <1>2 DEF IInv, TypeOK, PermitTimes, StateMoved, DecisionAdded
<1>7. QED
  BY <1>3, <1>4, <1>5, <1>6 DEF IInv

\* requestApproval adds a row about which nothing has been decided.
LEMMA RequestKeepsInvariant ==
    ASSUME IInv, NEW p \in Requesters, NEW r \in Requests, NEW input \in Inputs,
           requestApproval(p, r, input)
    PROVE  IInv'
<1> DEFINE new == [key |-> input.key, requester |-> p, binding |-> input.binding,
                   expiresAt |-> input.expiresAt, state |-> "PENDING"]
<1>1. new \in RequestRecord /\ new.binding \in prepared /\ new.state = "PENDING"
  BY DEF requestApproval, Inputs, RequestRecord, States
<1>2. /\ DOMAIN requests' = DOMAIN requests \cup {r}
      /\ r \notin DOMAIN requests
      /\ requests'[r] = new
      /\ \A q \in DOMAIN requests : requests'[q] = requests[q]
  BY DEF requestApproval, Put
<1>3. UNCHANGED <<now, founders, prepared, decisions, permits, claimCalls>>
  BY DEF requestApproval
<1> HIDE DEF new
<1>4. TypeOK'
  BY <1>1, <1>2, <1>3 DEF IInv, TypeOK
<1>5. StateTellsHistory'
  <2>1. ASSUME NEW q \in DOMAIN requests PROVE TellsHistory(q)'
    BY <1>2, <1>3 DEF IInv, StateTellsHistory, TellsHistory, WasDecided, IsClaimed
  <2>2. TellsHistory(r)'
    <3>1. r \notin DOMAIN permits
      BY <1>2 DEF IInv, TypeOK
    <3>2. \A e : ~WasDecided(r, e)
      BY <1>2 DEF IInv, Origins, WasDecided
    <3>3. QED
      BY <1>1, <1>2, <1>3, <3>1, <3>2 DEF TellsHistory, WasDecided, IsClaimed
  <2>3. QED
    BY <1>2, <2>1, <2>2 DEF StateTellsHistory
<1>6. Origins'
  BY <1>1, <1>2, <1>3 DEF IInv, Origins
<1>7. PermitTimes'
  BY <1>2, <1>3 DEF IInv, TypeOK, PermitTimes
<1>8. QED
  BY <1>4, <1>5, <1>6, <1>7 DEF IInv

\* issueExecutionPermit adds the permit of an approved request.
LEMMA IssueKeepsInvariant ==
    ASSUME IInv, NEW r \in Requests, NEW b \in Bindings, NEW e \in Executors,
           NEW k \in IssueKeys, issueExecutionPermit(r, b, e, k)
    PROVE  IInv'
<1> DEFINE new == [principal |-> e, issueKey |-> k, issuedAt |-> now,
                   claimedAt |-> None, claimedBy |-> None, claimKey |-> None]
<1>1. /\ new \in PermitRecord
      /\ new.issuedAt = now
      /\ new.claimedAt = None
  BY DEF IInv, TypeOK, PermitRecord
<1>2. /\ DOMAIN permits' = DOMAIN permits \cup {r}
      /\ permits'[r] = new
      /\ \A q \in DOMAIN permits : permits'[q] = permits[q]
      /\ r \notin DOMAIN permits
  BY DEF issueExecutionPermit, Put
<1> HIDE DEF new
<1>3. /\ UNCHANGED <<now, founders, prepared, decisions, claimCalls>>
      /\ r \in DOMAIN requests
      /\ requests[r].state = "APPROVED"
      /\ WasDecided(r, "APPROVE")
  BY DEF issueExecutionPermit
<1>4. StateMoved(r, "PERMIT_ISSUED")
  BY <1>3, SetStateMoves DEF issueExecutionPermit, IInv, States
<1>5. TypeOK'
  BY <1>1, <1>2, <1>3, <1>4 DEF IInv, TypeOK, StateMoved
<1>6. StateTellsHistory'
  <2>1. ASSUME NEW q \in DOMAIN requests, q # r PROVE TellsHistory(q)'
    <3>1. IsClaimed(q)' = IsClaimed(q)
      BY <1>2, <2>1 DEF IsClaimed
    <3>2. QED
      BY <1>2, <1>3, <1>4, <2>1, <3>1
         DEF IInv, StateTellsHistory, TellsHistory, WasDecided, StateMoved
  <2>2. TellsHistory(r)'
    <3>1. ~IsClaimed(r)'
      BY <1>1, <1>2 DEF IsClaimed
    <3>2. QED
      BY <1>2, <1>3, <1>4, <3>1
         DEF IInv, StateTellsHistory, TellsHistory, WasDecided, StateMoved
  <2>3. QED
    BY <1>4, <2>1, <2>2 DEF StateTellsHistory, StateMoved
<1>7. Origins'
  BY <1>3, <1>4 DEF IInv, Origins, StateMoved
<1>8. PermitTimes'
  BY <1>1, <1>2, <1>3, <1>4 DEF IInv, TypeOK, Origins, PermitTimes, WasDecided, StateMoved
<1>9. QED
  BY <1>5, <1>6, <1>7, <1>8 DEF IInv

\* claimExecutionPermit completes the claim columns of one permit.
LEMMA ClaimKeepsInvariant ==
    ASSUME IInv, NEW call \in ClaimCall, claimExecutionPermit(call)
    PROVE  IInv'
<1> DEFINE r == call.request
           new == [permits[r] EXCEPT !.claimedAt = now, !.claimedBy = call.principal,
                                     !.claimKey = call.key]
<1>1. /\ r \in DOMAIN permits
      /\ r \in DOMAIN requests
      /\ permits[r] \in PermitRecord
      /\ permits[r].principal = call.principal
      /\ permits[r].claimedAt = None
      /\ requests[r].state = "PERMIT_ISSUED"
      /\ now < requests[r].expiresAt
      /\ call.principal \in Executors
      /\ call.key \in ClaimKeys
      /\ now \in Nat
  BY DEF claimExecutionPermit, ClaimHolds, IsClaimable, IsExecutable, IInv, TypeOK, ClaimCall
<1>2. /\ new \in PermitRecord
      /\ new.claimedAt = now
      /\ new.claimedBy = new.principal
      /\ new.issuedAt = permits[r].issuedAt
  BY <1>1 DEF PermitRecord
<1>3. permits' = [permits EXCEPT ![r] = new]
  BY DEF claimExecutionPermit
<1>4. /\ DOMAIN permits' = DOMAIN permits
      /\ permits'[r] = new
      /\ \A q \in DOMAIN permits : q # r => permits'[q] = permits[q]
  BY <1>1, <1>3
<1>5. /\ UNCHANGED <<now, founders, prepared, decisions>>
      /\ claimCalls' \subseteq claimCalls
  BY DEF claimExecutionPermit
<1>6. StateMoved(r, "PERMIT_CLAIMED")
  BY <1>1, SetStateMoves DEF claimExecutionPermit, IInv, States
<1> HIDE DEF new, r
<1>7. TypeOK'
  BY <1>1, <1>2, <1>4, <1>5, <1>6 DEF IInv, TypeOK, StateMoved
<1>8. StateTellsHistory'
  <2>1. ASSUME NEW q \in DOMAIN requests, q # r PROVE TellsHistory(q)'
    <3>1. IsClaimed(q)' = IsClaimed(q)
      BY <1>4, <2>1 DEF IsClaimed
    <3>2. QED
      BY <1>4, <1>5, <1>6, <2>1, <3>1
         DEF IInv, StateTellsHistory, TellsHistory, WasDecided, StateMoved
  <2>2. TellsHistory(r)'
    <3>1. IsClaimed(r)'
      BY <1>1, <1>2, <1>4, NoneAssumption DEF IsClaimed
    <3>2. QED
      BY <1>1, <1>4, <1>5, <1>6, <3>1
         DEF IInv, StateTellsHistory, TellsHistory, WasDecided, StateMoved
  <2>3. QED
    BY <1>6, <2>1, <2>2 DEF StateTellsHistory, StateMoved
<1>9. Origins'
  BY <1>5, <1>6 DEF IInv, Origins, StateMoved
<1>10. PermitTimes'
  BY <1>1, <1>2, <1>4, <1>5, <1>6 DEF IInv, TypeOK, PermitTimes, StateMoved
<1>11. QED
  BY <1>7, <1>8, <1>9, <1>10 DEF IInv

\* What leaves the rows alone: time, founders, prepared work, waiting calls.
LEMMA SurroundingsKeepInvariant ==
    ASSUME IInv, UNCHANGED <<requests, decisions, permits>>,
           now' \in 0..MaxTime, now <= now', founders' \subseteq Users,
           prepared \subseteq prepared', prepared' \subseteq Bindings,
           claimCalls' \subseteq ClaimCall
    PROVE  IInv'
<1>1. TypeOK'
  BY DEF IInv, TypeOK
<1>2. StateTellsHistory'
  BY DEF IInv, StateTellsHistory, TellsHistory, WasDecided, IsClaimed
<1>3. Origins'
  <2>1. \A k \in DOMAIN decisions : decisions[k].decidedAt \in Nat
    BY DEF IInv, TypeOK, DecisionRecord
  <2>2. QED
    BY <2>1, BoundAssumption DEF IInv, TypeOK, Origins
<1>4. PermitTimes'
  <2>1. \A r \in DOMAIN permits : permits[r].issuedAt \in Nat
    BY DEF IInv, TypeOK, PermitRecord
  <2>2. QED
    BY <2>1, BoundAssumption DEF IInv, TypeOK, PermitTimes
<1>5. QED
  BY <1>1, <1>2, <1>3, <1>4 DEF IInv

-----------------------------------------------------------------------------
(* The theorems *)

\* The invariant holds initially: there are no rows.
LEMMA InitInvariant == Init => IInv
BY BoundAssumption DEF Init, EmptyMap, IInv, TypeOK, StateTellsHistory, Origins, PermitTimes

\* Every step of the service and of its surroundings keeps the invariant.
LEMMA StepInvariant == IInv /\ [Next]_vars => IInv'
<1> SUFFICES ASSUME IInv, [Next]_vars PROVE IInv'
  OBVIOUS
<1> USE DEF IInv
<1>1. ASSUME NEW p \in Requesters, NEW r \in Requests, NEW input \in Inputs,
             requestApproval(p, r, input)
      PROVE  IInv'
  BY <1>1, RequestKeepsInvariant
<1>2. ASSUME NEW f \in Users, NEW r \in Requests, NEW k \in DecisionKeys, NEW b \in Bindings,
             approve(f, r, b, k)
      PROVE  IInv'
  BY <1>2, DecisionKeepsInvariant DEF approve, MayDecide, DecisionMoves
<1>3. ASSUME NEW f \in Users, NEW r \in Requests, NEW k \in DecisionKeys, reject(f, r, k)
      PROVE  IInv'
  BY <1>3, DecisionKeepsInvariant DEF reject, MayDecide, DecisionMoves
<1>4. ASSUME NEW f \in Users, NEW r \in Requests, NEW k \in DecisionKeys, revoke(f, r, k)
      PROVE  IInv'
  BY <1>4, DecisionKeepsInvariant DEF revoke, MayDecide, DecisionMoves
<1>5. ASSUME NEW r \in Requests, NEW b \in Bindings, NEW e \in Executors, NEW k \in IssueKeys,
             issueExecutionPermit(r, b, e, k)
      PROVE  IInv'
  BY <1>5, IssueKeepsInvariant
<1>6. ASSUME NEW call \in ClaimCall, claimExecutionPermit(call)
      PROVE  IInv'
  BY <1>6, ClaimKeepsInvariant
<1>7. ASSUME NEW call \in ClaimCall, checkClaim(call) \/ claimFails(call)
      PROVE  IInv'
  BY <1>7, SurroundingsKeepInvariant, BoundAssumption DEF checkClaim, claimFails, TypeOK
<1>8. ASSUME NEW b \in Bindings, workPrepared(b)
      PROVE  IInv'
  BY <1>8, SurroundingsKeepInvariant, BoundAssumption DEF workPrepared, TypeOK
<1>9. ASSUME NEW u \in Users, membershipChanges(u)
      PROVE  IInv'
  <2>1. founders' \subseteq Users
    BY <1>9 DEF membershipChanges, TypeOK
  <2>2. QED
    BY <1>9, <2>1, SurroundingsKeepInvariant, BoundAssumption DEF membershipChanges, TypeOK
<1>10. CASE timePasses
  BY <1>10, SurroundingsKeepInvariant, BoundAssumption DEF timePasses, TypeOK
<1>11. CASE UNCHANGED vars
  BY <1>11, SurroundingsKeepInvariant, BoundAssumption DEF vars, TypeOK
<1>12. QED
  BY <1>1, <1>2, <1>3, <1>4, <1>5, <1>6, <1>7, <1>8, <1>9, <1>10, <1>11 DEF Next

\* The rows of the three tables always fit together.
THEOREM Invariant == Spec => []IInv
BY InitInvariant, StepInvariant, PTL DEF Spec

\* Every row has the types of its columns.
THEOREM TypeCorrect == Spec => []TypeOK
<1>1. IInv => TypeOK
  BY DEF IInv
<1>2. QED
  BY <1>1, Invariant, PTL

\* The state column tells which decisions, permit and claim exist.
THEOREM HistoryCorrect == Spec => []StateTellsHistory
<1>1. IInv => StateTellsHistory
  BY DEF IInv
<1>2. QED
  BY <1>1, Invariant, PTL

\* Of a revocation and a claim that race, only one ever takes effect: a
\* request is at PERMIT_CLAIMED or at REVOKED.
THEOREM RevocationExcludesClaim == Spec => []RevokedIsNeverClaimed
<1>1. IInv => RevokedIsNeverClaimed
  BY DEF IInv, StateTellsHistory, TellsHistory, RevokedIsNeverClaimed
<1>2. QED
  BY <1>1, Invariant, PTL

\* A claimed permit was approved, issued and claimed in this order and before
\* the expiry, by its own principal, for prepared work.
THEOREM ClaimsAreAuthorised == Spec => []ClaimIsAuthorised
<1>1. IInv => ClaimIsAuthorised
  BY DEF IInv, Origins, PermitTimes, IsClaimed, ClaimIsAuthorised
<1>2. QED
  BY <1>1, Invariant, PTL

-----------------------------------------------------------------------------
(* The refinement of SingleUsePermit *)

\* What a request in a given state stands for.
LEMMA BarOf ==
    ASSUME TypeOK, NEW r \in DOMAIN requests
    PROVE  LET rec(phase) == [binding |-> requests[r].binding,
                              until |-> requests[r].expiresAt, phase |-> phase]
               state == requests[r].state
           IN  /\ r \in Requests
               /\ state \in {"PENDING", "REJECTED"} => authorizationBar[r] = None
               /\ state \in {"APPROVED", "PERMIT_ISSUED"} => authorizationBar[r] = rec("GIVEN")
               /\ state = "PERMIT_CLAIMED" => authorizationBar[r] = rec("USED")
               /\ state = "REVOKED" => authorizationBar[r] = rec("WITHDRAWN")
BY DEF TypeOK, authorizationBar

\* A given authorization is not None, so that it can be used and withdrawn.
LEMMA BarIsGiven ==
    ASSUME TypeOK, NEW r \in DOMAIN requests,
           requests[r].state \in {"APPROVED", "PERMIT_ISSUED"}
    PROVE  /\ Permit!IsGiven(r)
           /\ authorizationBar[r].until = requests[r].expiresAt
<1>1. /\ requests[r].binding \in Bindings
      /\ requests[r].expiresAt \in Deadlines
  BY DEF TypeOK, RequestRecord
<1>2. authorizationBar[r] = [binding |-> requests[r].binding,
                             until |-> requests[r].expiresAt, phase |-> "GIVEN"]
  BY BarOf
<1>3. authorizationBar[r] \in Permit!Authorization
  BY <1>1, <1>2 DEF Permit!Authorization, Permit!Phases
<1>4. QED
  BY <1>2, <1>3, AuthorizationAssumption DEF Permit!IsGiven

\* When one request moves, the authorization of no other changes.
LEMMA BarMoves ==
    ASSUME TypeOK, NEW r \in DOMAIN requests, NEW s \in States, StateMoved(r, s)
    PROVE  authorizationBar' = [authorizationBar EXCEPT ![r] = authorizationBar'[r]]
<1>1. \A q \in Requests : q # r => authorizationBar'[q] = authorizationBar[q]
  BY DEF authorizationBar, StateMoved
<1>2. /\ authorizationBar = [q \in Requests |-> authorizationBar[q]]
      /\ authorizationBar' = [q \in Requests |-> authorizationBar'[q]]
  BY DEF authorizationBar
<1>3. QED
  BY <1>1, <1>2, BarOf

\* The first tables are empty, so nothing is authorized.
LEMMA InitRefines == Init => Permit!Init
BY DEF Init, EmptyMap, Permit!Init, authorizationBar

\* Every step gives, uses or withdraws one authorization, lets time pass, or
\* changes nothing that the abstract specification speaks about.
LEMMA StepRefines == IInv /\ [Next]_vars => [Permit!Next]_(Permit!vars)
<1> SUFFICES ASSUME IInv, [Next]_vars PROVE [Permit!Next]_(Permit!vars)
  OBVIOUS
<1> TypeOK
  BY DEF IInv
<1>1. ASSUME NEW p \in Requesters, NEW r \in Requests, NEW input \in Inputs,
             requestApproval(p, r, input)
      PROVE  UNCHANGED Permit!vars
  <2>1. /\ DOMAIN requests' = DOMAIN requests \cup {r}
        /\ r \notin DOMAIN requests
        /\ requests'[r].state = "PENDING"
        /\ \A q \in DOMAIN requests : requests'[q] = requests[q]
    BY <1>1 DEF requestApproval, Put
  <2>2. \A q \in Requests : authorizationBar'[q] = authorizationBar[q]
    BY <2>1 DEF authorizationBar
  <2>3. authorizationBar' = authorizationBar
    BY <2>2 DEF authorizationBar
  <2>4. QED
    BY <1>1, <2>3 DEF requestApproval, Permit!vars
<1>2. ASSUME NEW f \in Users, NEW r \in Requests, NEW k \in DecisionKeys, NEW b \in Bindings,
             approve(f, r, b, k)
      PROVE  Permit!Give(r)
  <2>1. /\ r \in DOMAIN requests
        /\ requests[r].state = "PENDING"
        /\ now < requests[r].expiresAt
        /\ requests[r] \in RequestRecord
        /\ StateMoved(r, "APPROVED")
        /\ now' = now
    BY <1>2, SetStateMoves DEF approve, MayDecide, IsExecutable, States, TypeOK
  <2>2. authorizationBar[r] = None
    BY <2>1, BarOf
  <2>3. authorizationBar'[r] = [binding |-> requests[r].binding,
                                until |-> requests[r].expiresAt, phase |-> "GIVEN"]
    BY <2>1 DEF authorizationBar, StateMoved
  <2>4. authorizationBar' = [authorizationBar EXCEPT ![r] = authorizationBar'[r]]
    BY <2>1, BarMoves DEF States
  <2>5. requests[r].binding \in Bindings /\ requests[r].expiresAt \in Deadlines
    BY <2>1 DEF RequestRecord
  <2>6. QED
    BY <2>1, <2>2, <2>3, <2>4, <2>5 DEF Permit!Give
<1>3. ASSUME NEW f \in Users, NEW r \in Requests, NEW k \in DecisionKeys, reject(f, r, k)
      PROVE  UNCHANGED Permit!vars
  <2>1. /\ r \in DOMAIN requests
        /\ requests[r].state = "PENDING"
        /\ StateMoved(r, "REJECTED")
    BY <1>3, SetStateMoves DEF reject, MayDecide, States
  <2>2. \A q \in Requests : authorizationBar'[q] = authorizationBar[q]
    BY <2>1 DEF authorizationBar, StateMoved
  <2>3. authorizationBar' = authorizationBar
    BY <2>2 DEF authorizationBar
  <2>4. QED
    BY <1>3, <2>3 DEF reject, Permit!vars
<1>4. ASSUME NEW f \in Users, NEW r \in Requests, NEW k \in DecisionKeys, revoke(f, r, k)
      PROVE  Permit!Withdraw(r)
  <2>1. /\ r \in DOMAIN requests
        /\ requests[r].state \in {"APPROVED", "PERMIT_ISSUED"}
        /\ StateMoved(r, "REVOKED")
        /\ now' = now
    BY <1>4, SetStateMoves DEF revoke, MayDecide, States
  <2>2. authorizationBar'[r] = [authorizationBar[r] EXCEPT !.phase = "WITHDRAWN"]
    <3>1. authorizationBar[r] = [binding |-> requests[r].binding,
                                 until |-> requests[r].expiresAt, phase |-> "GIVEN"]
      BY <2>1, BarOf
    <3>2. authorizationBar'[r] = [binding |-> requests[r].binding,
                                  until |-> requests[r].expiresAt, phase |-> "WITHDRAWN"]
      BY <2>1 DEF authorizationBar, StateMoved
    <3>3. QED
      BY <3>1, <3>2
  <2>3. authorizationBar' = [authorizationBar EXCEPT ![r] = authorizationBar'[r]]
    BY <2>1, BarMoves DEF States
  <2>4. QED
    BY <2>1, <2>2, <2>3, BarIsGiven DEF Permit!Withdraw
<1>5. ASSUME NEW r \in Requests, NEW b \in Bindings, NEW e \in Executors, NEW k \in IssueKeys,
             issueExecutionPermit(r, b, e, k)
      PROVE  UNCHANGED Permit!vars
  <2>1. /\ r \in DOMAIN requests
        /\ requests[r].state = "APPROVED"
        /\ StateMoved(r, "PERMIT_ISSUED")
    BY <1>5, SetStateMoves DEF issueExecutionPermit, States
  <2>2. \A q \in Requests : authorizationBar'[q] = authorizationBar[q]
    BY <2>1 DEF authorizationBar, StateMoved
  <2>3. authorizationBar' = authorizationBar
    BY <2>2 DEF authorizationBar
  <2>4. QED
    BY <1>5, <2>3 DEF issueExecutionPermit, Permit!vars
<1>6. ASSUME NEW call \in ClaimCall, claimExecutionPermit(call)
      PROVE  Permit!Use(call.request)
  <2> DEFINE r == call.request
  <2>1. /\ r \in DOMAIN requests
        /\ requests[r].state = "PERMIT_ISSUED"
        /\ now < requests[r].expiresAt
        /\ StateMoved(r, "PERMIT_CLAIMED")
        /\ now' = now
    BY <1>6, SetStateMoves
       DEF claimExecutionPermit, ClaimHolds, IsClaimable, IsExecutable, States, TypeOK
  <2> HIDE DEF r
  <2>2. authorizationBar'[r] = [authorizationBar[r] EXCEPT !.phase = "USED"]
    <3>1. authorizationBar[r] = [binding |-> requests[r].binding,
                                 until |-> requests[r].expiresAt, phase |-> "GIVEN"]
      BY <2>1, BarOf
    <3>2. authorizationBar'[r] = [binding |-> requests[r].binding,
                                  until |-> requests[r].expiresAt, phase |-> "USED"]
      BY <2>1 DEF authorizationBar, StateMoved, TypeOK
    <3>3. QED
      BY <3>1, <3>2
  <2>3. authorizationBar' = [authorizationBar EXCEPT ![r] = authorizationBar'[r]]
    BY <2>1, BarMoves DEF States
  <2>4. Permit!Use(r)
    BY <2>1, <2>2, <2>3, BarIsGiven DEF Permit!Use
  <2>5. QED
    BY <2>4 DEF r
<1>7. ASSUME now' = now, requests' = requests
      PROVE  UNCHANGED Permit!vars
  BY <1>7 DEF Permit!vars, authorizationBar
<1>8. CASE timePasses
  BY <1>8 DEF timePasses, TypeOK, Permit!Next, Permit!Tick, authorizationBar
<1>9. ASSUME NEW call \in ClaimCall
      PROVE  call.request \in Requests
  BY DEF ClaimCall
<1>10. ASSUME NEW call \in ClaimCall, checkClaim(call) \/ claimFails(call)
       PROVE  now' = now /\ requests' = requests
  BY <1>10 DEF checkClaim, claimFails
<1>11. ASSUME NEW b \in Bindings, workPrepared(b)
       PROVE  now' = now /\ requests' = requests
  BY <1>11 DEF workPrepared
<1>12. ASSUME NEW u \in Users, membershipChanges(u)
       PROVE  now' = now /\ requests' = requests
  BY <1>12 DEF membershipChanges
<1>13. CASE UNCHANGED vars
  BY <1>7, <1>13 DEF vars
<1>14. QED
  BY <1>1, <1>2, <1>3, <1>4, <1>5, <1>6, <1>7, <1>8, <1>9, <1>10, <1>11, <1>12, <1>13
     DEF Next, Permit!Next

\* The service implements SingleUsePermit: an authorization is given once, for
\* one binding and deadline, used at most once and in time, and withdrawn only
\* while unused.
THEOREM Implementation == Spec => ImplementsSingleUsePermit
BY InitRefines, StepRefines, Invariant, PTL DEF Spec, ImplementsSingleUsePermit, Permit!Spec
=============================================================================
