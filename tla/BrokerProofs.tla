----------------------------- MODULE BrokerProofs -----------------------------
(***************************************************************************)
(* Theorems about BrokerReservation.  The inductive invariant adds to the  *)
(* properties what a transaction that holds the lock of its run still      *)
(* knows when it stores its row (CallsAreSound): nobody else has a call of *)
(* the run, a run that was routable has got no reservation, and the        *)
(* reservation a dispatch verified is still there for the same run.        *)
(***************************************************************************)
EXTENDS BrokerReservation, FiniteSetTheorems, TLAPS

RunsAreLocked == \A call, other \in calls : call.run = other.run => call = other

RoutableRunsStayFree == \A call \in calls : call.kind = "reserve" =>
    \A id \in DOMAIN reservations : reservations[id].run = call.run => ~IsActive(id)

VerifiedReservationsStay == \A call \in calls : call.kind = "dispatch" =>
    call.id \in DOMAIN reservations /\ reservations[call.id].run = call.run

CallsAreSound == RunsAreLocked /\ RoutableRunsStayFree /\ VerifiedReservationsStay

BrokerSafety ==
    /\ TypeOK /\ IsFiniteSet(DOMAIN reservations) /\ CallsAreSound
    /\ CapacityHolds /\ OneReservationPerRun /\ ClaimFollowsDispatch /\ FundsFollowReservation

-----------------------------------------------------------------------------
(* Lemmas *)

\* Fewer holds need no more slots, budget or compute units (HasCapacity).
LEMMA FewerHolds ==
    ASSUME NEW S, NEW T, IsFiniteSet(T), S \subseteq T
    PROVE  /\ Cardinality(S) \in Nat /\ Cardinality(T) \in Nat
           /\ Cardinality(S) <= Cardinality(T)
           /\ Cardinality(S) * EstimatedCost <= Cardinality(T) * EstimatedCost
           /\ Cardinality(S) * ComputeUnits <= Cardinality(T) * ComputeUnits
<1>1. IsFiniteSet(S) /\ Cardinality(S) <= Cardinality(T)
  BY FS_Subset
<1>2. Cardinality(S) \in Nat /\ Cardinality(T) \in Nat
  BY <1>1, FS_CardinalityType
<1>3. \A a, b, e \in Nat : a <= b => a * e <= b * e
  OBVIOUS
<1> QED
  BY <1>1, <1>2, <1>3, CapacityAssumption

\* One hold more needs one estimate and one request of compute units more.
LEMMA OneHoldMore ==
    ASSUME NEW S, NEW T, NEW id, IsFiniteSet(T), S \subseteq T \cup {id}
    PROVE  /\ Cardinality(S) \in Nat /\ Cardinality(T) \in Nat
           /\ Cardinality(S) <= Cardinality(T) + 1
           /\ Cardinality(S) * EstimatedCost <= Cardinality(T) * EstimatedCost + EstimatedCost
           /\ Cardinality(S) * ComputeUnits <= Cardinality(T) * ComputeUnits + ComputeUnits
<1>1. IsFiniteSet(T \cup {id}) /\ Cardinality(T \cup {id}) <= Cardinality(T) + 1 /\ Cardinality(T) \in Nat
  BY FS_AddElement, FS_CardinalityType
<1>2. /\ Cardinality(S) \in Nat /\ Cardinality(T \cup {id}) \in Nat
      /\ Cardinality(S) <= Cardinality(T \cup {id})
  BY <1>1, FewerHolds
<1>3. \A a, b, e \in Nat : a <= b + 1 => a * e <= b * e + e
  OBVIOUS
<1> QED
  BY <1>1, <1>2, <1>3, CapacityAssumption

\* What is active on a connection is finite.
LEMMA HoldsAreFinite ==
    ASSUME IsFiniteSet(DOMAIN reservations), NEW c
    PROVE  IsFiniteSet(ActiveOn(c))
BY FS_Subset DEF ActiveOn

\* A step after which no other reservation is active keeps every connection
\* within its capacity.
LEMMA CapacityStays ==
    ASSUME IsFiniteSet(DOMAIN reservations), CapacityHolds,
           \A c \in Connections : ActiveOn(c)' \subseteq ActiveOn(c)
    PROVE  CapacityHolds'
<1> SUFFICES ASSUME NEW c \in Connections
             PROVE  /\ Cardinality(ActiveOn(c)') <= Slots[c]
                    /\ Cardinality(ActiveOn(c)') * EstimatedCost <= RuntimeBudget[c]
                    /\ Cardinality(ActiveOn(c)') * ComputeUnits <= RuntimeCompute[c]
  BY DEF CapacityHolds
<1>1. ActiveOn(c)' \subseteq ActiveOn(c) /\ IsFiniteSet(ActiveOn(c))
  BY HoldsAreFinite
<1>2. /\ Cardinality(ActiveOn(c)) <= Slots[c]
      /\ Cardinality(ActiveOn(c)) * EstimatedCost <= RuntimeBudget[c]
      /\ Cardinality(ActiveOn(c)) * ComputeUnits <= RuntimeCompute[c]
  BY DEF CapacityHolds
<1>3. /\ Cardinality(ActiveOn(c)') \in Nat /\ Cardinality(ActiveOn(c)) \in Nat
      /\ Cardinality(ActiveOn(c)') <= Cardinality(ActiveOn(c))
      /\ Cardinality(ActiveOn(c)') * EstimatedCost <= Cardinality(ActiveOn(c)) * EstimatedCost
      /\ Cardinality(ActiveOn(c)') * ComputeUnits <= Cardinality(ActiveOn(c)) * ComputeUnits
  BY <1>1, FewerHolds
<1>4. \A a, b \in Nat : a * b \in Nat
  OBVIOUS
<1> QED
  BY <1>2, <1>3, <1>4, CapacityAssumption

-----------------------------------------------------------------------------
(* Steps that leave the reservations alone *)

\* What a commitment was made for never changes (cancelBusinessExpense,
\* reconcileBusinessExpense).
CommitmentsStay ==
    /\ DOMAIN commitments' = DOMAIN commitments
    /\ \A id \in DOMAIN commitments :
         /\ commitments'[id].group = commitments[id].group
         /\ commitments'[id].reserved = commitments[id].reserved
         /\ commitments'[id].validUntil = commitments[id].validUntil

\* With time reservations only cease to be active.
LEMMA ActiveShrinks ==
    ASSUME TypeOK, UNCHANGED reservations, now' \in Nat, now <= now'
    PROVE  /\ \A id \in DOMAIN reservations : IsActive(id)' => IsActive(id)
           /\ \A c \in Connections : ActiveOn(c)' \subseteq ActiveOn(c)
<1>1. \A id \in DOMAIN reservations : IsActive(id)' => IsActive(id)
  <2> SUFFICES ASSUME NEW id \in DOMAIN reservations, IsActive(id)' PROVE IsActive(id)
    OBVIOUS
  <2>1. reservations[id].expiresAt \in Nat /\ now \in Nat
    BY LimitAssumption DEF TypeOK, SpendingTypeOK, Reservation
  <2> QED
    BY <2>1 DEF IsActive
<1> QED
  BY <1>1 DEF ActiveOn

LEMMA ReservationsKept ==
    ASSUME BrokerSafety, TypeOK', UNCHANGED <<reservations, dispatches>>, now <= now',
           calls' \subseteq calls, CommitmentsStay
    PROVE  BrokerSafety'
<1>1. now' \in Nat
  BY LimitAssumption DEF TypeOK, SpendingTypeOK
<1>2. /\ \A id \in DOMAIN reservations : IsActive(id)' => IsActive(id)
      /\ \A c \in Connections : ActiveOn(c)' \subseteq ActiveOn(c)
  BY <1>1, ActiveShrinks DEF BrokerSafety
<1>3. CapacityHolds'
  BY <1>2, CapacityStays DEF BrokerSafety
<1>4. CallsAreSound'
  <2>1. RunsAreLocked' /\ VerifiedReservationsStay'
    BY DEF BrokerSafety, CallsAreSound, RunsAreLocked, VerifiedReservationsStay
  <2>2. RoutableRunsStayFree'
    BY <1>2 DEF BrokerSafety, CallsAreSound, RoutableRunsStayFree
  <2> QED
    BY <2>1, <2>2 DEF CallsAreSound
<1>5. OneReservationPerRun' /\ ClaimFollowsDispatch'
  BY DEF BrokerSafety, OneReservationPerRun, ClaimFollowsDispatch
<1>6. FundsFollowReservation'
  <2>1. DOMAIN commitments' = {id \in DOMAIN reservations : ~reservations[id].testOnly /\ TaskMaximum > 0}
    BY DEF BrokerSafety, FundsFollowReservation, CommitmentsStay
  <2>2. \A id \in DOMAIN commitments' :
          /\ commitments'[id].group = GroupOf[reservations[id].run]
          /\ commitments'[id].reserved = TaskMaximum /\ CurrencyOf[reservations[id].run] = "EUR"
          /\ commitments'[id].validUntil = reservations[id].expiresAt
    BY DEF BrokerSafety, FundsFollowReservation, CommitmentsStay
  <2> QED
    BY <2>1, <2>2 DEF FundsFollowReservation
<1> QED
  BY <1>3, <1>4, <1>5, <1>6 DEF BrokerSafety

LEMMA AccountStep ==
    ASSUME BrokerSafety, AccountNext, UNCHANGED <<candidates, runs, reservations, dispatches, calls>>
    PROVE  BrokerSafety'
<1> USE DEF CommitmentsStay
<1>0. TypeOK /\ now \in Nat
  BY LimitAssumption DEF BrokerSafety, TypeOK, SpendingTypeOK
<1> SUFFICES SpendingTypeOK' /\ now <= now' /\ CommitmentsStay
  <2>1. TypeOK'
    BY DEF BrokerSafety, TypeOK, Reservation, Call
  <2> QED
    BY <2>1, ReservationsKept
<1>1. ASSUME NEW c \in Commitments, cancelBusinessExpense(c)
      PROVE  SpendingTypeOK' /\ now <= now' /\ CommitmentsStay
  <2>1. now <= now' /\ CommitmentsStay
    BY <1>0, <1>1 DEF cancelBusinessExpense, TypeOK, SpendingTypeOK
  <2>2. \A d \in DOMAIN commitments : commitments[d] \in Commitment
    BY <1>0 DEF TypeOK, SpendingTypeOK
  <2>3. \A d \in DOMAIN commitments' :
          /\ commitments'[d] \in Commitment
          /\ (commitments'[d].state = "SETTLED") = (commitments'[d].actual # None)
    BY <1>0, <1>1, <2>2 DEF cancelBusinessExpense, TypeOK, SpendingTypeOK, Commitment
  <2> QED
    BY <1>0, <1>1, <2>1, <2>3 DEF cancelBusinessExpense, TypeOK, SpendingTypeOK
<1>2. ASSUME NEW c \in Commitments, NEW cents \in Cents, reconcileBusinessExpense(c, cents)
      PROVE  SpendingTypeOK' /\ now <= now' /\ CommitmentsStay
  <2>1. now <= now' /\ CommitmentsStay
    BY <1>0, <1>2 DEF reconcileBusinessExpense, TypeOK, SpendingTypeOK
  <2>2. month \in Nat /\ cents \in Nat /\ cents # None
    BY <1>0, CentsAssumption, LimitAssumption DEF TypeOK, SpendingTypeOK
  <2>3. \A d \in DOMAIN commitments' :
          /\ commitments'[d] \in Commitment
          /\ (commitments'[d].state = "SETTLED") = (commitments'[d].actual # None)
    BY <1>0, <1>2, <2>2 DEF reconcileBusinessExpense, TypeOK, SpendingTypeOK, Commitment
  <2>4. account' \in Account
    BY <1>0, <1>2 DEF reconcileBusinessExpense, TypeOK, SpendingTypeOK, Account, AccountStates
  <2> QED
    BY <1>0, <1>2, <2>1, <2>3, <2>4 DEF reconcileBusinessExpense, TypeOK, SpendingTypeOK
<1>3. ASSUME NEW state \in AccountStates, setBusinessExecutionState(state)
      PROVE  SpendingTypeOK' /\ now <= now' /\ CommitmentsStay
  BY <1>0, <1>3 DEF setBusinessExecutionState, TypeOK, SpendingTypeOK, Account
<1>4. ASSUME NEW f \in Fundings, NEW until \in 1..(MaxTime + 1), fundingVerified(f, until)
      PROVE  SpendingTypeOK' /\ now <= now' /\ CommitmentsStay
  <2>1. f \in Nat /\ until \in Nat
    BY CentsAssumption, LimitAssumption
  <2>2. account' = [account EXCEPT !.funding = f, !.fundingUntil = until] /\ account \in Account
    BY <1>0, <1>4 DEF fundingVerified, TypeOK, SpendingTypeOK
  <2>3. account' \in Account
    BY <2>1, <2>2 DEF Account
  <2> QED
    BY <1>0, <1>4, <2>3 DEF fundingVerified, TypeOK, SpendingTypeOK
<1>5. CASE entitlementChanges
  BY <1>0, <1>5 DEF entitlementChanges, TypeOK, SpendingTypeOK
<1>6. CASE timePasses
  BY <1>0, <1>6, LimitAssumption DEF timePasses, TypeOK, SpendingTypeOK
<1> QED
  BY <1>1, <1>2, <1>3, <1>4, <1>5, <1>6 DEF AccountNext

LEMMA QuietStep ==
    ASSUME BrokerSafety,
           \/ \E call \in calls : callFails(call)
           \/ \E r \in Runs, status \in {"RUNNING", "ENDED"} : runChanges(r, status)
           \/ \E snapshot \in Snapshots : candidatesChange(snapshot)
           \/ UNCHANGED vars
    PROVE  BrokerSafety'
<1>1. now \in Nat /\ TypeOK
  BY LimitAssumption DEF BrokerSafety, TypeOK, SpendingTypeOK
<1>2. UNCHANGED <<spendingVars, reservations, dispatches>> /\ calls' \subseteq calls
  BY DEF callFails, runChanges, candidatesChange, vars
<1>3. candidates' \in Snapshots /\ runs' \in [Runs -> {"PREPARED", "RUNNING", "ENDED"}]
  BY <1>1 DEF callFails, runChanges, candidatesChange, vars, TypeOK
<1>4. TypeOK'
  BY <1>1, <1>2, <1>3 DEF TypeOK, SpendingTypeOK, spendingVars
<1>5. now <= now' /\ CommitmentsStay
  BY <1>1, <1>2 DEF CommitmentsStay, spendingVars
<1> QED
  BY <1>2, <1>4, <1>5, ReservationsKept

-----------------------------------------------------------------------------
(* Beginning a transaction: the lock of the run *)

LEMMA BeginReservationStep ==
    ASSUME BrokerSafety, NEW id \in Reservations, NEW r \in Runs, NEW c \in Connections,
           beginReservation(id, r, c)
    PROVE  BrokerSafety'
<1> DEFINE call == [kind |-> "reserve", id |-> id, run |-> r, connection |-> c, snapshot |-> candidates]
<1>1. /\ UNCHANGED <<now, month, entitled, account, commitments, candidates, runs, reservations, dispatches>>
      /\ calls' = calls \cup {call}
      /\ ~Locked(r) /\ RunIsRoutable(r)
  BY DEF beginReservation, spendingVars
<1>2. call \in Call /\ TypeOK
  BY DEF BrokerSafety, TypeOK, Call
<1>3. TypeOK'
  BY <1>1, <1>2 DEF TypeOK, SpendingTypeOK
<1>4. RunsAreLocked'
  BY <1>1 DEF BrokerSafety, CallsAreSound, RunsAreLocked, Locked
<1>5. RoutableRunsStayFree'
  BY <1>1 DEF BrokerSafety, CallsAreSound, RoutableRunsStayFree, RunIsRoutable, IsActive
<1>6. VerifiedReservationsStay'
  BY <1>1 DEF BrokerSafety, CallsAreSound, VerifiedReservationsStay
<1>7. CapacityHolds' /\ OneReservationPerRun' /\ ClaimFollowsDispatch' /\ FundsFollowReservation'
  BY <1>1 DEF BrokerSafety, CapacityHolds, ActiveOn, IsActive, OneReservationPerRun,
              ClaimFollowsDispatch, FundsFollowReservation
<1> QED
  BY <1>1, <1>3, <1>4, <1>5, <1>6, <1>7 DEF BrokerSafety, CallsAreSound

LEMMA BeginDispatchStep ==
    ASSUME BrokerSafety, NEW id \in Reservations, beginDispatch(id)
    PROVE  BrokerSafety'
<1> DEFINE r == reservations[id].run
           call == [kind |-> "dispatch", id |-> id, run |-> r,
                    connection |-> reservations[id].connection, snapshot |-> candidates]
<1>1. /\ UNCHANGED <<now, month, entitled, account, commitments, candidates, runs, reservations, dispatches>>
      /\ calls' = calls \cup {call}
      /\ ~Locked(r) /\ id \in DOMAIN reservations
  BY DEF beginDispatch, verify, spendingVars
<1>2. call \in Call /\ TypeOK
  BY <1>1 DEF BrokerSafety, TypeOK, Call, Reservation
<1>3. TypeOK'
  BY <1>1, <1>2 DEF TypeOK, SpendingTypeOK
<1>4. RunsAreLocked'
  BY <1>1 DEF BrokerSafety, CallsAreSound, RunsAreLocked, Locked
<1>5. RoutableRunsStayFree'
  BY <1>1 DEF BrokerSafety, CallsAreSound, RoutableRunsStayFree, IsActive
<1>6. VerifiedReservationsStay'
  BY <1>1 DEF BrokerSafety, CallsAreSound, VerifiedReservationsStay
<1>7. CapacityHolds' /\ OneReservationPerRun' /\ ClaimFollowsDispatch' /\ FundsFollowReservation'
  BY <1>1 DEF BrokerSafety, CapacityHolds, ActiveOn, IsActive, OneReservationPerRun,
              ClaimFollowsDispatch, FundsFollowReservation
<1> QED
  BY <1>1, <1>3, <1>4, <1>5, <1>6, <1>7 DEF BrokerSafety, CallsAreSound

-----------------------------------------------------------------------------
(* Storing a reservation *)

\* The rows after the insertion: the other ones only expire, and only when due.
RowIsAdded(call) ==
    /\ DOMAIN reservations' = DOMAIN reservations \cup {call.id}
    /\ call.id \notin DOMAIN reservations
    /\ reservations'[call.id] =
         [run |-> call.run, connection |-> call.connection, testOnly |-> call.snapshot.testOnly,
          expiresAt |-> now + ReservationTTL, state |-> "RESERVED", claimedAt |-> None]
    /\ \A id \in DOMAIN reservations :
         /\ reservations'[id] \in Reservation
         /\ reservations'[id].run = reservations[id].run
         /\ reservations'[id].connection = reservations[id].connection
         /\ reservations'[id].testOnly = reservations[id].testOnly
         /\ reservations'[id].expiresAt = reservations[id].expiresAt
         /\ reservations'[id].claimedAt = reservations[id].claimedAt
         /\ \/ reservations'[id].state = reservations[id].state
            \/ reservations[id].state = "RESERVED" /\ reservations'[id].state = "EXPIRED"
         /\ (IsDue(id) /\ reservations[id].run = call.run) => reservations'[id].state = "EXPIRED"

LEMMA AddedReservation ==
    ASSUME BrokerSafety, NEW call \in calls, reserveForPreparedRun(call)
    PROVE  RowIsAdded(call)
<1> DEFINE Expire(id) == IF IsDue(id) /\ (reservations[id].run = call.run
                                            \/ reservations[id].connection = call.connection)
                           THEN [reservations[id] EXCEPT !.state = "EXPIRED"] ELSE reservations[id]
<1>1. /\ reservations' = Put([id \in DOMAIN reservations |-> Expire(id)], call.id,
           [run |-> call.run, connection |-> call.connection, testOnly |-> call.snapshot.testOnly,
            expiresAt |-> now + ReservationTTL, state |-> "RESERVED", claimedAt |-> None])
      /\ call.id \notin DOMAIN reservations
  BY DEF reserveForPreparedRun, AddReservation
<1>2. /\ DOMAIN reservations' = DOMAIN reservations \cup {call.id}
      /\ reservations'[call.id] =
           [run |-> call.run, connection |-> call.connection, testOnly |-> call.snapshot.testOnly,
            expiresAt |-> now + ReservationTTL, state |-> "RESERVED", claimedAt |-> None]
      /\ \A id \in DOMAIN reservations : reservations'[id] = Expire(id)
  BY <1>1 DEF Put
<1>3. ASSUME NEW id \in DOMAIN reservations
      PROVE  /\ reservations'[id] \in Reservation
             /\ reservations'[id].run = reservations[id].run
             /\ reservations'[id].connection = reservations[id].connection
             /\ reservations'[id].testOnly = reservations[id].testOnly
             /\ reservations'[id].expiresAt = reservations[id].expiresAt
             /\ reservations'[id].claimedAt = reservations[id].claimedAt
             /\ \/ reservations'[id].state = reservations[id].state
                \/ reservations[id].state = "RESERVED" /\ reservations'[id].state = "EXPIRED"
             /\ (IsDue(id) /\ reservations[id].run = call.run) => reservations'[id].state = "EXPIRED"
  <2>1. reservations[id] \in Reservation
    BY DEF BrokerSafety, TypeOK
  <2>2. reservations'[id] = Expire(id)
    BY <1>2
  <2>3. CASE IsDue(id) /\ (reservations[id].run = call.run \/ reservations[id].connection = call.connection)
    <3>1. reservations'[id] = [reservations[id] EXCEPT !.state = "EXPIRED"]
      BY <2>2, <2>3
    <3> QED
      BY <2>1, <2>3, <3>1 DEF Reservation, IsDue
  <2>4. CASE ~(IsDue(id) /\ (reservations[id].run = call.run \/ reservations[id].connection = call.connection))
    <3>1. reservations'[id] = reservations[id]
      BY <2>2, <2>4
    <3> QED
      BY <2>1, <2>4, <3>1
  <2> QED
    BY <2>3, <2>4
<1> QED
  BY <1>1, <1>2, <1>3 DEF RowIsAdded

\* The funds are committed in the same transaction, or none are needed.
FundsAreAdded(call) ==
    /\ SpendingTypeOK' /\ now' = now
    /\ DOMAIN commitments' =
         IF ~call.snapshot.testOnly /\ TaskMaximum > 0 THEN DOMAIN commitments \cup {call.id}
         ELSE DOMAIN commitments
    /\ \A id \in DOMAIN commitments : commitments'[id] = commitments[id]
    /\ (~call.snapshot.testOnly /\ TaskMaximum > 0) =>
         /\ commitments'[call.id].group = GroupOf[call.run]
         /\ commitments'[call.id].reserved = TaskMaximum /\ CurrencyOf[call.run] = "EUR"
         /\ commitments'[call.id].validUntil = now + ReservationTTL

LEMMA AddedCommitment ==
    ASSUME BrokerSafety, NEW call \in calls, reserveForPreparedRun(call)
    PROVE  FundsAreAdded(call)
<1>1. /\ SpendingTypeOK /\ call.run \in Runs /\ call.id \in Commitments /\ now \in Nat
      /\ TaskMaximum \in Nat /\ ReservationTTL \in Nat /\ ReserveFunds(call)
  BY LimitAssumption, CapacityAssumption, ObjectiveAssumption
  DEF BrokerSafety, TypeOK, SpendingTypeOK, Call, reserveForPreparedRun
<1>2. CASE call.snapshot.testOnly \/ TaskMaximum = 0
  <2>1. UNCHANGED <<now, month, entitled, account, commitments>>
    BY <1>1, <1>2 DEF ReserveFunds, spendingVars
  <2> QED
    BY <1>1, <1>2, <2>1 DEF SpendingTypeOK, FundsAreAdded
<1>3. CASE ~(call.snapshot.testOnly \/ TaskMaximum = 0)
  <2> DEFINE row == [group |-> GroupOf[call.run], reserved |-> TaskMaximum, actual |-> None,
                     validUntil |-> now + ReservationTTL, state |-> "RESERVED", settledIn |-> None]
  <2>1. /\ call.id \notin DOMAIN commitments
        /\ commitments' = Put(commitments, call.id, row) /\ CurrencyOf[call.run] = "EUR"
        /\ UNCHANGED <<now, month, entitled, account>>
    BY <1>1, <1>3 DEF ReserveFunds, reserveBusinessExpenseInTransaction
  <2>2. row \in Commitment
    BY <1>1, ObjectiveAssumption DEF Commitment
  <2>3. /\ DOMAIN commitments' = DOMAIN commitments \cup {call.id}
        /\ commitments'[call.id] = row
        /\ \A id \in DOMAIN commitments : commitments'[id] = commitments[id]
    BY <2>1 DEF Put
  <2>4. (row.state = "SETTLED") = (row.actual # None)
    OBVIOUS
  <2>5. SpendingTypeOK'
    BY <1>1, <2>1, <2>2, <2>3, <2>4 DEF SpendingTypeOK
  <2> QED
    BY <1>1, <1>3, <2>1, <2>3, <2>5 DEF FundsAreAdded
<1> QED
  BY <1>2, <1>3

\* The new row is the only one that may have become active.
LEMMA AddedHold ==
    ASSUME BrokerSafety, NEW call \in calls, reserveForPreparedRun(call)
    PROVE  /\ \A id \in DOMAIN reservations : IsActive(id)' => IsActive(id)
           /\ \A c \in Connections : c # call.connection => ActiveOn(c)' \subseteq ActiveOn(c)
           /\ ActiveOn(call.connection)' \subseteq ActiveOn(call.connection) \cup {call.id}
<1>0. RowIsAdded(call) /\ FundsAreAdded(call)
  BY AddedReservation, AddedCommitment
<1>1. now' = now
  BY <1>0 DEF FundsAreAdded
<1>2. \A id \in DOMAIN reservations : IsActive(id)' => IsActive(id)
  BY <1>0, <1>1 DEF IsActive, RowIsAdded
<1>3. \A c : ActiveOn(c)' \subseteq ActiveOn(c) \cup {call.id}
  BY <1>0, <1>2 DEF ActiveOn, RowIsAdded
<1>4. \A c \in Connections : call.id \in ActiveOn(c)' => c = call.connection
  BY <1>0 DEF ActiveOn, RowIsAdded
<1> QED
  BY <1>2, <1>3, <1>4

LEMMA ReserveStep ==
    ASSUME BrokerSafety, NEW call \in calls, reserveForPreparedRun(call)
    PROVE  BrokerSafety'
<1>0. RowIsAdded(call) /\ FundsAreAdded(call)
  BY AddedReservation, AddedCommitment
<1>1. /\ TypeOK /\ call \in Call /\ call.kind = "reserve" /\ HasCapacity(call.connection)
      /\ calls' = calls \ {call} /\ UNCHANGED <<candidates, runs, dispatches>>
  BY DEF BrokerSafety, TypeOK, reserveForPreparedRun
<1>2. now \in Nat /\ now' = now /\ SpendingTypeOK'
  BY <1>0, <1>1, LimitAssumption DEF TypeOK, SpendingTypeOK, FundsAreAdded
<1>3. TypeOK'
  <2>1. call.snapshot.testOnly \in BOOLEAN /\ now + ReservationTTL \in Nat
    BY <1>1, <1>2, EvidenceAssumption, CapacityAssumption DEF Call
  <2>2. reservations'[call.id] \in Reservation
    BY <1>0, <1>1, <2>1 DEF Call, Reservation, RowIsAdded
  <2>3. \A id \in DOMAIN reservations' : id \in Reservations /\ reservations'[id] \in Reservation
    BY <1>0, <1>1, <2>2 DEF TypeOK, Call, RowIsAdded
  <2> QED
    BY <1>1, <1>2, <2>3 DEF TypeOK
<1>4. IsFiniteSet(DOMAIN reservations')
  BY <1>0, FS_AddElement DEF BrokerSafety, RowIsAdded
<1>5. CallsAreSound'
  <2>1. RunsAreLocked'
    BY <1>1 DEF BrokerSafety, CallsAreSound, RunsAreLocked
  <2>2. RoutableRunsStayFree'
    <3> SUFFICES ASSUME NEW other \in calls', other.kind = "reserve",
                        NEW id \in DOMAIN reservations', reservations'[id].run = other.run
                 PROVE  ~IsActive(id)'
      BY DEF RoutableRunsStayFree
    <3>1. other \in calls /\ other.run # call.run
      BY <1>1 DEF BrokerSafety, CallsAreSound, RunsAreLocked
    <3>2. id # call.id
      BY <1>0, <3>1 DEF RowIsAdded
    <3>3. id \in DOMAIN reservations /\ reservations[id].run = other.run
      BY <1>0, <3>2 DEF RowIsAdded
    <3>4. ~IsActive(id)
      BY <3>1, <3>3 DEF BrokerSafety, CallsAreSound, RoutableRunsStayFree
    <3> QED
      BY <3>3, <3>4, AddedHold
  <2>3. VerifiedReservationsStay'
    BY <1>0, <1>1 DEF BrokerSafety, CallsAreSound, VerifiedReservationsStay, RowIsAdded
  <2> QED
    BY <2>1, <2>2, <2>3 DEF CallsAreSound
<1>6. CapacityHolds'
  <2> SUFFICES ASSUME NEW c \in Connections
               PROVE  /\ Cardinality(ActiveOn(c)') <= Slots[c]
                      /\ Cardinality(ActiveOn(c)') * EstimatedCost <= RuntimeBudget[c]
                      /\ Cardinality(ActiveOn(c)') * ComputeUnits <= RuntimeCompute[c]
    BY DEF CapacityHolds
  <2>1. IsFiniteSet(ActiveOn(c))
    BY HoldsAreFinite DEF BrokerSafety
  <2>2. \A a, b \in Nat : a * b \in Nat
    OBVIOUS
  <2>3. /\ Slots[c] \in Nat /\ RuntimeBudget[c] \in Nat /\ EstimatedCost \in Nat
        /\ RuntimeCompute[c] \in Nat /\ ComputeUnits \in Nat
    BY CapacityAssumption
  <2>4. CASE c # call.connection
    <3>1. /\ Cardinality(ActiveOn(c)') \in Nat /\ Cardinality(ActiveOn(c)) \in Nat
          /\ Cardinality(ActiveOn(c)') <= Cardinality(ActiveOn(c))
          /\ Cardinality(ActiveOn(c)') * EstimatedCost <= Cardinality(ActiveOn(c)) * EstimatedCost
          /\ Cardinality(ActiveOn(c)') * ComputeUnits <= Cardinality(ActiveOn(c)) * ComputeUnits
      BY <2>1, <2>4, AddedHold, FewerHolds
    <3>2. /\ Cardinality(ActiveOn(c)) <= Slots[c]
          /\ Cardinality(ActiveOn(c)) * EstimatedCost <= RuntimeBudget[c]
          /\ Cardinality(ActiveOn(c)) * ComputeUnits <= RuntimeCompute[c]
      BY DEF BrokerSafety, CapacityHolds
    <3> QED
      BY <2>2, <2>3, <3>1, <3>2
  <2>5. CASE c = call.connection
    <3>1. ActiveOn(c)' \subseteq ActiveOn(c) \cup {call.id}
      BY <2>5, AddedHold
    <3>2. /\ Cardinality(ActiveOn(c)') \in Nat /\ Cardinality(ActiveOn(c)) \in Nat
          /\ Cardinality(ActiveOn(c)') <= Cardinality(ActiveOn(c)) + 1
          /\ Cardinality(ActiveOn(c)') * EstimatedCost <= Cardinality(ActiveOn(c)) * EstimatedCost + EstimatedCost
          /\ Cardinality(ActiveOn(c)') * ComputeUnits <= Cardinality(ActiveOn(c)) * ComputeUnits + ComputeUnits
      BY <2>1, <3>1, OneHoldMore
    <3>3. /\ Cardinality(ActiveOn(c)) < Slots[c]
          /\ Cardinality(ActiveOn(c)) * EstimatedCost + EstimatedCost <= RuntimeBudget[c]
          /\ Cardinality(ActiveOn(c)) * ComputeUnits + ComputeUnits <= RuntimeCompute[c]
      BY <1>1, <2>5 DEF HasCapacity
    <3> QED
      BY <2>2, <2>3, <3>2, <3>3
  <2> QED
    BY <2>4, <2>5
<1>7. OneReservationPerRun'
  <2>1. \A id \in DOMAIN reservations : reservations'[id].run = call.run =>
          reservations'[id].state \notin {"RESERVED", "CLAIMED"}
    <3> SUFFICES ASSUME NEW id \in DOMAIN reservations, reservations'[id].run = call.run
                 PROVE  reservations'[id].state \notin {"RESERVED", "CLAIMED"}
      OBVIOUS
    <3>1. reservations[id].run = call.run /\ ~IsActive(id)
      BY <1>0, <1>1 DEF BrokerSafety, CallsAreSound, RoutableRunsStayFree, RowIsAdded
    <3>2. reservations[id].expiresAt \in Nat
      BY <1>1 DEF TypeOK, Reservation
    <3>3. reservations[id].state # "CLAIMED" /\ (reservations[id].state = "RESERVED" => IsDue(id))
      BY <1>2, <3>1, <3>2 DEF IsActive, IsDue
    <3> QED
      BY <1>0, <3>1, <3>3 DEF RowIsAdded
  <2>2. \A id \in DOMAIN reservations : reservations'[id].state \in {"RESERVED", "CLAIMED"} =>
          reservations[id].state \in {"RESERVED", "CLAIMED"}
    BY <1>0 DEF RowIsAdded
  <2> QED
    BY <1>0, <2>1, <2>2 DEF BrokerSafety, OneReservationPerRun, RowIsAdded
<1>8. ClaimFollowsDispatch'
  <2>1. \A r \in Runs : dispatches'[r] # "NONE" =>
          \E id \in DOMAIN reservations' :
            /\ reservations'[id].run = r
            /\ reservations'[id].state = (IF dispatches'[r] = "OPEN" THEN "CLAIMED" ELSE "RELEASED")
    BY <1>0, <1>1 DEF BrokerSafety, ClaimFollowsDispatch, RowIsAdded
  <2>2. \A id \in DOMAIN reservations' :
          /\ reservations'[id].state = "CLAIMED" => dispatches'[reservations'[id].run] = "OPEN"
          /\ reservations'[id].claimedAt # None => reservations'[id].claimedAt < reservations'[id].expiresAt
    BY <1>0, <1>1 DEF BrokerSafety, ClaimFollowsDispatch, RowIsAdded
  <2> QED
    BY <2>1, <2>2 DEF ClaimFollowsDispatch
<1>9. FundsFollowReservation'
  <2>1. DOMAIN commitments' = {id \in DOMAIN reservations' : ~reservations'[id].testOnly /\ TaskMaximum > 0}
    <3>1. DOMAIN commitments = {id \in DOMAIN reservations : ~reservations[id].testOnly /\ TaskMaximum > 0}
      BY DEF BrokerSafety, FundsFollowReservation
    <3>2. reservations'[call.id].testOnly = call.snapshot.testOnly
      BY <1>0 DEF RowIsAdded
    <3> QED
      BY <1>0, <3>1, <3>2 DEF RowIsAdded, FundsAreAdded
  <2>2. \A id \in DOMAIN commitments' :
          /\ commitments'[id].group = GroupOf[reservations'[id].run]
          /\ commitments'[id].reserved = TaskMaximum /\ CurrencyOf[reservations'[id].run] = "EUR"
          /\ commitments'[id].validUntil = reservations'[id].expiresAt
    BY <1>0 DEF BrokerSafety, FundsFollowReservation, RowIsAdded, FundsAreAdded
  <2> QED
    BY <2>1, <2>2 DEF FundsFollowReservation
<1> QED
  BY <1>3, <1>4, <1>5, <1>6, <1>7, <1>8, <1>9 DEF BrokerSafety

-----------------------------------------------------------------------------
(* Claiming and releasing a reservation *)

\* A step that only moves states of rows, and makes none active, keeps the
\* capacity, the funds and what the other transactions know.
StatesMove ==
    /\ DOMAIN reservations' = DOMAIN reservations
    /\ \A id \in DOMAIN reservations :
         /\ reservations'[id] \in Reservation
         /\ reservations'[id].run = reservations[id].run
         /\ reservations'[id].connection = reservations[id].connection
         /\ reservations'[id].testOnly = reservations[id].testOnly
         /\ reservations'[id].expiresAt = reservations[id].expiresAt
         /\ IsActive(id)' => IsActive(id)
         /\ reservations'[id].state \in {"RESERVED", "CLAIMED"} => reservations[id].state \in {"RESERVED", "CLAIMED"}

LEMMA StatesMoveStep ==
    ASSUME BrokerSafety, StatesMove, ClaimFollowsDispatch', calls' \subseteq calls,
           UNCHANGED <<now, month, entitled, account, commitments, candidates, runs>>,
           dispatches' \in [Runs -> {"NONE", "OPEN", "ENDED"}]
    PROVE  BrokerSafety'
<1>1. TypeOK'
  BY DEF BrokerSafety, TypeOK, SpendingTypeOK, StatesMove
<1>2. CallsAreSound'
  BY DEF BrokerSafety, CallsAreSound, RunsAreLocked, RoutableRunsStayFree, VerifiedReservationsStay, StatesMove
<1>3. CapacityHolds'
  <2>1. \A c \in Connections : ActiveOn(c)' \subseteq ActiveOn(c)
    BY DEF ActiveOn, StatesMove
  <2> QED
    BY <2>1, CapacityStays DEF BrokerSafety
<1>4. OneReservationPerRun'
  BY DEF BrokerSafety, OneReservationPerRun, StatesMove
<1>5. FundsFollowReservation'
  BY DEF BrokerSafety, FundsFollowReservation, StatesMove
<1> QED
  BY <1>1, <1>2, <1>3, <1>4, <1>5 DEF BrokerSafety, StatesMove

LEMMA PrepareDispatchStep ==
    ASSUME BrokerSafety, NEW call \in calls, prepareDispatch(call)
    PROVE  BrokerSafety'
<1>1. /\ TypeOK /\ now \in Nat /\ call.run \in Runs
      /\ call.id \in DOMAIN reservations /\ reservations[call.id].run = call.run
      /\ reservations[call.id].state = "RESERVED" /\ now < reservations[call.id].expiresAt
  BY LimitAssumption DEF BrokerSafety, TypeOK, SpendingTypeOK, Call, CallsAreSound, VerifiedReservationsStay,
     prepareDispatch, MayClaim
<1>2. /\ dispatches' = [dispatches EXCEPT ![call.run] = "OPEN"]
      /\ reservations' = [reservations EXCEPT ![call.id].state = "CLAIMED", ![call.id].claimedAt = now]
      /\ calls' \subseteq calls
      /\ UNCHANGED <<now, month, entitled, account, commitments, candidates, runs>>
  BY DEF prepareDispatch, spendingVars
<1>3. /\ DOMAIN reservations' = DOMAIN reservations
      /\ reservations'[call.id] = [reservations[call.id] EXCEPT !.state = "CLAIMED", !.claimedAt = now]
      /\ \A id \in DOMAIN reservations : id # call.id => reservations'[id] = reservations[id]
  BY <1>1, <1>2
<1>4. reservations[call.id] \in Reservation
  BY <1>1 DEF TypeOK
<1>5. /\ reservations'[call.id] \in Reservation
      /\ reservations'[call.id].run = call.run
      /\ reservations'[call.id].connection = reservations[call.id].connection
      /\ reservations'[call.id].testOnly = reservations[call.id].testOnly
      /\ reservations'[call.id].expiresAt = reservations[call.id].expiresAt
      /\ reservations'[call.id].state = "CLAIMED" /\ reservations'[call.id].claimedAt = now
  BY <1>1, <1>3, <1>4 DEF Reservation
<1>6. StatesMove
  <2>1. \A id \in DOMAIN reservations : reservations[id] \in Reservation
    BY <1>1 DEF TypeOK
  <2> QED
    BY <1>1, <1>2, <1>3, <1>5, <2>1 DEF StatesMove, IsActive
<1>7. dispatches' \in [Runs -> {"NONE", "OPEN", "ENDED"}]
  BY <1>1, <1>2 DEF TypeOK
<1>8. ClaimFollowsDispatch'
  <2>1. dispatches'[call.run] = "OPEN" /\ \A r \in Runs : r # call.run => dispatches'[r] = dispatches[r]
    BY <1>1, <1>2 DEF TypeOK
  <2>2. ASSUME NEW r \in Runs, dispatches'[r] # "NONE"
        PROVE  \E id \in DOMAIN reservations' :
                 /\ reservations'[id].run = r
                 /\ reservations'[id].state = (IF dispatches'[r] = "OPEN" THEN "CLAIMED" ELSE "RELEASED")
    <3>1. CASE r = call.run
      BY <1>1, <1>3, <1>5, <2>1, <3>1
    <3>2. CASE r # call.run
      <4>1. PICK id \in DOMAIN reservations :
              /\ reservations[id].run = r
              /\ reservations[id].state = (IF dispatches[r] = "OPEN" THEN "CLAIMED" ELSE "RELEASED")
        BY <2>1, <2>2, <3>2 DEF BrokerSafety, ClaimFollowsDispatch
      <4>2. id # call.id
        BY <1>1, <3>2, <4>1
      <4> QED
        BY <1>3, <2>1, <3>2, <4>1, <4>2
    <3> QED
      BY <3>1, <3>2
  <2>3. \A id \in DOMAIN reservations' :
          /\ reservations'[id].state = "CLAIMED" => dispatches'[reservations'[id].run] = "OPEN"
          /\ reservations'[id].claimedAt # None => reservations'[id].claimedAt < reservations'[id].expiresAt
    <3> SUFFICES ASSUME NEW id \in DOMAIN reservations
                 PROVE  /\ reservations'[id].state = "CLAIMED" => dispatches'[reservations'[id].run] = "OPEN"
                        /\ reservations'[id].claimedAt # None => reservations'[id].claimedAt < reservations'[id].expiresAt
      BY <1>3
    <3>1. reservations[id].run \in Runs
      BY <1>1 DEF TypeOK, Reservation
    <3>2. CASE id = call.id
      BY <1>1, <1>5, <2>1, <3>2
    <3>3. CASE id # call.id
      BY <1>3, <2>1, <3>1, <3>3 DEF BrokerSafety, ClaimFollowsDispatch
    <3> QED
      BY <3>2, <3>3
  <2> QED
    BY <2>2, <2>3 DEF ClaimFollowsDispatch
<1> QED
  BY <1>2, <1>6, <1>7, <1>8, StatesMoveStep

LEMMA DispatchEndsStep ==
    ASSUME BrokerSafety, NEW r \in Runs, dispatchEnds(r)
    PROVE  BrokerSafety'
<1>1. /\ TypeOK /\ dispatches[r] = "OPEN" /\ dispatches' = [dispatches EXCEPT ![r] = "ENDED"]
      /\ Release(r) /\ calls' \subseteq calls
      /\ UNCHANGED <<now, month, entitled, account, commitments, candidates, runs>>
  BY DEF BrokerSafety, dispatchEnds, spendingVars
<1>2. /\ DOMAIN reservations' = DOMAIN reservations
      /\ \A id \in DOMAIN reservations : reservations'[id] =
           IF reservations[id].run = r /\ reservations[id].state = "CLAIMED"
             THEN [reservations[id] EXCEPT !.state = "RELEASED"] ELSE reservations[id]
  BY <1>1 DEF Release
<1>3. ASSUME NEW id \in DOMAIN reservations
      PROVE  /\ reservations'[id] \in Reservation
             /\ reservations'[id].run = reservations[id].run
             /\ reservations'[id].connection = reservations[id].connection
             /\ reservations'[id].testOnly = reservations[id].testOnly
             /\ reservations'[id].expiresAt = reservations[id].expiresAt
             /\ reservations'[id].claimedAt = reservations[id].claimedAt
             /\ reservations'[id].state =
                  IF reservations[id].run = r /\ reservations[id].state = "CLAIMED"
                    THEN "RELEASED" ELSE reservations[id].state
  <2>1. reservations[id] \in Reservation
    BY <1>1 DEF TypeOK
  <2>2. CASE reservations[id].run = r /\ reservations[id].state = "CLAIMED"
    <3>1. reservations'[id] = [reservations[id] EXCEPT !.state = "RELEASED"]
      BY <1>2, <2>2
    <3> QED
      BY <2>1, <2>2, <3>1 DEF Reservation
  <2>3. CASE ~(reservations[id].run = r /\ reservations[id].state = "CLAIMED")
    <3>1. reservations'[id] = reservations[id]
      BY <1>2, <2>3
    <3> QED
      BY <2>1, <2>3, <3>1
  <2> QED
    BY <2>2, <2>3
<1>4. StatesMove
  BY <1>1, <1>2, <1>3 DEF StatesMove, IsActive
<1>5. /\ dispatches' \in [Runs -> {"NONE", "OPEN", "ENDED"}]
      /\ dispatches'[r] = "ENDED" /\ \A q \in Runs : q # r => dispatches'[q] = dispatches[q]
  BY <1>1 DEF TypeOK
<1>6. ClaimFollowsDispatch'
  <2>1. ASSUME NEW q \in Runs, dispatches'[q] # "NONE"
        PROVE  \E id \in DOMAIN reservations' :
                 /\ reservations'[id].run = q
                 /\ reservations'[id].state = (IF dispatches'[q] = "OPEN" THEN "CLAIMED" ELSE "RELEASED")
    <3>1. dispatches[q] # "NONE"
      BY <1>1, <1>5, <2>1
    <3>2. PICK id \in DOMAIN reservations :
            /\ reservations[id].run = q
            /\ reservations[id].state = (IF dispatches[q] = "OPEN" THEN "CLAIMED" ELSE "RELEASED")
      BY <3>1 DEF BrokerSafety, ClaimFollowsDispatch
    <3>3. reservations'[id].run = q /\ reservations'[id].state = (IF dispatches'[q] = "OPEN" THEN "CLAIMED" ELSE "RELEASED")
      BY <1>1, <1>3, <1>5, <3>2
    <3> QED
      BY <1>2, <3>3
  <2>2. \A id \in DOMAIN reservations' :
          /\ reservations'[id].state = "CLAIMED" => dispatches'[reservations'[id].run] = "OPEN"
          /\ reservations'[id].claimedAt # None => reservations'[id].claimedAt < reservations'[id].expiresAt
    <3> SUFFICES ASSUME NEW id \in DOMAIN reservations
                 PROVE  /\ reservations'[id].state = "CLAIMED" => dispatches'[reservations'[id].run] = "OPEN"
                        /\ reservations'[id].claimedAt # None => reservations'[id].claimedAt < reservations'[id].expiresAt
      BY <1>2
    <3>1. reservations[id].run \in Runs
      BY <1>1 DEF TypeOK, Reservation
    <3>2. /\ reservations[id].state = "CLAIMED" => dispatches[reservations[id].run] = "OPEN"
          /\ reservations[id].claimedAt # None => reservations[id].claimedAt < reservations[id].expiresAt
      BY DEF BrokerSafety, ClaimFollowsDispatch
    <3> QED
      BY <1>3, <1>5, <3>1, <3>2
  <2> QED
    BY <2>1, <2>2 DEF ClaimFollowsDispatch
<1> QED
  BY <1>1, <1>4, <1>5, <1>6, StatesMoveStep

-----------------------------------------------------------------------------
(* Theorems *)

\* The invariant holds in every state of every workspace, whatever reservations,
\* dispatches, expiries, evidence and the account do between the two halves of a
\* transaction (reserveForPreparedRun, prepareDispatch).
THEOREM BrokerIsSafe == Spec => []BrokerSafety
<1>1. Init => BrokerSafety
  <2> SUFFICES ASSUME Init PROVE BrokerSafety
    OBVIOUS
  <2>1. /\ DOMAIN reservations = {} /\ DOMAIN commitments = {} /\ calls = {}
        /\ dispatches = [r \in Runs |-> "NONE"]
    BY DEF Init, SpendingInit, EmptyMap
  <2>2. TypeOK
    <3>1. now \in 0..MaxTime /\ month \in 0..MaxMonth /\ entitled \in BOOLEAN
      BY LimitAssumption DEF Init, SpendingInit
    <3>2. account \in Account
      BY DEF Init, SpendingInit, Account, AccountStates
    <3> QED
      BY <2>1, <3>1, <3>2 DEF TypeOK, SpendingTypeOK, Init
  <2>3. CallsAreSound
    BY <2>1 DEF CallsAreSound, RunsAreLocked, RoutableRunsStayFree, VerifiedReservationsStay
  <2>4. CapacityHolds
    <3>1. \A c : ActiveOn(c) = {}
      BY <2>1 DEF ActiveOn
    <3>2. 0 * EstimatedCost = 0
      BY CapacityAssumption
    <3> QED
      BY <3>1, <3>2, FS_EmptySet, CapacityAssumption DEF CapacityHolds
  <2>5. OneReservationPerRun /\ ClaimFollowsDispatch /\ FundsFollowReservation
    BY <2>1 DEF OneReservationPerRun, ClaimFollowsDispatch, FundsFollowReservation
  <2> QED
    BY <2>1, <2>2, <2>3, <2>4, <2>5, FS_EmptySet DEF BrokerSafety
<1>2. BrokerSafety /\ [Next]_vars => BrokerSafety'
  <2> SUFFICES ASSUME BrokerSafety, [Next]_vars PROVE BrokerSafety'
    OBVIOUS
  <2>1. CASE \E id \in Reservations, r \in Runs, c \in Connections : beginReservation(id, r, c)
    BY <2>1, BeginReservationStep
  <2>2. CASE \E call \in calls : reserveForPreparedRun(call)
    BY <2>2, ReserveStep
  <2>3. CASE \E call \in calls : prepareDispatch(call)
    BY <2>3, PrepareDispatchStep
  <2>4. CASE \E id \in Reservations : beginDispatch(id)
    BY <2>4, BeginDispatchStep
  <2>5. CASE \E r \in Runs : dispatchEnds(r)
    BY <2>5, DispatchEndsStep
  <2>6. CASE AccountNext /\ UNCHANGED <<candidates, runs, reservations, dispatches, calls>>
    BY <2>6, AccountStep
  <2>7. CASE \/ \E call \in calls : callFails(call)
             \/ \E r \in Runs, status \in {"RUNNING", "ENDED"} : runChanges(r, status)
             \/ \E snapshot \in Snapshots : candidatesChange(snapshot)
             \/ UNCHANGED vars
    BY <2>7, QuietStep
  <2> QED
    BY <2>1, <2>2, <2>3, <2>4, <2>5, <2>6, <2>7 DEF Next
<1> QED
  BY <1>1, <1>2, PTL DEF Spec

\* The tables of reservations, dispatches and the account, and the transactions
\* in progress, keep their types.
THEOREM BrokerTypes == Spec => []TypeOK
<1>1. BrokerSafety => TypeOK
  BY DEF BrokerSafety
<1> QED
  BY <1>1, BrokerIsSafe, PTL

\* However many reservations race, none holds a slot or budget that a connection
\* does not have, a run has one reservation at a time, and its claim follows its
\* dispatch (reserveForPreparedRun, prepareDispatch and the triggers).
THEOREM ReservationsStayExclusive == Spec => []ReservationsAreExclusive
<1>1. BrokerSafety => ReservationsAreExclusive
  BY DEF BrokerSafety, ReservationsAreExclusive
<1> QED
  BY <1>1, BrokerIsSafe, PTL

\* A paid reservation always has the commitment of its task's whole ceiling under
\* its own id, objective and expiry, and there is no other commitment
\* (ReserveFunds).
THEOREM MoneyFollowsRoute == Spec => []FundsFollowReservation
<1>1. BrokerSafety => FundsFollowReservation
  BY DEF BrokerSafety
<1> QED
  BY <1>1, BrokerIsSafe, PTL
=============================================================================
