-------------------------- MODULE BrokerReservation --------------------------
(***************************************************************************)
(* AcpBrokerReservationService over acp_broker_reservations with the       *)
(* triggers that claim a reservation when its dispatch is inserted and     *)
(* release it when the dispatch ends, on top of the business spending      *)
(* account that a paid reservation draws on.                               *)
(*                                                                         *)
(* reserveForPreparedRun locks its run, reads the candidates, routes, and  *)
(* only then waits for the connection it chose; prepareDispatch verifies   *)
(* the reservation on another database connection before it inserts its    *)
(* row.  Both are two actions, and hold the lock of the run in between.    *)
(* What RuntimeBroker.route chooses among the eligible candidates is the   *)
(* subject of RuntimeBroker; here it may choose any of them.               *)
(***************************************************************************)
EXTENDS BusinessSpending

CONSTANTS
    Reservations,      \* ids, which are also the ids of their commitments
    Runs,
    Connections,
    GroupOf,           \* the objective of a run, which groups its purchases
    Snapshots,         \* candidate evidence: [eligible, testOnly]
    Slots,             \* maxConcurrentRuns - activeRuns of a connection
    RuntimeBudget,     \* remainingBudgetMinorUnits of a connection
    RuntimeCompute,    \* remainingComputeUnits of a connection
    EstimatedCost,     \* what a run is estimated to cost
    ComputeUnits,      \* requiredComputeUnits of a run
    CurrencyOf,        \* the currency of a run's task
    TaskMaximum,       \* maximumCostMinorUnits of a task
    ReservationTTL     \* BROKER_RESERVATION_TTL_MS

ASSUME CapacityAssumption ==
    /\ Slots \in [Connections -> Nat] /\ RuntimeBudget \in [Connections -> Nat]
    /\ RuntimeCompute \in [Connections -> Nat]
    /\ {EstimatedCost, ComputeUnits, TaskMaximum, ReservationTTL} \subseteq Nat
ASSUME ObjectiveAssumption == GroupOf \in [Runs -> Groups] /\ Reservations = Commitments
ASSUME EvidenceAssumption == Snapshots \subseteq [eligible : SUBSET Connections, testOnly : BOOLEAN]

Reservation == [run : Runs, connection : Connections, testOnly : BOOLEAN, expiresAt : Nat,
                state : {"RESERVED", "CLAIMED", "RELEASED", "EXPIRED"}, claimedAt : Nat \cup {None}]
Call == [kind : {"reserve", "dispatch"}, id : Reservations, run : Runs,
         connection : Connections, snapshot : Snapshots]

VARIABLES
    candidates,     \* what TrustedBrokerCandidateReader.read answers
    runs,           \* status of a run and of its task
    reservations,   \* acp_broker_reservations by id
    dispatches,     \* acp_bridge_dispatches: the state of the dispatch of a run
    calls           \* transactions that hold the lock of their run

vars == <<spendingVars, candidates, runs, reservations, dispatches, calls>>

Locked(r) == \E call \in calls : call.run = r
IsDue(id) == reservations[id].state = "RESERVED" /\ reservations[id].expiresAt <= now
IsActive(id) ==
    \/ reservations[id].state = "CLAIMED"
    \/ reservations[id].state = "RESERVED" /\ now < reservations[id].expiresAt
ActiveOn(c) == {id \in DOMAIN reservations : reservations[id].connection = c /\ IsActive(id)}

-----------------------------------------------------------------------------
(* reserveForPreparedRun *)

RunIsRoutable(r) ==
    /\ runs[r] = "PREPARED"
    /\ ~ \E id \in DOMAIN reservations : reservations[id].run = r /\ IsActive(id)

\* Up to the lock of the selected connection.
beginReservation(id, r, c) ==
    /\ ~Locked(r)
    /\ id \notin DOMAIN reservations
    /\ RunIsRoutable(r)
    /\ c \in candidates.eligible
    /\ calls' = calls \cup {[kind |-> "reserve", id |-> id, run |-> r, connection |-> c,
                             snapshot |-> candidates]}
    /\ UNCHANGED <<spendingVars, candidates, runs, reservations, dispatches>>

\* mutant: the holds of other reservations are not counted.
HasCapacityIgnoringHolds(c) ==
    Slots[c] > 0 /\ EstimatedCost <= RuntimeBudget[c] /\ ComputeUnits <= RuntimeCompute[c]

HasCapacity(c) ==
    LET active == ActiveOn(c)
    IN /\ Cardinality(active) < Slots[c]
       /\ Cardinality(active) * EstimatedCost + EstimatedCost <= RuntimeBudget[c]
       /\ Cardinality(active) * ComputeUnits + ComputeUnits <= RuntimeCompute[c]

\* Reservations of the run and of the connection that are due expire first.
AddReservation(call) ==
    LET Expire(id) == IF IsDue(id) /\ (reservations[id].run = call.run
                                         \/ reservations[id].connection = call.connection)
                        THEN [reservations[id] EXCEPT !.state = "EXPIRED"] ELSE reservations[id]
    IN reservations' = Put([id \in DOMAIN reservations |-> Expire(id)], call.id,
        [run |-> call.run, connection |-> call.connection, testOnly |-> call.snapshot.testOnly,
         expiresAt |-> now + ReservationTTL, state |-> "RESERVED", claimedAt |-> None])

\* A paid reservation commits the whole ceiling of the task, in the same transaction.
ReserveFunds(call) ==
    IF call.snapshot.testOnly THEN UNCHANGED spendingVars
    ELSE /\ assertBusinessExecutionInTransaction
         /\ CurrencyOf[call.run] = "EUR"
         /\ IF TaskMaximum > 0
              THEN reserveBusinessExpenseInTransaction(call.id, GroupOf[call.run], TaskMaximum,
                                                       now + ReservationTTL)
              ELSE UNCHANGED spendingVars

\* From the lock of the connection on; the evidence is read again.
reserveForPreparedRun(call) ==
    /\ call \in calls /\ call.kind = "reserve"
    /\ candidates = call.snapshot
    /\ HasCapacity(call.connection)
    /\ call.id \notin DOMAIN reservations
    /\ ReserveFunds(call)
    /\ AddReservation(call)
    /\ calls' = calls \ {call}
    /\ UNCHANGED <<candidates, runs, dispatches>>

\* The evidence changed, a limit is reached, a row was inserted or changed
\* meanwhile, or the transaction is given up: it leaves nothing behind.
callFails(call) ==
    /\ call \in calls
    /\ calls' = calls \ {call}
    /\ UNCHANGED <<spendingVars, candidates, runs, reservations, dispatches>>

-----------------------------------------------------------------------------
(* Dispatches, as prepareDispatch and applyMessage write them *)

verify(id) ==
    /\ id \in DOMAIN reservations
    /\ ~reservations[id].testOnly => isBusinessReservationExecutable(id, EstimatedCost > 0)
    /\ IsActive(id)

beginDispatch(id) ==
    /\ verify(id)
    /\ LET r == reservations[id].run
       IN /\ ~Locked(r)
          /\ runs[r] = "PREPARED" /\ dispatches[r] = "NONE"
          /\ calls' = calls \cup {[kind |-> "dispatch", id |-> id, run |-> r,
                                   connection |-> reservations[id].connection,
                                   snapshot |-> candidates]}
    /\ UNCHANGED <<spendingVars, candidates, runs, reservations, dispatches>>

\* ventureos_claim_broker_reservation, with the database clock of the insertion.
MayClaim(id) == reservations[id].state = "RESERVED" /\ now < reservations[id].expiresAt

prepareDispatch(call) ==
    /\ call \in calls /\ call.kind = "dispatch"
    /\ MayClaim(call.id)
    /\ dispatches' = [dispatches EXCEPT ![call.run] = "OPEN"]
    /\ reservations' = [reservations EXCEPT ![call.id].state = "CLAIMED", ![call.id].claimedAt = now]
    /\ calls' = calls \ {call}
    /\ UNCHANGED <<spendingVars, candidates, runs>>

\* ventureos_release_broker_reservation
Release(r) == reservations' = [id \in DOMAIN reservations |->
    IF reservations[id].run = r /\ reservations[id].state = "CLAIMED"
      THEN [reservations[id] EXCEPT !.state = "RELEASED"] ELSE reservations[id]]

\* A RESULT, FAILED or CANCELLED frame, which needs the run RUNNING.
dispatchEnds(r) ==
    /\ ~Locked(r)
    /\ runs[r] = "RUNNING" /\ dispatches[r] = "OPEN"
    /\ dispatches' = [dispatches EXCEPT ![r] = "ENDED"]
    /\ Release(r)
    /\ UNCHANGED <<spendingVars, candidates, runs, calls>>

runChanges(r, status) ==
    /\ ~Locked(r)
    /\ \/ runs[r] = "PREPARED" /\ status = "RUNNING" /\ dispatches[r] = "OPEN"
       \/ runs[r] \in {"PREPARED", "RUNNING"} /\ status = "ENDED"
    /\ runs' = [runs EXCEPT ![r] = status]
    /\ UNCHANGED <<spendingVars, candidates, reservations, dispatches, calls>>

candidatesChange(snapshot) ==
    /\ candidates # snapshot
    /\ candidates' = snapshot
    /\ UNCHANGED <<spendingVars, runs, reservations, dispatches, calls>>

Init ==
    /\ SpendingInit
    /\ candidates \in Snapshots
    /\ runs = [r \in Runs |-> "PREPARED"]
    /\ dispatches = [r \in Runs |-> "NONE"]
    /\ reservations = EmptyMap
    /\ calls = {}

Next ==
    \/ \E id \in Reservations, r \in Runs, c \in Connections : beginReservation(id, r, c)
    \/ \E call \in calls : reserveForPreparedRun(call) \/ prepareDispatch(call) \/ callFails(call)
    \/ \E id \in Reservations : beginDispatch(id)
    \/ \E r \in Runs : dispatchEnds(r)
    \/ \E r \in Runs, status \in {"RUNNING", "ENDED"} : runChanges(r, status)
    \/ \E snapshot \in Snapshots : candidatesChange(snapshot)
    \/ AccountNext /\ UNCHANGED <<candidates, runs, reservations, dispatches, calls>>

Spec == Init /\ [][Next]_vars

-----------------------------------------------------------------------------
(* Properties *)

TypeOK ==
    /\ SpendingTypeOK
    /\ candidates \in Snapshots
    /\ runs \in [Runs -> {"PREPARED", "RUNNING", "ENDED"}]
    /\ dispatches \in [Runs -> {"NONE", "OPEN", "ENDED"}]
    /\ DOMAIN reservations \subseteq Reservations
    /\ \A id \in DOMAIN reservations : reservations[id] \in Reservation
    /\ calls \subseteq Call

\* Racing reservations of different runs never hold more slots, budget or
\* compute units of a connection than it has left (the lock of the connection, and the
\* count of active holds under it).
CapacityHolds == \A c \in Connections :
    /\ Cardinality(ActiveOn(c)) <= Slots[c]
    /\ Cardinality(ActiveOn(c)) * EstimatedCost <= RuntimeBudget[c]
    /\ Cardinality(ActiveOn(c)) * ComputeUnits <= RuntimeCompute[c]

\* A run is bound by one reservation at a time, claimed or waiting, so that the
\* unique index on active reservations of a run never has to refuse an insert.
OneReservationPerRun == \A id, other \in DOMAIN reservations :
    (/\ reservations[id].run = reservations[other].run
     /\ {reservations[id].state, reservations[other].state} \subseteq {"RESERVED", "CLAIMED"})
    => id = other

\* The state of a reservation tells that of its run's dispatch: claimed while
\* it is open, released when it has ended, and claimed only before its expiry
\* although verify and the insertion happen at different times.
ClaimFollowsDispatch ==
    /\ \A r \in Runs : dispatches[r] # "NONE" =>
         \E id \in DOMAIN reservations :
           /\ reservations[id].run = r
           /\ reservations[id].state = (IF dispatches[r] = "OPEN" THEN "CLAIMED" ELSE "RELEASED")
    /\ \A id \in DOMAIN reservations :
         /\ reservations[id].state = "CLAIMED" => dispatches[reservations[id].run] = "OPEN"
         /\ reservations[id].claimedAt # None => reservations[id].claimedAt < reservations[id].expiresAt

\* Money and route are reserved together or not at all: a paid reservation has a
\* commitment of its task's whole ceiling, in euros, under its own id and
\* objective, and every commitment belongs to a reservation.
FundsFollowReservation ==
    /\ DOMAIN commitments =
         {id \in DOMAIN reservations : ~reservations[id].testOnly /\ TaskMaximum > 0}
    /\ \A id \in DOMAIN commitments :
         /\ commitments[id].group = GroupOf[reservations[id].run]
         /\ commitments[id].reserved = TaskMaximum /\ CurrencyOf[reservations[id].run] = "EUR"
         /\ commitments[id].validUntil = reservations[id].expiresAt

\* Racing reservations never hold more slots, budget or compute of a connection
\* than it has, a run is bound by one reservation at a time, and its claim follows its
\* dispatch although both are verified long before they are stored
\* (reserveForPreparedRun, prepareDispatch).
ReservationsAreExclusive == CapacityHolds /\ OneReservationPerRun /\ ClaimFollowsDispatch
=============================================================================
