------------------------------ MODULE MCBroker ------------------------------
(***************************************************************************)
(* The choice of a runtime and its reservation, side by side: the initial  *)
(* state chooses a part, and only that part takes steps.  "reservation" is *)
(* BrokerReservation, in which two runs compete for the slots of one       *)
(* connection and the funds of one account; "account" is BusinessSpending  *)
(* alone, at its limits; "route" is RuntimeBroker with candidates that     *)
(* differ in one or two respects from a common one, at the edges of the    *)
(* request's limits; "ledger" is CostLedger, in which four usage messages  *)
(* of three runs are charged to two budget periods; "revenue" is           *)
(* RevenueRun, in which two runs of one venture claim four facts and their *)
(* costs are reconciled.                                                   *)
(***************************************************************************)
EXTENDS BrokerReservation, TLC

CONSTANTS r1, r2, g1, g2, c1

VARIABLES part, evidence, decision, ledger, recorders,
          facts, revenueRuns, links, reconciliations, unaudited, tampers

revenueVars == <<facts, revenueRuns, links, reconciliations, unaudited, tampers>>
all == <<part, vars, evidence, decision, ledger, recorders, revenueVars>>
reservationVars == <<month, entitled, account, commitments, candidates, runs, reservations, dispatches>>
otherVars == <<evidence, decision, ledger, recorders>>

MCGroupOf == [r \in Runs |-> IF r = r1 THEN g1 ELSE g2]
MCSlots == [c \in Connections |-> 1]
MCCurrencyOf == [r \in Runs |-> "EUR"]
MCSnapshots == {[eligible |-> Connections, testOnly |-> FALSE], [eligible |-> {c1}, testOnly |-> TRUE]}

MCWeights == [quality |-> 2500, reliability |-> 2500, security |-> 2000,
              latency |-> 1000, cost |-> 1000, workload |-> 1000]

Base == [runtimeId |-> 1, connectionId |-> 1, connectionStatus |-> "CONNECTED", heartbeatAt |-> 0,
         capabilityIds |-> {"plan"}, toolGrants |-> {"read"}, maximumDataSensitivity |-> "INTERNAL",
         securityTier |-> 1, reliability |-> 9000, quality |-> 7777, latency |-> 3, cost |-> 1,
         activeRuns |-> 1, maxConcurrentRuns |-> 3, remainingBudget |-> 2, remainingCompute |-> 1,
         correlated |-> TRUE]

Variants ==
    {Base, [Base EXCEPT !.cost = 0, !.remainingBudget = 0], [Base EXCEPT !.cost = 2],
     [Base EXCEPT !.latency = 2], [Base EXCEPT !.activeRuns = 3], [Base EXCEPT !.activeRuns = 2],
     [Base EXCEPT !.quality = 7778, !.remainingBudget = 1], [Base EXCEPT !.securityTier = 3, !.latency = 7],
     [Base EXCEPT !.connectionStatus = "DEGRADED"], [Base EXCEPT !.reliability = 8999],
     [Base EXCEPT !.quality = 20000, !.reliability = 10000, !.securityTier = 3, !.latency = 0, !.cost = 0,
                  !.activeRuns = 0],
     [Base EXCEPT !.quality = 10000, !.correlated = FALSE], [Base EXCEPT !.capabilityIds = {}],
     [Base EXCEPT !.maximumDataSensitivity = "PUBLIC"]}

\* Connection 2 of runtime 1 takes few of the variants, to keep the pool small.
MCPool == {[v EXCEPT !.runtimeId = r] : v \in Variants, r \in {1, 2}}
            \cup {[v EXCEPT !.connectionId = 2] : v \in {Base, [Base EXCEPT !.latency = 2],
                                                       [Base EXCEPT !.connectionStatus = "DEGRADED"]}}

Request == [capabilityIds |-> {"plan"}, tools |-> {"read"}, dataSensitivity |-> "INTERNAL",
            minimumSecurityTier |-> 1, minimumReliability |-> 9000, maximumLatency |-> 7,
            maximumCost |-> 2, computeUnits |-> 1, heartbeatFreshness |-> 1]

MCRequests == {Request, [Request EXCEPT !.maximumCost = 0, !.heartbeatFreshness = 2],
               [Request EXCEPT !.minimumReliability = 0, !.maximumLatency = 3],
               [Request EXCEPT !.maximumLatency = 0]}

Route == INSTANCE RuntimeBroker
    WITH candidates <- evidence, Pool <- MCPool, Requests <- MCRequests, Weights <- MCWeights,
         ClockSkew <- 0

ASSUME Route!WeightAssumption

\* Two periods; task t1, which two runs spend for, is given less for its life
\* than its two periods allow together. Task t2 has no sound policy in the
\* second period: its version is another, and the period longer.
Budget(id, scope, task, limit, from, until, version, intact) ==
    [id |-> id, scope |-> scope, task |-> task, currency |-> "USD", limit |-> limit, from |-> from, until |-> until,
     version |-> version, intact |-> intact]
Charge(run, task, cost, compute) == [run |-> run, task |-> task, currency |-> "USD", cost |-> cost, compute |-> compute]

Ledger == INSTANCE CostLedger
    WITH Usages <- 1..4,
         Message <- <<Charge("r1", "t1", 2, 1), Charge("r2", "t1", 1, 2), Charge("r2", "t1", 2, 1), Charge("r3", "t2", 2, 1)>>,
         Task <- [t \in {"t1", "t2"} |-> [cost |-> IF t = "t1" THEN 4 ELSE 3, compute |-> 3, currency |-> "USD", version |-> "v1"]],
         Policies <- {Budget("w1", "WORKSPACE", None, 4, 0, 1, "v1", TRUE), Budget("w2", "WORKSPACE", None, 3, 1, 3, "v1", TRUE),
                      Budget("t1", "TASK", "t1", 3, 0, 1, "v1", TRUE), Budget("t2", "TASK", "t1", 3, 1, 3, "v1", TRUE),
                      Budget("u1", "TASK", "t2", 3, 0, 1, "v1", TRUE), Budget("u2", "TASK", "t2", 3, 1, 4, "v2", FALSE)},
         Actors <- {[level |-> 3, kind |-> "HUMAN"], [level |-> 3, kind |-> "RUNTIME"], [level |-> 2, kind |-> "HUMAN"]},
         MaxSafe <- 10, Horizon <- 1

ASSUME Ledger!PoliciesAssumption

\* Two runs of one venture and one ACP run, in euros and in dollars, and a plan
\* whose approval is no longer current.
RevenuePlan(run, currency, approval) ==
    [venture |-> "v", approval |-> approval, experiment |-> None, task |-> IF run = None THEN None ELSE "t", run |-> run, currency |-> currency]
Fact(kind, scope, gross, fees) == [kind |-> kind, venture |-> scope, currency |-> "EUR", gross |-> gross, fees |-> fees]

Revenue == INSTANCE RevenueRun
    WITH Plans <- {RevenuePlan("a", "EUR", None), RevenuePlan(None, "EUR", "stale"), RevenuePlan("a", "USD", "current")},
         Known <- [ventures |-> {"v"}, approvals |-> {"current"}, experiments |-> {}, tasks |-> {"t"}, runs |-> {<<"a", "t">>}],
         FactIds <- {"sale", "cost", "more", "use"},
         Offers <- [sale |-> Fact("REVENUE_ENTRY", "v", 5, 1), cost |-> Fact("EXPENSE", "v", 2, 0), more |-> Fact("EXPENSE", "v", 1, 0), use |-> Fact("USAGE", "a", 2, 0)],
         Actors <- {"founder"}, Keys <- {"k1", "k2"}, Overlaps <- {-1, 1, 3},
         Assertions <- {[kind |-> "PAYMENT_SETTLEMENT", artifact |-> "x", observed |-> "past"],
                        [kind |-> "PAYMENT_SETTLEMENT", artifact |-> "x", observed |-> "future"]},
         MaxAuditFailures <- 1, MaxTampers <- 1

\* Three purchases of two obligations in two months: two of one obligation pass
\* the single limit, two in a month the monthly limit, two in all the balance,
\* and a provider may charge more than was reserved.
Spending == INSTANCE BusinessSpending
    WITH Commitments <- Reservations \cup {"third"}, Cents <- {1, 3}, Fundings <- {5}, SingleLimit <- 3, MonthlyLimit <- 4,
         MaxTime <- 1, MaxMonth <- 1

ASSUME Spending!CentsAssumption /\ Spending!LimitAssumption

NoReservation ==
    /\ reservations = EmptyMap /\ dispatches = [r \in Runs |-> "NONE"]
    /\ month = None /\ account = None /\ commitments = None /\ candidates = None /\ runs = None

NoRevenue ==
    /\ facts = None /\ revenueRuns = None /\ links = None
    /\ reconciliations = None /\ unaudited = None /\ tampers = None

BothInit ==
    \/ /\ part = "reservation" /\ Init /\ NoRevenue
       /\ evidence = None /\ decision = None /\ ledger = None /\ recorders = None
    \/ /\ part = "account" /\ Spending!SpendingInit /\ NoRevenue
       /\ reservations = EmptyMap /\ dispatches = [r \in Runs |-> "NONE"] /\ candidates = None /\ runs = None
       /\ calls = None /\ evidence = None /\ decision = None /\ ledger = None /\ recorders = None
    \/ /\ part = "route" /\ Route!Init /\ NoRevenue
       /\ NoReservation /\ entitled = None /\ calls = None /\ ledger = None /\ recorders = None
    \/ /\ part = "ledger" /\ Ledger!Init /\ NoRevenue
       /\ NoReservation /\ entitled = None /\ calls = None /\ evidence = None /\ decision = None
    \/ /\ part = "revenue" /\ Revenue!Init
       /\ NoReservation /\ now = None /\ calls = None /\ decision = None /\ ledger = None /\ recorders = None

BothNext ==
    \/ part = "reservation" /\ Next /\ UNCHANGED <<part, otherVars, revenueVars>>
    \/ /\ part = "account" /\ Spending!SpendingNext
       /\ UNCHANGED <<part, candidates, runs, reservations, dispatches, calls, otherVars, revenueVars>>
    \/ part = "route" /\ Route!Next /\ UNCHANGED <<part, reservationVars, calls, ledger, recorders, revenueVars>>
    \/ part = "ledger" /\ Ledger!Next /\ UNCHANGED <<part, reservationVars, calls, evidence, decision, revenueVars>>
    \/ /\ part = "revenue" /\ Revenue!Next
       /\ UNCHANGED <<part, now, month, account, commitments, candidates, runs, reservations, dispatches, calls, decision, ledger, recorders>>

BothSpec == BothInit /\ [][BothNext]_all

\* Money and route are reserved together or not at all, and what is promised and
\* paid stays within the commitment limit and the monthly limit (ReserveFunds,
\* assertBusinessSpend).
FundsAreReserved ==
    /\ part = "reservation" => TypeOK /\ FundsFollowReservation /\ LimitsHold
    /\ part = "account" => Spending!SpendingTypeOK /\ Spending!LimitsHold

\* The choice is the best eligible candidate whatever the order of the evidence,
\* and rounding never turns a better runtime into a worse one (route).
RouteIsBest == part = "route" =>
    Route!OneEntryPerCandidate /\ Route!RouteIsBest /\ Route!ScoreIsMonotone

\* No interleaving of usage transactions exceeds the workspace's or the task's
\* budget of a period, or what the task was given for its life over all periods,
\* and the totals of every entry are the exact sums of the entries committed up to
\* it (AcpCostGovernanceService.recordUsage).
\* And a profit is computed only from evidence that is counted once, unchanged,
\* and reconciled as it stands (getRevenueRunOutcomeEvidence).
SpendingIsGoverned ==
    /\ part = "ledger" => Ledger!TypeOK /\ Ledger!BudgetsHold /\ Ledger!LedgerIsExact
    /\ part = "revenue" => Revenue!TypeOK /\ Revenue!EvidenceIsCountedOnce /\ Revenue!ProfitIsReconciled /\ Revenue!UnauditedWasCommitted

Symmetry == Permutations(Reservations)
=============================================================================
