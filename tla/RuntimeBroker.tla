---------------------------- MODULE RuntimeBroker ----------------------------
(***************************************************************************)
(* RuntimeBroker: the evidence about candidate runtimes of a workspace and *)
(* the routing of a request to one of them, with the integer arithmetic of *)
(* its scores in basis points.  Strings and the shapes of objects are left *)
(* out of the validation; the ranges of the numbers and the correlation of *)
(* the proofs are kept.                                                    *)
(***************************************************************************)
EXTENDS Integers, Sequences, SequencesExt

CONSTANTS
    Pool,        \* candidate evidence that is offered for the workspace
    Requests,    \* valid routing requests
    Weights,     \* basis points of each factor; they sum to 10,000
    ClockSkew,   \* how far in the future a heartbeat may lie
    MaxTime,
    None

WeightAssumption == Weights.quality + Weights.reliability + Weights.security
                             + Weights.latency + Weights.cost + Weights.workload = 10000

VARIABLES
    now,          \* the broker's clock
    candidates,   \* #candidates, in the order of their insertion
    decision      \* what route answers on this evidence, once it is asked

vars == <<now, candidates, decision>>

\* validateCandidate
InRange(c) ==
    /\ c.securityTier \in 0..3
    /\ {c.reliability, c.quality} \subseteq 0..10000
    /\ {c.latency, c.cost, c.activeRuns, c.remainingBudget, c.remainingCompute} \subseteq Nat
    /\ c.maxConcurrentRuns \in Nat \ {0}

\* #validatedEvidence: every proof is verified and names this runtime, its
\* principal and its connection.
ValidatedEvidence(c) == InRange(c) /\ c.correlated

\* validateRequest
ValidRequest(q) ==
    /\ q.minimumSecurityTier \in 0..3
    /\ q.minimumReliability \in 0..10000
    /\ {q.maximumLatency, q.heartbeatFreshness} \subseteq Nat \ {0}
    /\ {q.maximumCost, q.computeUnits} \subseteq Nat

Identity(c) == <<c.runtimeId, c.connectionId>>
Known == {Identity(candidates[i]) : i \in 1..Len(candidates)}

-----------------------------------------------------------------------------
(* #evaluateCandidate *)

Rank(sensitivity) == CASE sensitivity = "PUBLIC" -> 0 [] sensitivity = "INTERNAL" -> 1
                       [] sensitivity = "CONFIDENTIAL" -> 2 [] sensitivity = "RESTRICTED" -> 3

\* Each reason for a rejection, with the condition under which it is given.
Checks(q, c) ==
    [NOT_CONNECTED |-> c.connectionStatus # "CONNECTED",
     STALE_HEARTBEAT |-> c.heartbeatAt > now + ClockSkew \/ now - c.heartbeatAt > q.heartbeatFreshness,
     MISSING_CAPABILITY |-> ~(q.capabilityIds \subseteq c.capabilityIds),
     MISSING_TOOL_SCOPE |-> ~(q.tools \subseteq c.toolGrants),
     DATA_SENSITIVITY_DENIED |-> Rank(c.maximumDataSensitivity) < Rank(q.dataSensitivity),
     SECURITY_TIER_TOO_LOW |-> c.securityTier < q.minimumSecurityTier,
     RELIABILITY_TOO_LOW |-> c.reliability < q.minimumReliability,
     LATENCY_TOO_HIGH |-> c.latency > q.maximumLatency,
     TASK_COST_LIMIT_EXCEEDED |-> c.cost > q.maximumCost,
     RUNTIME_BUDGET_EXHAUSTED |-> c.cost > c.remainingBudget,
     COMPUTE_BUDGET_EXHAUSTED |-> q.computeUnits > c.remainingCompute,
     RUNTIME_AT_CAPACITY |-> c.activeRuns >= c.maxConcurrentRuns]

Reasons(q, c) == {reason \in DOMAIN Checks(q, c) : Checks(q, c)[reason]}
IsEligible(q, c) == Reasons(q, c) = {}

ratioScore(used, maximum) ==
    LET rest == 10000 - (used * 10000) \div maximum
    IN IF maximum <= 0 THEN 0 ELSE IF rest > 0 THEN rest ELSE 0

CostCeiling(q, c) == IF q.maximumCost < c.remainingBudget THEN q.maximumCost ELSE c.remainingBudget

CostFactor(q, c) ==
    IF CostCeiling(q, c) = 0 THEN (IF c.cost = 0 THEN 10000 ELSE 0)
    ELSE ratioScore(c.cost, CostCeiling(q, c))

Score(q, c) ==
    (c.quality * Weights.quality + c.reliability * Weights.reliability
       + (((c.securityTier + 1) * 10000) \div 4) * Weights.security
       + ratioScore(c.latency, q.maximumLatency) * Weights.latency
       + CostFactor(q, c) * Weights.cost
       + ratioScore(c.activeRuns, c.maxConcurrentRuns) * Weights.workload) \div 10000

\* mutant: equal scores keep the order of insertion.
ComesBeforeByScore(q, a, b) == Score(q, a) > Score(q, b)

\* SCORE_DESC_RUNTIME_ID_ASC_CONNECTION_ID_ASC
ComesBefore(q, a, b) ==
    \/ Score(q, a) > Score(q, b)
    \/ Score(q, a) = Score(q, b) /\ a.runtimeId < b.runtimeId
    \/ Score(q, a) = Score(q, b) /\ a.runtimeId = b.runtimeId /\ a.connectionId < b.connectionId

Eligible(q, cs) == SelectSeq(cs, LAMBDA c : IsEligible(q, c))

\* route: the first of the eligible candidates once they are sorted.  A stable
\* sort puts first the element that no other, and no earlier equal one, precedes.
Select(q, cs) ==
    LET eligible == Eligible(q, cs)
        first == {i \in 1..Len(eligible) : \A j \in 1..Len(eligible) :
                    ~ComesBefore(q, eligible[j], eligible[i]) /\
                    (j < i => ComesBefore(q, eligible[i], eligible[j]))}
    IN IF eligible = << >> THEN None ELSE eligible[CHOOSE i \in first : TRUE]

-----------------------------------------------------------------------------
(* Operations *)

putCandidateEvidence(c) ==
    /\ ValidatedEvidence(c)
    /\ Identity(c) \notin Known
    /\ candidates' = Append(candidates, c)
    /\ decision' = None
    /\ UNCHANGED now

replaceCandidateEvidence(c) ==
    /\ ValidatedEvidence(c)
    /\ Identity(c) \in Known
    /\ candidates' = [i \in 1..Len(candidates) |->
                        IF Identity(candidates[i]) = Identity(c) THEN c ELSE candidates[i]]
    /\ decision' = None
    /\ UNCHANGED now

route(q) ==
    /\ ValidRequest(q)
    /\ decision' = [request |-> q, selected |-> Select(q, candidates)]
    /\ UNCHANGED <<now, candidates>>

timePasses ==
    /\ now < MaxTime
    /\ now' = now + 1
    /\ decision' = None
    /\ UNCHANGED candidates

Init == now = 0 /\ candidates = << >> /\ decision = None

Next ==
    \/ \E c \in Pool : putCandidateEvidence(c) \/ replaceCandidateEvidence(c)
    \/ \E q \in Requests : route(q)
    \/ timePasses

Spec == Init /\ [][Next]_vars

-----------------------------------------------------------------------------
(* Properties *)

\* One entry per runtime and connection, whatever is put and replaced
\* (#candidates is keyed by the identity of the evidence).
OneEntryPerCandidate == \A i, j \in 1..Len(candidates) :
    Identity(candidates[i]) = Identity(candidates[j]) => i = j

\* The reference for the choice (route): an eligible candidate of the best
\* score; among equals the one of the least runtime and connection ids, so that
\* the order in which evidence arrived plays no part; none only if none is eligible.
BestOf(q, S) ==
    LET eligible == {c \in S : IsEligible(q, c)}
        top == {c \in eligible : \A d \in eligible : Score(q, d) <= Score(q, c)}
    IN {c \in top : \A d \in top : d.runtimeId > c.runtimeId \/
          (d.runtimeId = c.runtimeId /\ d.connectionId >= c.connectionId)}

RouteIsBest == decision # None =>
    LET best == BestOf(decision.request, ToSet(candidates))
    IN decision.selected = IF best = {} THEN None ELSE CHOOSE c \in best : TRUE

\* Rounding never turns a better runtime into a worse one: a candidate that is at
\* least as good as another in quality, reliability, tier, latency, cost, load
\* and remaining budget never scores less (#evaluateCandidate, ratioScore).
AsGoodAs(a, b) ==
    /\ a.quality >= b.quality /\ a.reliability >= b.reliability /\ a.securityTier >= b.securityTier
    /\ a.latency <= b.latency /\ a.cost <= b.cost /\ a.remainingBudget >= b.remainingBudget
    /\ a.activeRuns <= b.activeRuns /\ a.maxConcurrentRuns >= b.maxConcurrentRuns

ScoreIsMonotone == decision # None =>
    \A a, b \in ToSet(candidates) :
      LET q == decision.request
      IN /\ Score(q, a) \in 0..10000
         /\ (IsEligible(q, a) /\ IsEligible(q, b) /\ AsGoodAs(a, b)) => Score(q, a) >= Score(q, b)
=============================================================================
