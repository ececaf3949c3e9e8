---------------------------- MODULE CriticalPath ----------------------------
(***************************************************************************)
(* The critical path of an objective, criticalPath of                      *)
(* packages/agent-control-plane/src/ai-coo.ts: the tasks are put in order  *)
(* by counting down their dependencies, and the longest path to each is    *)
(* built from the longest paths to its dependencies.  One step is one turn *)
(* of a loop.  Tasks are numbered in the order of their identifiers; a     *)
(* task's dependencies have no duplicates and are tasks of the objective.  *)
(***************************************************************************)
EXTENDS Integers, Sequences, FiniteSets, SequencesExt

CONSTANTS
    N, Durations,      \* the number of tasks, and what they may last
    MaxSafeInteger     \* the last duration that is a safe integer

NAssumption == N \in Nat \ {0} /\ Durations \subseteq Nat \ {0} /\ MaxSafeInteger \in Nat

VARIABLES deps, duration, indegree, ready, ordered, best, answer, result

vars == <<deps, duration, indegree, ready, ordered, best, answer, result>>

Tasks == 1 .. N

NoPath == [duration |-> 0, path |-> <<>>]

Least(S) == CHOOSE x \in S : \A y \in S : x <= y

Init ==
    /\ deps \in [Tasks -> SUBSET Tasks] /\ \A t \in Tasks : t \notin deps[t]
    /\ duration \in [Tasks -> Durations]
    /\ indegree = [t \in Tasks |-> Cardinality(deps[t])]
    /\ ready = {t \in Tasks : deps[t] = {}}
    /\ ordered = <<>>
    /\ best = <<>>
    /\ answer = "none"
    /\ result = NoPath

\* comparePath: the first difference decides, then the length.
Before(p, q) ==
    LET Differ == {i \in 1 .. (IF Len(p) <= Len(q) THEN Len(p) ELSE Len(q)) : p[i] # q[i]}
    IN  IF Differ = {} THEN Len(p) < Len(q) ELSE p[Least(Differ)] < q[Least(Differ)]

\* mutant: of two paths that last as long any one is first
FirstLonger(S) == CHOOSE x \in S : \A y \in S : x.duration >= y.duration

First(S) ==
    CHOOSE x \in S : \A y \in S :
        x.duration > y.duration \/ (x.duration = y.duration /\ ~Before(y.path, x.path))

\* The ready list is kept sorted: its head is the least.
order ==
    /\ answer = "none" /\ ready # {}
    /\ LET t == Least(ready)
           counted == [u \in Tasks |-> IF t \in deps[u] THEN indegree[u] - 1 ELSE indegree[u]]
       IN  /\ ordered' = Append(ordered, t)
           /\ indegree' = counted
           /\ ready' = (ready \ {t}) \cup {u \in Tasks : t \in deps[u] /\ counted[u] = 0}
    /\ UNCHANGED <<deps, duration, best, answer, result>>

findCycle ==
    /\ answer = "none" /\ ready = {} /\ Len(ordered) # N
    /\ answer' = "cycle"
    /\ UNCHANGED <<deps, duration, indegree, ready, ordered, best, result>>

PathTo(t) == best[CHOOSE i \in 1 .. Len(best) : ordered[i] = t]

\* The longest path to the next task, and whether its duration is in bounds.
extend ==
    /\ answer = "none" /\ ready = {} /\ Len(ordered) = N /\ Len(best) < N
    /\ LET t == ordered[Len(best) + 1]
           longest == IF deps[t] = {} THEN NoPath ELSE First({PathTo(d) : d \in deps[t]})
           lasts == duration[t] + longest.duration
       IN  \/ /\ lasts <= MaxSafeInteger
              /\ best' = Append(best, [duration |-> lasts, path |-> Append(longest.path, t)])
              /\ UNCHANGED answer
           \/ /\ lasts > MaxSafeInteger
              /\ answer' = "exceeds"
              /\ UNCHANGED best
    /\ UNCHANGED <<deps, duration, indegree, ready, ordered, result>>

report ==
    /\ answer = "none" /\ Len(best) = N
    /\ answer' = "path"
    /\ result' = First({best[i] : i \in 1 .. N})
    /\ UNCHANGED <<deps, duration, indegree, ready, ordered, best>>

Next == order \/ findCycle \/ extend \/ report

Spec == Init /\ [][Next]_vars

-----------------------------------------------------------------------------

\* Every way through the tasks that follows the dependencies.
Chains == {s \in UNION {[1 .. n -> Tasks] : n \in 1 .. N} :
             \A i \in 1 .. (Len(s) - 1) : s[i] \in deps[s[i + 1]]}

Length(s) == FoldFunction(LAMBDA t, sum : duration[t] + sum, 0, s)

HasCycle ==
    \E S \in SUBSET Tasks : S # {} /\ \A t \in S : deps[t] \cap S # {}

\* A cycle is reported exactly for the plans that have one, and a plan
\* without one is refused only when some chain of dependencies lasts longer
\* than a number can hold.  Otherwise the reported path is a chain of its
\* reported duration, no chain is longer, and among the longest it is the
\* first in the order of the identifiers (ai-coo.ts:778).
ReportIsCritical ==
    /\ answer = "cycle" => HasCycle
    /\ answer = "exceeds" => ~HasCycle /\ \E s \in Chains : Length(s) > MaxSafeInteger
    /\ answer = "path" =>
         /\ ~HasCycle /\ result.duration <= MaxSafeInteger
         /\ result.path \in Chains /\ Length(result.path) = result.duration
         /\ \A s \in Chains : \/ Length(s) < result.duration
                              \/ Length(s) = result.duration /\ ~Before(s, result.path)

=============================================================================
