----------------------------- MODULE MCTaskRun -----------------------------
(***************************************************************************)
(* Instances of TaskRun for TLC.  Callers derive the key of a call from    *)
(* the run it is about; the keys of failRun and completeRun coincide, so   *)
(* the loser of a race between the two is also refused by its key.         *)
(***************************************************************************)
EXTENDS TaskRun, TLC

CONSTANTS c1, c2, x1, x2, x3, t1, t2, t3, r1, r2, r3, r4, crit1, crit2, retry, stop, fatal, o1, o2

Plan1 == <<"plan1", None>>
Plan2 == <<"plan2", None>>
KeyNames == {"assign", "start", "end", "artifact1", "artifact2"}
Keyed(names) == [r \in RunIds |-> names \X {r}]
AllKeys == (KeyNames \X RunIds) \cup {Plan1, Plan2}

Assigning == Keyed({"assign"})
Recording == Keyed({"artifact1", "artifact2"})
Starting == Keyed({"start"})
Ending == Keyed({"end"})

Task(deps, authority, criteria, attempts) ==
    [deps |-> deps, authority |-> authority, cost |-> 1, criteria |-> criteria,
     maximumAttempts |-> attempts, retryable |-> {retry}, stop |-> {stop}]

Plan(key, objective, specs) ==
    [key |-> key, objective |-> objective, maximumAuthority |-> 4, maximumCost |-> 3,
     tasks |-> specs]

\* Two tasks, one with a retry, a third that needs both and Level-4 approval; the
\* same graph with a cycle; a plan that collides with the first one's ids.
JoinPlans ==
    {Plan(Plan1, o1, t1 :> Task({}, 1, {crit1}, 1) @@ t2 :> Task({}, 1, {crit1}, 2)
                       @@ t3 :> Task({t1, t2}, 4, {crit1}, 1)),
     Plan(Plan2, o1, t1 :> Task({t2}, 1, {crit1}, 1) @@ t2 :> Task({t1}, 1, {crit1}, 1)),
     Plan(Plan2, o2, t3 :> Task({}, 1, {crit1}, 1))}

\* One task with two criteria; one more run id than it may have attempts.
RetryPlans == {Plan(Plan1, o1, t1 :> Task({}, 1, {crit1, crit2}, 2))}

\* Tasks that join, or one task that is retried.
AllPlans == JoinPlans \cup RetryPlans

Symmetry == Permutations(RunIds) \cup Permutations(Callers) \cup Permutations(ArtifactIds)
=============================================================================
