------------------------------- MODULE MCCoo -------------------------------
(***************************************************************************)
(* What the company does, side by side: the initial state chooses a        *)
(* part, and only that part takes steps.  "factory" is AgentFactory alone, *)
(* with two workspaces, where agents form chains and siblings below roots  *)
(* that are kept or deleted when they end.  "chain" and "founder" are      *)
(* AiCoo: two tasks in a row with retries among plans that must be         *)
(* refused, and three tasks of which one waits for the Founder.  "path"    *)
(* and "weighted" are CriticalPath: every plan of four tasks that last as  *)
(* long as each other, and every plan of three that do not.                *)
(* "publication" is Publication, from nothing and from a listing that is   *)
(* prepared and approved.                                                  *)
(***************************************************************************)
EXTENDS AiCoo, MCPublication

VARIABLES part, deps, duration, indegree, ready, ordered, best, answer, result

pathVars == <<deps, duration, indegree, ready, ordered, best, answer, result>>
all == <<part, companyVars, pathVars, vars>>

Every(n, children) ==
    [c \in {"authority", "budget", "compute", "runtime", "retry", "children"} |->
        IF c = "children" THEN children ELSE n]

BindingsOf(sources, workspaces) ==
    [s \in sources |-> [p \in workspaces \X {"founder", "coo"} |->
        IF p[2] = "coo" THEN "AGENT" ELSE "HUMAN"]]

Template(ws, id, version, grants, ceilings, retention) ==
    [ws |-> ws, id |-> id, version |-> version, grants |-> grants,
     ceilings |-> ceilings, retention |-> retention]

Request(ws, id, parent, template, grants, n, children, retention) ==
    [ws |-> ws, id |-> id, parent |-> parent, template |-> template, version |-> 1,
     objective |-> "objective", task |-> "task", grants |-> grants,
     ceilings |-> Every(n, children), retention |-> retention]

MCBindings == BindingsOf({"AGENT_FACTORY"}, {"w1", "w2"})
MCLimits == [agents |-> 4, concurrent |-> 3, workspace |-> 3, children |-> 2, depth |-> 1, ceilings |-> Every(2, 2)]

\* "w" is the workspace of the planner; the others are those of "factory".
Worker == Template("w", "worker", 1, {"read"}, [Every(2, 2) EXCEPT !["authority"] = 3], "DELETE")
NextWorker == [Worker EXCEPT !.version = 2]
MCTemplates ==
    {Worker, NextWorker,
     Template("w1", "kept", 1, {"read", "write"}, Every(2, 2), "ARCHIVE"),
     Template("w1", "temporary", 1, {"read", "write"}, Every(2, 2), "DELETE"),
     Template("w2", "kept", 1, {"read", "write"}, Every(2, 2), "ARCHIVE")}
MCRequests ==
    {Request("w1", "r1", None, "kept", {"read", "write"}, 2, 2, "ARCHIVE"),
     Request("w1", "r2", "r1", "kept", {"read"}, 1, 2, "ARCHIVE"),
     Request("w1", "r2", None, "temporary", {"read", "write"}, 2, 1, "DELETE"),
     Request("w1", "r3", "r2", "temporary", {"read"}, 1, 1, "DELETE"),
     Request("w1", "r4", "r2", "temporary", {"write"}, 1, 1, "DELETE"),
     Request("w1", "r3", "r1", "temporary", {"write"}, 2, 1, "DELETE"),
     Request("w1", "bad ref", "r1", "kept", {"read"}, 1, 1, "ARCHIVE"),
     Request("w2", "r1", None, "kept", {"read"}, 2, 1, "ARCHIVE"),
     Request("w2", "r2", "r1", "kept", {"read"}, 3, 1, "ARCHIVE")}
MCLinks ==
    {<<"w1", "task", "objective">>, <<"w2", "task", "objective">>, <<"w2", "task", "other objective">>}

Task(id, needs, authority, cost, tries) ==
    [id |-> id, deps |-> needs, authority |-> authority, minimum |-> 1, cost |-> cost,
     attempts |-> tries, retryable |-> {"retry"}, stops |-> {"stop"}, target |-> "target",
     parent |-> None, template |-> "worker", version |-> 1, grants |-> {"read"},
     ceilings |-> Every(1, 0), retention |-> "DELETE"]

Plan(id, project, cost, ts) ==
    [id |-> id, project |-> project, authority |-> 4, cost |-> cost, tasks |-> ts]

\* A request an authorizer makes without the COO, for a task with cost 2 or 1.
OwnRequest(id, objective, task, cost, retries) ==
    [ws |-> "w", id |-> id, parent |-> None, template |-> "worker", version |-> 1,
     objective |-> objective, task |-> task, grants |-> {"read"},
     ceilings |-> [Every(1, 0) EXCEPT !["authority"] = 2, !["budget"] = cost, !["retry"] = retries],
     retention |-> "DELETE"]

CooLimits == [agents |-> 2, concurrent |-> 2, workspace |-> 2, children |-> 2, depth |-> 1,
              ceilings |-> Every(2, 2)]

Safe == {"o1", "o2", "o5", "a1", "a2", "a3", "runtime", "artifact", "p1", "p2",
         "t1", "t2", "t3", "t4", "t5"}

ChainPlans ==
    {Plan("o1", "p1", 3, <<Task("t1", {}, 2, 2, 2), Task("t2", {"t1"}, 2, 1, 1)>>),
     Plan("o3", "p3", 1, <<Task("t6", {}, 1, 1, 1), Task("t7", {}, 1, 1, 1)>>),
     Plan("o4", "p4", 2, <<Task("t8", {"t9"}, 1, 0, 1), Task("t9", {"t8"}, 1, 0, 1)>>)}
FounderPlans ==
    {Plan("o2", "p2", 2, <<Task("t3", {}, 2, 1, 1), Task("t4", {}, 4, 0, 1), Task("t5", {"t3", "t4"}, 2, 0, 1)>>)}
MCPlans == ChainPlans \cup FounderPlans
MCPlanner == [ws |-> "w", principal |-> "coo"]

\* The values of the cfg are those of "factory"; of plans, those of both others.
Factory == INSTANCE AgentFactory

Chain == INSTANCE AiCoo
    WITH SafeReferences <- Safe, MaxListFact <- 2,
         Bindings <- BindingsOf({"AGENT_FACTORY", "AI_COO"}, {"w"}),
         Limits <- CooLimits, Templates <- {Worker},
         Requests <- {OwnRequest(id, "o1", "t1", 2, 1) : id \in {"a1", "a2", "a3"}},
         Links <- {<<"w", "t2", "o5">>}, Plans <- ChainPlans, Runtimes <- {"runtime"}

Founder == INSTANCE AiCoo
    WITH SafeReferences <- Safe, MaxListFact <- 2,
         Bindings <- BindingsOf({"AGENT_FACTORY", "AI_COO"}, {"w"}),
         Limits <- CooLimits, Templates <- {Worker, NextWorker},
         Requests <- {OwnRequest(id, "o2", "t3", 1, 0) : id \in {"a1", "a2"}},
         Links <- {<<"w", "t2", "o5">>}, Plans <- FounderPlans, RequestIds <- {"a1", "a2"}

Path == INSTANCE CriticalPath WITH N <- 4, Durations <- {1}, MaxSafeInteger <- 3
Weighted == INSTANCE CriticalPath WITH N <- 3, Durations <- {1, 2, 3}, MaxSafeInteger <- 7

ASSUME Path!NAssumption /\ Weighted!NAssumption
ASSUME Chain!FactoryAssumption /\ Chain!PlansAssumption /\ Founder!FactoryAssumption /\ Founder!PlansAssumption

NoReport == /\ deps = None /\ duration = None /\ indegree = None /\ ready = None
            /\ ordered = None /\ best = None /\ answer = None /\ result = None

CompanyInit ==
    /\ CooInit
    /\ \/ part \in {"factory", "chain", "founder"} /\ NoReport /\ Init
       \/ part = "path" /\ Path!Init /\ Init
       \/ part = "weighted" /\ Weighted!Init /\ Init
       \/ part = "publication" /\ NoReport /\ (Init \/ PreparedInit)

Publishing == part = "publication" /\ UNCHANGED <<part, companyVars, pathVars>>

CompanyNext ==
    \/ part = "factory" /\ Factory!FactoryNext /\ UNCHANGED <<part, cooVars, pathVars, vars>>
    \/ part = "chain" /\ Chain!CooNext /\ UNCHANGED <<part, pathVars, vars>>
    \/ part = "founder" /\ Founder!CooNext /\ UNCHANGED <<part, pathVars, vars>>
    \/ part = "path" /\ Path!Next /\ UNCHANGED <<part, companyVars, vars>>
    \/ part = "weighted" /\ Weighted!Next /\ UNCHANGED <<part, companyVars, vars>>
    \/ Publishing /\ Next

\* Calls of a publication that have begun go on; nothing else is fair.
CompanySpec == CompanyInit /\ [][CompanyNext]_all /\ \A c \in Calls : WF_all(Publishing /\ Continue(c))

\* A cycle is reported exactly for the plans that have one, a plan is refused
\* only when one of its chains lasts too long, and otherwise the reported
\* path is the first of the longest chains of dependencies (ai-coo.ts
\* criticalPath).
ReportIsCritical ==
    /\ part = "path" => Path!ReportIsCritical
    /\ part = "weighted" => Weighted!ReportIsCritical

=============================================================================
