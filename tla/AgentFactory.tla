--------------------------- MODULE AgentFactory ---------------------------
(***************************************************************************)
(* The dynamic agent factory, packages/agent-control-plane/src/            *)
(* agent-factory.ts: objectives and tasks are registered, templates are    *)
(* published in versions, agents are instantiated for a task, possibly as  *)
(* children of another agent, and finalized by an authorizer.              *)
(*                                                                         *)
(* Repository, environment, data, capability and tool scopes are one set   *)
(* of grants, which the code compares the same way; budget, compute,       *)
(* runtime, retry, child and authority ceilings are a function.  Every     *)
(* operation is synchronous: an action is a call that succeeds, and a call *)
(* that throws changes nothing.                                            *)
(***************************************************************************)
EXTENDS OperationalLog

CONSTANTS
    Authorizers, CooPrincipals,   \* principals of the factory
    Limits,        \* [agents, workspace, concurrent, children, depth, ceilings]
    Templates,     \* templates an authorizer may publish
    Requests,      \* instantiation requests that may be made
    Links,         \* <<workspace, task, objective>> an authorizer may register
    MaxAuthority,  \* authority an agent may have at most: 3
    None

VARIABLES
    templates,     \* published template versions
    objectives,    \* registered <<workspace, objective>>
    links,         \* registered <<workspace, task, objective>>
    agents,        \* agents that were not deleted
    consumed       \* <<workspace, request>> that were used

\* Limits and ceilings are numbers, and an agent has an identifier.
ASSUME FactoryAssumption ==
    /\ {Limits.agents, Limits.concurrent, Limits.workspace, Limits.children, Limits.depth} \subseteq Nat
    /\ \A r \in Requests : r.id # None /\ r.ceilings["children"] \in Nat

factoryVars == <<log, templates, objectives, links, agents, consumed>>

Ceilings == {"authority", "budget", "compute", "runtime", "retry", "children"}

Below(f, g) == \A c \in Ceilings : f[c] <= g[c]

IsAuthorizer(ctx) == ctx.principal \in Authorizers

IsRequester(ctx) == ctx.principal \in Authorizers \cup CooPrincipals

Active(set) == {a \in set : a.life = "ACTIVE"}

AgentsOf(ws) == {a \in agents : a.request.ws = ws}

Agent(ws, id) == CHOOSE a \in agents : a.request.ws = ws /\ a.request.id = id

HasAgent(ws, id) == \E a \in agents : a.request.ws = ws /\ a.request.id = id

Children(ws, id) ==
    {a \in agents : a.request.ws = ws /\ a.request.parent = id /\ a.life = "ACTIVE"}

FactoryInit ==
    /\ log = {} /\ templates = {} /\ objectives = {} /\ links = {}
    /\ agents = {} /\ consumed = {}

(***************************************************************************)
(* Objectives, tasks and templates.                                        *)
(***************************************************************************)

registerObjective(ctx, o) ==
    /\ IsAuthorizer(ctx)
    /\ <<ctx.ws, o>> \notin objectives
    /\ objectives' = objectives \cup {<<ctx.ws, o>>}
    /\ UNCHANGED <<log, templates, links, agents, consumed>>

TaskIsLinked(ws, t) == \E l \in links : l[1] = ws /\ l[2] = t

registerTask(ctx, t, o) ==
    /\ IsAuthorizer(ctx)
    /\ <<ctx.ws, o>> \in objectives
    /\ ~TaskIsLinked(ctx.ws, t)
    /\ links' = links \cup {<<ctx.ws, t, o>>}
    /\ UNCHANGED <<log, templates, objectives, agents, consumed>>

\* A plan's objective and tasks are registered together, after all of them
\* were found to be new.
CanRegisterPlan(ctx, o, ts) ==
    /\ IsRequester(ctx)
    /\ <<ctx.ws, o>> \notin objectives
    /\ \A t \in ts : ~TaskIsLinked(ctx.ws, t)

registerPlan(ctx, o, ts) ==
    /\ objectives' = objectives \cup {<<ctx.ws, o>>}
    /\ links' = links \cup {<<ctx.ws, t, o>> : t \in ts}

WithinLimits(t) == \A c \in Ceilings \ {"authority"} : t.ceilings[c] <= Limits.ceilings[c]

putTemplate(ctx, t) ==
    /\ IsAuthorizer(ctx)
    /\ t.ws = ctx.ws /\ WithinLimits(t)
    /\ ~\E u \in templates : u.ws = t.ws /\ u.id = t.id /\ u.version = t.version
    /\ t.version > 1 =>
         \E u \in templates : u.ws = t.ws /\ u.id = t.id /\ u.version = t.version - 1
    /\ templates' = templates \cup {t}
    /\ UNCHANGED <<log, objectives, links, agents, consumed>>

(***************************************************************************)
(* Instantiation.                                                          *)
(***************************************************************************)

BelowAgentLimits(ws) ==
    /\ Cardinality(Active(agents)) < Limits.agents
    /\ Cardinality(Active(agents)) < Limits.concurrent
    /\ Cardinality(Active(AgentsOf(ws))) < Limits.workspace

SmallerOf(a, b) == IF a <= b THEN a ELSE b

ParentIsActive(r) ==
    HasAgent(r.ws, r.parent) /\ Agent(r.ws, r.parent).life = "ACTIVE" /\ r.parent # r.id

HasRoomForChild(r) ==
    LET parent == Agent(r.ws, r.parent)
    IN  Cardinality(Children(r.ws, r.parent)) <
          SmallerOf(parent.request.ceilings["children"], Limits.children)

WithinParent(r) ==
    LET parent == Agent(r.ws, r.parent).request
    IN  /\ parent.objective = r.objective /\ parent.task = r.task
        /\ r.grants \subseteq parent.grants
        /\ Below(r.ceilings, parent.ceilings)

Depth(r) == IF r.parent = None THEN 0 ELSE Agent(r.ws, r.parent).depth + 1

ParentAllows(r) ==
    r.parent # None => ParentIsActive(r) /\ HasRoomForChild(r) /\ WithinParent(r)

TemplateOf(r, t) == t.ws = r.ws /\ t.id = r.template /\ t.version = r.version

WithinTemplate(r) ==
    \E t \in templates :
        /\ TemplateOf(r, t)
        /\ r.grants \subseteq t.grants
        /\ Below(r.ceilings, t.ceilings)
        /\ r.ceilings["authority"] <= MaxAuthority
        /\ \A c \in Ceilings \ {"authority"} : r.ceilings[c] <= Limits.ceilings[c]
        /\ r.retention = t.retention

ActorKind(ctx) == IF ctx.principal \in CooPrincipals THEN "AGENT" ELSE "HUMAN"

FactoryEvent(ctx, r, type) ==
    [ws |-> r.ws, source |-> "AGENT_FACTORY", actor |-> ctx.principal,
     kind |-> ActorKind(ctx), id |-> <<r.id, type>>, refs |-> {r.id, r.task}, listed |-> 0]

IsUnused(r) == <<r.ws, r.id>> \notin consumed

CanInstantiate(ctx, r) ==
    /\ IsRequester(ctx) /\ r.ws = ctx.ws
    /\ <<r.ws, r.objective>> \in objectives /\ <<r.ws, r.task, r.objective>> \in links
    /\ BelowAgentLimits(r.ws)
    /\ ParentAllows(r)
    /\ Depth(r) <= Limits.depth
    /\ WithinTemplate(r)
    /\ IsUnused(r)
    /\ Accepts(ctx, {FactoryEvent(ctx, r, "created")})

\* The event is appended first: when the log refuses it, nothing is stored.
instantiate(r) ==
    /\ agents' = agents \cup {[request |-> r, depth |-> Depth(r), life |-> "ACTIVE"]}
    /\ consumed' = consumed \cup {<<r.ws, r.id>>}

instantiateAgent(ctx, r) ==
    /\ CanInstantiate(ctx, r)
    /\ instantiate(r)
    /\ appendBatch({FactoryEvent(ctx, r, "created")})
    /\ UNCHANGED <<templates, objectives, links>>

(***************************************************************************)
(* Finalization: an agent with active children stays.                      *)
(***************************************************************************)

\* mutant: the agents of a deleted parent are not looked for
HasNoKeptChild(ws, id) == Agent(ws, id).request.retention = "ARCHIVE" => Children(ws, id) = {}

HasNoActiveChild(ws, id) == Children(ws, id) = {}

Finalization(ctx, a, outcome) ==
    {FactoryEvent(ctx, a.request, outcome),
     FactoryEvent(ctx, a.request, IF a.request.retention = "ARCHIVE" THEN "archived" ELSE "deleted")}

complete(ctx, id, outcome) ==
    /\ IsAuthorizer(ctx)
    /\ HasAgent(ctx.ws, id)
    /\ LET a == Agent(ctx.ws, id)
       IN  /\ a.life = "ACTIVE"
           /\ HasNoActiveChild(ctx.ws, id)
           /\ Accepts(ctx, Finalization(ctx, a, outcome))
           /\ appendBatch(Finalization(ctx, a, outcome))
           /\ agents' = (agents \ {a}) \cup
                (IF a.request.retention = "ARCHIVE" THEN {[a EXCEPT !.life = "ARCHIVED"]} ELSE {})
    /\ UNCHANGED <<templates, objectives, links, consumed>>

Contexts == [ws : {r.ws : r \in Requests}, principal : Authorizers \cup CooPrincipals]

FactoryNext ==
    \E ctx \in Contexts :
        \/ \E l \in Links : l[1] = ctx.ws /\ registerObjective(ctx, l[3])
        \/ \E l \in Links : l[1] = ctx.ws /\ registerTask(ctx, l[2], l[3])
        \/ \E t \in Templates : putTemplate(ctx, t)
        \/ \E r \in Requests : instantiateAgent(ctx, r)
        \/ \E r \in Requests, outcome \in {"completed", "failed"} : complete(ctx, r.id, outcome)

FactorySpec == FactoryInit /\ [][FactoryNext]_factoryVars

-----------------------------------------------------------------------------
(***************************************************************************)
(* Properties.                                                             *)
(***************************************************************************)

\* Every variable keeps its type; identifiers of agents are unique, and were
\* consumed; a task is linked to one objective, which is registered.
FactoryTypeOK ==
    /\ templates \subseteq Templates
    /\ \A a \in agents : a.life \in {"ACTIVE", "ARCHIVED"} /\ <<a.request.ws, a.request.id>> \in consumed
    /\ \A a, b \in agents :
         a.request.ws = b.request.ws /\ a.request.id = b.request.id => a = b
    /\ \A l \in links : <<l[1], l[3]>> \in objectives
    /\ \A k, l \in links : k[1] = l[1] /\ k[2] = l[2] => k = l

\* Authority only shrinks on the way down: an active agent has an active
\* parent of its own task, which has all its grants and ceilings at least.
\* No finalization orphans an active child, whatever the retention
\* (agent-factory.ts:229, :341).
AuthorityShrinks ==
    \A a \in Active(agents) : a.request.parent # None =>
        \E p \in Active(agents) :
            /\ p.request.ws = a.request.ws /\ p.request.id = a.request.parent
            /\ p.request.task = a.request.task
            /\ a.request.grants \subseteq p.request.grants
            /\ Below(a.request.ceilings, p.request.ceilings)
            /\ a.depth = p.depth + 1

\* The active agents never exceed the limits of the factory, of their
\* workspace and of their parent, however they come and go (agent-factory.ts:213).
AgentLimitsHold ==
    /\ Cardinality(Active(agents)) <= SmallerOf(Limits.agents, Limits.concurrent)
    /\ \A a \in agents :
        /\ Cardinality(Active(AgentsOf(a.request.ws))) <= Limits.workspace
        /\ a.depth <= Limits.depth
        /\ Cardinality(Children(a.request.ws, a.request.id)) <= a.request.ceilings["children"]

\* An event of one of the types is in the log for agent id of a workspace.
Recorded(ws, id, types) ==
    \E e \in log : e.source = "AGENT_FACTORY" /\ e.ws = ws /\ e.id[1] = id /\ e.id[2] \in types

\* The log tells the life of an agent exactly: its identifier was consumed if
\* and only if its creation is recorded, it has at most one outcome, and none
\* before its creation, and it is active if and only if none is recorded.
LifeIsRecorded(ws, id) ==
    /\ <<ws, id>> \in consumed <=> Recorded(ws, id, {"created"})
    /\ ~(Recorded(ws, id, {"completed"}) /\ Recorded(ws, id, {"failed"}))
    /\ Recorded(ws, id, {"completed", "failed"}) => <<ws, id>> \in consumed
    /\ (\E a \in Active(agents) : a.request.ws = ws /\ a.request.id = id)
         <=> <<ws, id>> \in consumed /\ ~Recorded(ws, id, {"completed", "failed"})

\* That is so for all identifiers that were consumed or are in the log
\* (agent-factory.ts:321, :369).
AgentsAreAudited ==
    /\ \A x \in consumed : LifeIsRecorded(x[1], x[2])
    /\ \A e \in log : e.source = "AGENT_FACTORY" => LifeIsRecorded(e.ws, e.id[1])

\* Authority only shrinks on the way down, no finalization orphans an active
\* agent, the active agents never exceed the limits of the factory, of their
\* workspace and of their parent, and the log tells the life of every agent
\* (agent-factory.ts instantiate, complete; events.ts appendBatch).
LineageHolds == FactoryTypeOK /\ AuthorityShrinks /\ AgentLimitsHold /\ AgentsAreAudited
=============================================================================
