--------------------------- MODULE MCControlPlane ---------------------------
(***************************************************************************)
(* Two instances of ControlPlane for TLC, side by side: the initial state  *)
(* chooses a part, and only that part takes steps.  The identifiers are    *)
(* model values, and the records callers submit are listed here:           *)
(* "lifecycle" lets registry, grants and clock change around two runs,     *)
(* "evidence" the proofs of two connections.                               *)
(***************************************************************************)
EXTENDS ControlPlane, TLC

CONSTANTS boss, bot, bot2, rt1, a1, t1, t2, r1, r2, c1, c2, h1, h2,
          cap1, cap2, tool1, tool2, g1, g2, e1, key1, u1, x1, x2, cred1,
          health, research, x3     \* tasks and external run of "evidence"

VARIABLE part

OneLimit == [cost |-> 1, compute |-> 1]

ToolGrantOf(tool) == [agent |-> a1, tool |-> tool, scoped |-> TRUE, expiresAt |-> None]
CapabilityGrantOf(cap) == [agent |-> a1, capability |-> cap]

\* One agent, one kind; the capability or the tool may lose its name again.
LifecycleCapabilities == {<<cap1, HealthCheck>>, <<cap1, None>>}
LifecycleTools == {<<tool1, HealthCheck>>}
LifecycleAgents == {<<a1, [runtime |-> rt1, level |-> 1, maxRuns |-> 2]>>}
LifecycleCapabilityGrants == {<<g1, CapabilityGrantOf(cap1)>>}
LifecycleToolGrants == {<<g1, ToolGrantOf(tool1)>>}
LifecycleAuthority == {<<g1, [agent |-> a1, level |-> 0, classes |-> Kinds,
                              limit |-> OneLimit, maxRuns |-> 2, expiresAt |-> 1]>>}

Connection(principal, exchanged, heartbeat, roundTrip, status) ==
    [runtime |-> rt1, principal |-> principal, credential |-> cred1,
     registered |-> exchanged # None, exchanged |-> exchanged, heartbeat |-> heartbeat,
     roundTrip |-> roundTrip, status |-> status]

\* Provision without proofs, bootstrap, rotate to another principal, deprovision.
LifecycleConnections ==
    {Connection(bot, None, None, None, "UNCLAIMED"),
     Connection(bot, {cap1}, h1, None, "UNCLAIMED"),
     Connection(bot2, None, None, None, "UNCLAIMED"),
     [Connection(None, None, None, None, "UNCLAIMED") EXCEPT !.credential = None]}

LifecycleHeartbeats == {[conn |-> c1, principal |-> bot, sequence |-> 1,
                         healthy |-> TRUE, observedAt |-> 0]}

HealthTask == [agent |-> a1, kind |-> HealthCheck, capability |-> cap1, tool |-> tool1,
               target |-> c1, limit |-> OneLimit]
LifecycleTasks == TaskIds \X {HealthTask}

Usage == {[cost |-> 1, compute |-> 0]}

-----------------------------------------------------------------------------
\* Evidence instance: two connections of one runtime, a health check and a
\* research task, with the full round-trip proof.

ResearchTask == [agent |-> a1, kind |-> "business.research", capability |-> cap2,
                 tool |-> tool2, target |-> c1, limit |-> OneLimit]

EvidenceConnections ==
    {Connection(bot, None, None, None, "UNCLAIMED")}
    \cup {Connection(bot, {cap1, cap2}, h, None, "UNCLAIMED") : h \in {h1, h2}}
    \cup {Connection(bot, {cap1, cap2}, h, [task |-> t, run |-> r, event |-> e1], "CONNECTED") :
            h \in {h1, h2}, t \in {health, research}, r \in {r1, r2}}

BothKinds == {HealthCheck, "business.research"}

Evidence == INSTANCE ControlPlane
    WITH Principals <- {boss, bot}, CapabilityIds <- {cap1, cap2}, ToolIds <- {tool1, tool2},
         GrantIds <- {g1, g2}, ConnectionIds <- {c1, c2}, HeartbeatIds <- {h1, h2},
         TaskIds <- {health, research}, EventIds <- {e1}, EventKeys <- {key1}, UsageIds <- {},
         ExternalIds <- {x3}, Kinds <- BothKinds, MaxTime <- 0, MaxRegistrations <- 1,
         CapabilityInputs <- {<<cap1, HealthCheck>>, <<cap2, "business.research">>},
         ToolInputs <- {<<tool1, HealthCheck>>, <<tool2, "business.research">>},
         CapabilityGrantInputs <- {<<g1, CapabilityGrantOf(cap1)>>, <<g2, CapabilityGrantOf(cap2)>>},
         AgentInputs <- {<<a1, [runtime |-> rt1, level |-> 1, maxRuns |-> 1]>>},
         ToolGrantInputs <- {<<g1, ToolGrantOf(tool1)>>, <<g2, ToolGrantOf(tool2)>>},
         AuthorityInputs <- {<<g1, [agent |-> a1, level |-> 1, classes |-> BothKinds,
                                    limit |-> OneLimit, maxRuns |-> 1, expiresAt |-> None]>>},
         ConnectionInputs <- EvidenceConnections,
         HeartbeatInputs <- {[conn |-> c, principal |-> bot, sequence |-> 1, healthy |-> TRUE,
                              observedAt |-> 0] : c \in {c1, c2}},
         TaskInputs <- {<<health, HealthTask>>, <<research, ResearchTask>>}

MCInit ==
    \/ part = "lifecycle" /\ Init
    \/ part = "evidence" /\ Evidence!Init

MCNext ==
    \/ part = "lifecycle" /\ Next /\ UNCHANGED part
    \/ part = "evidence" /\ Evidence!Next /\ UNCHANGED part

MCSpec == MCInit /\ [][MCNext]_<<part, vars>>

Symmetry == Permutations({r1, r2}) \cup Permutations({x1, x2}) \cup Permutations({t1, t2})
=============================================================================
