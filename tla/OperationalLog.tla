-------------------------- MODULE OperationalLog --------------------------
(***************************************************************************)
(* The operational event log of the agent control plane,                   *)
(* packages/agent-control-plane/src/events.ts: what an event must be for   *)
(* the log to take it, and batches that are appended whole or not at all.  *)
(*                                                                         *)
(* An event is a record with                                               *)
(*   ws, source, actor, kind   where it comes from and who caused it;      *)
(*   id                        its identifier, also its idempotency key;   *)
(*   refs                      the identifiers and codes it carries:       *)
(*                             subject, correlation and facts;             *)
(*   listed                    the length of its longest list fact.        *)
(* Identifiers that other parts draw at random are represented by the      *)
(* content of the event, so the log tells what was recorded and not how    *)
(* often.  A context is the authenticated workspace and principal.         *)
(***************************************************************************)
EXTENDS Naturals, FiniteSets

CONSTANTS
    SafeReferences,   \* the texts that pass safeReference and the fact checks
    MaxListFact,      \* entries of a list fact: 32
    MaxBatch,         \* events of a batch: 64
    Bindings          \* for each source, the actor kind of a workspace's principal

VARIABLE log

ActorIsBound(ctx, e) ==
    /\ e.source \in DOMAIN Bindings
    /\ <<ctx.ws, ctx.principal>> \in DOMAIN Bindings[e.source]
    /\ Bindings[e.source][<<ctx.ws, ctx.principal>>] = e.kind

ReferencesAreSafe(e) == e.refs \subseteq SafeReferences

FactsAreAllowed(e) == e.listed <= MaxListFact

validateOperationalEvent(ctx, e) ==
    /\ ActorIsBound(ctx, e)
    /\ e.ws = ctx.ws
    /\ e.actor = ctx.principal
    /\ ReferencesAreSafe(e)
    /\ FactsAreAllowed(e)

\* No event of the batch has the identifier of an event of the log, nor of
\* another one of the batch.
IsNew(events) ==
    /\ \A e \in events, l \in log : ~(e.ws = l.ws /\ e.id = l.id)
    /\ \A e, f \in events : e.ws = f.ws /\ e.id = f.id => e = f

Accepts(ctx, events) ==
    /\ events # {} /\ Cardinality(events) <= MaxBatch
    /\ \A e \in events : validateOperationalEvent(ctx, e)
    /\ IsNew(events)

appendBatch(events) == log' = log \cup events

=============================================================================
