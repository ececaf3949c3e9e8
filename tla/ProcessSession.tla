---------------------------- MODULE ProcessSession ----------------------------
(***************************************************************************)
(* The process behind one egress handoff of a Codex validation: its        *)
(* durable claim, the coordinators that open, drive and close it, the      *)
(* leases of the workers that recover it, and the terminal evidence        *)
(* (acp-bridge-admission.service.ts, codex-validation-process-session-*.ts,*)
(* codex-validation-runtime-adapter.ts).                                   *)
(*                                                                         *)
(* A call to the database keeps the time at which its transaction starts,  *)
(* since its rows are stamped with LOCALTIMESTAMP, and is one later step:  *)
(* transactions are serializable and lock the claim.  Every coordinator    *)
(* and every worker uses the identities that belong to the handoff, so     *)
(* that a second call is a replay.  Bindings and digests are equal         *)
(* throughout; cleanup evidence is its reason and closedAt.                *)
(***************************************************************************)
EXTENDS Clock, Naturals, Sequences, FiniteSets, FiniteSetsExt

CONSTANTS
    Coordinators, \* BoundedCodexValidationProcessSessionCoordinator instances
    Workers,      \* recovery workers of the owner
    HandoffEnd,   \* handoff.expiresAt, with claimedAt = 0: claim.expiresAt
    DispatchEnd,  \* dispatch.expiresAt
    LeaseTTL,     \* 15 seconds
    MaxProcesses, \* bound: processes opened
    MaxCrashes    \* bound: restarts of coordinators

Reasons == {"COMPLETED", "CANCELLED"}

\* Rows of the claims and of their completions.
ClaimRow == [claimedAt : Nat]
CompletionRow == [by : {"owner", "recovery"}, reason : Reasons, closedAt : Nat, at : Nat]

WindowAssumption ==
    /\ {HandoffEnd, DispatchEnd, LeaseTTL} \subseteq Nat \ {0}
    /\ HandoffEnd <= DispatchEnd
    /\ None \notin ClaimRow /\ None \notin CompletionRow

VARIABLES
    claim,      \* acp_codex_validation_process_session_claims: claimedAt, or None
    completion, \* ..._completions of the claim, or None
    leases,     \* ..._recovery_leases, by generation
    outcomes,   \* round trip and cancellation evidence accepted for the handoff
    processes,  \* processes the owner opened for the binding: openedAt, exitedAt
    exec,       \* execute() in each coordinator
    ran,        \* coordinators whose #used holds the dispatch
    crashes,
    messages,   \* signed terminal messages that left an adapter
    recovery    \* each worker's pass over the claim

sessionVars == <<now, claim, completion, leases, outcomes, processes, exec, ran, crashes, messages, recovery>>
durable == <<claim, completion, leases, outcomes>>

Idle == [pc |-> "idle"]
Step(p, s) == [exec EXCEPT ![p] = s]
Turn(w, s) == [recovery EXCEPT ![w] = s]

-----------------------------------------------------------------------------
(* BoundedCodexValidationProcessSessionCoordinator.execute *)

\* authenticateInput: the dispatch has a good MAC and is live.
Authenticated == now < DispatchEnd

\* The dispatch authenticates and neither #active nor #used holds it.
execute(c) ==
    /\ exec[c].pc = "idle"
    /\ Authenticated
    /\ c \notin ran
    /\ ran' = ran \cup {c}
    /\ exec' = Step(c, [pc |-> "claiming", since |-> now])
    /\ UNCHANGED <<now, durable, processes, crashes, messages, recovery>>

HandoffIsLive == now < HandoffEnd

\* The same call again finds the row it stored and succeeds.
claimProcessSession(c) ==
    /\ exec[c].pc = "claiming"
    /\ HandoffIsLive
    /\ claim' = IF claim = None THEN [claimedAt |-> exec[c].since] ELSE claim
    /\ exec' = Step(c, [pc |-> "claimed"])
    /\ UNCHANGED <<now, completion, leases, outcomes, processes, ran, crashes, messages, recovery>>

\* A session that validateSession rejects loses its streams; nobody closes it.
open(c) ==
    /\ exec[c].pc = "claimed"
    /\ Len(processes) < MaxProcesses
    /\ processes' = Append(processes, [openedAt |-> now, exitedAt |-> None])
    /\ \/ exec' = Step(c, [pc |-> "running", process |-> Len(processes) + 1])
       \/ exec' = Step(c, Idle)
    /\ UNCHANGED <<now, durable, ran, crashes, messages, recovery>>

\* BoundedCodexValidationProtocolRunner: completed, interrupted or failed.
run(c, reason) ==
    /\ exec[c].pc = "running"
    /\ exec' = Step(c, [pc |-> "closing", process |-> exec[c].process, reason |-> reason])
    /\ UNCHANGED <<now, durable, processes, ran, crashes, messages, recovery>>

processExits(p) ==
    /\ processes[p].exitedAt = None
    /\ processes' = [processes EXCEPT ![p].exitedAt = now]
    /\ UNCHANGED <<now, durable, exec, ran, crashes, messages, recovery>>

\* validateCloseResult: EXITED, and closed before the dispatch expires.
CloseResults(p) == {t \in {processes[p].exitedAt} : t # None /\ t <= DispatchEnd}

\* createCodexValidationProcessCleanupEvidence: FAILED gives no evidence.
CleanupEvidence(e, t) == [pc |-> "completing", process |-> e.process, reason |-> e.reason, closedAt |-> t, since |-> now]

\* The close begins while the dispatch is live and is bounded by what is left of it.
close(c) ==
    /\ exec[c].pc = "closing"
    /\ exec[c].reason # "FAILED"
    /\ now <= DispatchEnd
    /\ \E t \in CloseResults(exec[c].process) :
         exec' = Step(c, CleanupEvidence(exec[c], t))
    /\ UNCHANGED <<now, durable, processes, ran, crashes, messages, recovery>>

\* Denied, timed out or failed at any point: the call throws and #used keeps its entry.
executeFails(c) ==
    /\ exec[c].pc \in {"claiming", "claimed", "closing", "completing", "completed"}
    /\ exec' = Step(c, Idle)
    /\ UNCHANGED <<now, durable, processes, ran, crashes, messages, recovery>>

\* The service compares with the start of the transaction, the trigger with the clock.
NoActiveLease(since) == \A g \in DOMAIN leases : leases[g].expiresAt <= since /\ leases[g].expiresAt <= now

\* mutant: the stored completion is taken for the one of this call.
SameClaim(e) == completion.by = "owner"

SameEvidence(e) == completion.by = "owner" /\ completion.reason = e.reason /\ completion.closedAt = e.closedAt

ClosedWithinClaim(e) == e.closedAt \in claim.claimedAt .. HandoffEnd

OwnerCompletion(e) == [by |-> "owner", reason |-> e.reason, closedAt |-> e.closedAt, at |-> now]

completeProcessSession(c) ==
    LET e == exec[c] IN
    /\ e.pc = "completing"
    /\ ClosedWithinClaim(e)
    /\ NoActiveLease(e.since)
    /\ completion # None => SameEvidence(e)
    /\ completion' = IF completion = None THEN OwnerCompletion(e) ELSE completion
    /\ exec' = Step(c, [pc |-> "completed", process |-> e.process, reason |-> e.reason])
    /\ UNCHANGED <<now, claim, leases, outcomes, processes, ran, crashes, messages, recovery>>

\* createUnsignedRuntimeEnvelope and createUnsignedCancellationEnvelope.
TerminalMessage(e) == [reason |-> e.reason, process |-> e.process, issuedAt |-> now]

\* BoundedCodexValidationRuntimeAdapter.execute authenticates again, signs and writes.
emitTerminal(c) ==
    /\ exec[c].pc = "completed"
    /\ Authenticated
    /\ messages' = messages \cup {TerminalMessage(exec[c])}
    /\ exec' = Step(c, Idle)
    /\ UNCHANGED <<now, durable, processes, ran, crashes, recovery>>

\* The maps of a coordinator are in memory; its process keeps running.
crash(c) ==
    /\ crashes < MaxCrashes
    /\ c \in ran
    /\ crashes' = crashes + 1
    /\ exec' = Step(c, Idle)
    /\ ran' = ran \ {c}
    /\ UNCHANGED <<now, durable, processes, messages, recovery>>

\* Replay tracking expires with the dispatch.
usedExpires(c) ==
    /\ c \in ran /\ exec[c].pc = "idle"
    /\ DispatchEnd <= now
    /\ ran' = ran \ {c}
    /\ UNCHANGED <<now, durable, processes, exec, crashes, messages, recovery>>

-----------------------------------------------------------------------------
(* acceptCodexValidationRoundTripEvidence and acceptCodexValidationCancellationEvidence *)

\* ventureos_require_codex_validation_process_cleanup and the same check in the service.
CleanupOf(m) == completion # None /\ completion.reason = m.reason

\* No row of either table for the handoff.
NoOutcome(m) == outcomes = {}

\* The message was issued while the handoff was claimed; the dispatch, the run and the
\* connection are unchanged.
IssuedInHandoff(m) == m.issuedAt <= HandoffEnd /\ now < DispatchEnd

Acceptable(m) == NoOutcome(m) /\ IssuedInHandoff(m) /\ CleanupOf(m)

acceptRoundTripEvidence(m) ==
    /\ m.reason = "COMPLETED"
    /\ Acceptable(m)
    /\ outcomes' = outcomes \cup {m}
    /\ UNCHANGED <<now, claim, completion, leases, processes, exec, ran, crashes, messages, recovery>>

acceptCancellationEvidence(m) ==
    /\ m.reason = "CANCELLED"
    /\ Acceptable(m)
    /\ outcomes' = outcomes \cup {m}
    /\ UNCHANGED <<now, claim, completion, leases, processes, exec, ran, crashes, messages, recovery>>

-----------------------------------------------------------------------------
(* Recovery *)

\* listCodexValidationProcessSessionRecoveryInventory
Inventory == claim # None /\ completion = None

\* The page lists claims without completion; it skips the ones still ACTIVE.
executeRecoveryPage(w) ==
    /\ recovery[w].pc = "idle"
    /\ Inventory
    /\ HandoffEnd <= now
    /\ recovery' = Turn(w, [pc |-> "leasing", since |-> now])
    /\ UNCHANGED <<now, durable, processes, exec, ran, crashes, messages>>

\* The claim and its dispatch exist and belong to the caller, and are not complete.
RecoveryAuthority == claim # None /\ completion = None

ClaimExpired(t) == HandoffEnd <= t /\ HandoffEnd <= now

\* executeCodexValidationProcessSessionRecovery goes on with a live lease only.
WorkItem(w, g) == [recovery EXCEPT ![w] = [pc |-> "leased", generation |-> g]]

NextGeneration == Len(leases) + 1

\* The service compares with the clock, the trigger with the start of the transaction.
LastLeaseExpired(since) == \A g \in DOMAIN leases : leases[g].expiresAt <= now /\ leases[g].expiresAt <= since

claimRecoveryLease(w) ==
    LET t == recovery[w].since IN
    /\ recovery[w].pc = "leasing"
    /\ RecoveryAuthority
    /\ ClaimExpired(t)
    /\ LastLeaseExpired(t)
    /\ now < t + LeaseTTL
    /\ leases' = Append(leases, [owner |-> w, claimedAt |-> t, expiresAt |-> t + LeaseTTL])
    /\ recovery' = WorkItem(w, NextGeneration)
    /\ UNCHANGED <<now, claim, completion, outcomes, processes, exec, ran, crashes, messages>>

\* The replay of a live lease returns its work item, after a restart of the worker too.
replayRecoveryLease(w) ==
    /\ recovery[w].pc = "leasing"
    /\ RecoveryAuthority
    /\ \E g \in DOMAIN leases :
         /\ leases[g].owner = w
         /\ leases[g].claimedAt <= now /\ now < leases[g].expiresAt
         /\ recovery' = WorkItem(w, g)
    /\ UNCHANGED <<now, durable, processes, exec, ran, crashes, messages>>

LeaseIsActive(g) == leases[g].claimedAt <= now /\ now < leases[g].expiresAt

\* The bounds of validateCodexValidationProcessSessionRecoveryExitEvidence.
ExitOfClaim(p) ==
    /\ processes[p].exitedAt # None
    /\ claim.claimedAt <= processes[p].openedAt
    /\ processes[p].exitedAt <= HandoffEnd

\* The evidence source reports a process that has exited.
observeRecoveryExit(w) ==
    /\ recovery[w].pc = "leased"
    /\ LeaseIsActive(recovery[w].generation)
    /\ \E p \in DOMAIN processes :
         /\ ExitOfClaim(p)
         /\ recovery' = Turn(w, [pc |-> "observed", generation |-> recovery[w].generation,
                                 exitedAt |-> processes[p].exitedAt, verifiedAt |-> now])
    /\ UNCHANGED <<now, durable, processes, exec, ran, crashes, messages>>

LeaseStillActive(g) == LeaseIsActive(g)

\* The work item and the evidence are those of the stored lease.
EvidenceOfLease(r) == r.verifiedAt \in leases[r.generation].claimedAt .. leases[r.generation].expiresAt - 1

RecoveryCompletion(r) == [by |-> "recovery", reason |-> "CANCELLED", closedAt |-> r.exitedAt, at |-> now]

completeProcessSessionRecovery(w) ==
    LET r == recovery[w] IN
    /\ r.pc = "observed"
    /\ LeaseStillActive(r.generation)
    /\ EvidenceOfLease(r)
    /\ completion = None
    /\ completion' = RecoveryCompletion(r)
    /\ recovery' = Turn(w, Idle)
    /\ UNCHANGED <<now, claim, leases, outcomes, processes, exec, ran, crashes, messages>>

\* A denied call aborts the page, as does a restart of the worker.
recoveryFails(w) ==
    /\ recovery[w].pc # "idle"
    /\ recovery' = Turn(w, Idle)
    /\ UNCHANGED <<now, durable, processes, exec, ran, crashes, messages>>

sessionTimePasses ==
    /\ now < Horizon
    /\ now' = now + 1
    /\ UNCHANGED <<durable, processes, exec, ran, crashes, messages, recovery>>

-----------------------------------------------------------------------------

SessionInit ==
    /\ now = 0
    /\ claim = None /\ completion = None
    /\ leases = <<>> /\ outcomes = {} /\ processes = <<>>
    /\ exec = [c \in Coordinators |-> Idle]
    /\ ran = {} /\ crashes = 0 /\ messages = {}
    /\ recovery = [w \in Workers |-> Idle]

CoordinatorStep(c) ==
    \/ execute(c) \/ claimProcessSession(c) \/ open(c)
    \/ \E reason \in Reasons \cup {"FAILED"} : run(c, reason)
    \/ close(c) \/ executeFails(c)
    \/ completeProcessSession(c) \/ emitTerminal(c) \/ crash(c) \/ usedExpires(c)

WorkerStep(w) ==
    \/ executeRecoveryPage(w) \/ claimRecoveryLease(w) \/ replayRecoveryLease(w)
    \/ observeRecoveryExit(w) \/ completeProcessSessionRecovery(w) \/ recoveryFails(w)

SessionNext ==
    \/ \E c \in Coordinators : CoordinatorStep(c)
    \/ \E w \in Workers : WorkerStep(w)
    \/ \E m \in messages : acceptRoundTripEvidence(m) \/ acceptCancellationEvidence(m)
    \/ \E p \in DOMAIN processes : processExits(p)
    \/ sessionTimePasses

SessionSpec == SessionInit /\ [][SessionNext]_sessionVars

-----------------------------------------------------------------------------

SessionTypeOK ==
    /\ now \in 0 .. Horizon
    /\ claim \in {None} \cup [claimedAt : 0 .. HandoffEnd - 1]
    /\ completion \in {None} \cup CompletionRow
    /\ \A g \in DOMAIN leases : leases[g] \in [owner : Workers, claimedAt : Nat, expiresAt : Nat]
    /\ outcomes \subseteq messages
    /\ messages \subseteq [reason : Reasons, process : DOMAIN processes, issuedAt : 0 .. DispatchEnd - 1]
    /\ \A p \in DOMAIN processes : processes[p] \in [openedAt : Nat, exitedAt : Nat \cup {None}]
    /\ ran \subseteq Coordinators

\* Every terminal message that leaves an adapter comes after the recorded cleanup of the
\* session, carries its reason, and its process has exited by then: two coordinators that
\* run the same dispatch cannot tell the control plane different ends.
MessagesAgree ==
    \A m \in messages :
        /\ completion # None /\ completion.reason = m.reason
        /\ processes[m.process].exitedAt # None /\ processes[m.process].exitedAt <= m.issuedAt

\* Recovery is exclusive: the leases of a claim follow each other without overlap and
\* none begins before the claim has expired, even when a transaction starts long before
\* it commits.
LeasesAreDisjoint ==
    /\ \A g \in DOMAIN leases : HandoffEnd <= leases[g].claimedAt
    /\ \A g, h \in DOMAIN leases : g < h => leases[g].expiresAt <= leases[h].claimedAt

\* While a lease runs only its holder may complete the session: the owner's completion
\* falls outside every lease and a recovered one inside a lease.
CompletionRespectsLeases ==
    completion # None =>
        LET inside == {g \in DOMAIN leases : completion.at \in leases[g].claimedAt .. leases[g].expiresAt - 1} IN
        IF completion.by = "owner" THEN inside = {} ELSE inside # {}

\* The recorded end is the exit of a process of the claim, inside the window of the claim.
CompletionIsAnExit ==
    completion # None =>
        /\ completion.closedAt \in claim.claimedAt .. HandoffEnd
        /\ \E p \in DOMAIN processes : processes[p].exitedAt = completion.closedAt

\* A session has one end: its only accepted evidence has the reason of its completion,
\* however many messages and retries arrive, and so has every message that the adapters
\* sign; the completion is the exit of a process, and was recorded by the owner outside
\* every lease or by the holder of a lease (BoundedCodexValidationProcessSessionCoordinator,
\* acceptRoundTripEvidence, claimCodexValidationProcessSessionRecovery).
OneOutcome ==
    /\ Cardinality(outcomes) <= 1
    /\ \A m \in outcomes : completion # None /\ completion.reason = m.reason
    /\ MessagesAgree /\ CompletionIsAnExit /\ LeasesAreDisjoint /\ CompletionRespectsLeases
=============================================================================
