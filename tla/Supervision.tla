----------------------------- MODULE Supervision -----------------------------
(***************************************************************************)
(* From a launch manifest to a single native launch: TrustedSupervisor-    *)
(* Composition (supervisor-composition.ts), the admission policy           *)
(* (supervision-policy.ts), the verifiers of authorizations (supervision-  *)
(* authorization.ts), the reader that inspects the executable              *)
(* (supervision-evidence-reader.ts) and the lifecycle of the process       *)
(* (supervision-lifecycle.ts).                                             *)
(*                                                                         *)
(* Every await of prepare and execute ends a step.  The source of trust    *)
(* (TrustSource), the source of decisions, the file system and the         *)
(* launcher are external: their answers are inputs.  A digest is the       *)
(* content it is taken of; a path is the sequence of its components.       *)
(***************************************************************************)
EXTENDS Clock, Naturals, Sequences, FiniteSets, SequencesExt

CONSTANTS
    Calls, Executors,        \* calls of prepare, each with its plan, and of execute
    Manifests, LaunchDecisions,    \* what callers ask for, what the source of decisions answers
    TrustedSigners, Inodes, Contents,
    PrivateNames, DotDotNames, \* names that look private, and that start with two dots
    MaxArguments, MaxRuntime, MaxAuthorizationLifetime, MaxTrustLifetime, EvidenceLifetime,
    MaxChanges               \* changes of the file system

VARIABLES
    source,     \* authorityTrustSource: "absent", "deny" or "configured"
    trust,      \* the trust records, by signer
    inodes, link, \* contents and change times, and the inode at the path of the executable
    consumed,   \* consumedDecisionIds, consumedSupervisionIds, consumedLaunchNonces
    calls,      \* progress of prepare
    plans,      \* #launchPlanStates and #launchRequestStates
    executions, \* progress of execute, #nativeLaunchHandoffStates
    launches,   \* envelopes taken by the launcher
    processes   \* states of launched processes

supervisionVars == <<now, source, trust, inodes, link, consumed, calls, plans, executions, launches, processes>>
files == <<inodes, link>>
world == <<now, source, trust, files>>

\* Dates are counted; the reserved signer of tests is no trusted one.
ASSUME LimitsAssumption == {MaxArguments, MaxRuntime, MaxAuthorizationLifetime, MaxTrustLifetime, EvidenceLifetime, MaxChanges, Horizon} \subseteq Nat
ASSUME SignersAssumption ==
    "test" \notin TrustedSigners /\ \A d \in LaunchDecisions : d.authorization.until \in Nat

SupervisionInit ==
    /\ now = 0 /\ source \in {"absent", "deny", "configured"}
    /\ trust = [s \in TrustedSigners |-> [from |-> 0, until |-> Horizon + 1, revokedAt |-> None]]
    /\ link \in Inodes /\ inodes \in [Inodes -> [content : Contents, changedAt : {0}]]
    /\ consumed = {} /\ launches = {}
    /\ calls = [c \in Calls |-> [pc |-> "idle"]] /\ executions = [x \in Executors |-> [pc |-> "idle"]]
    /\ plans = [c \in Calls |-> None] /\ processes = [c \in Calls |-> None]

--------------------------------------------------------------------------
(* The policy of manifests. *)

reference(value) == value \notin PrivateNames

canonicalPath(path, platform) ==
    /\ path # <<>>
    /\ \A i \in DOMAIN path : reference(path[i]) /\ path[i] \notin {"", ".", ".."}
    /\ platform = "LINUX" => path[1] \notin {"dev", "proc", "sys"}
    /\ platform = "WIN32" => \A i \in DOMAIN path : path[i] \notin {"CON", "NUL"}

\* path.relative: a component that merely starts with two dots counts as outside.
contained(root, candidate) ==
    /\ IsPrefix(root, candidate)
    /\ Len(candidate) > Len(root) => candidate[Len(root) + 1] \notin DotDotNames

argumentsList(argv) ==
    /\ Len(argv) <= MaxArguments
    /\ \A i \in DOMAIN argv : reference(argv[i]) /\ argv[i] \notin {"", "shell syntax", "sensitive switch"}

\* Neither written by anyone nor without a bit of execution; no link.
platformPolicy(file) == ~file.writable /\ file.executable /\ ~file.symbolicLink

DeniedBasenames == {"bash", "node", "python", "sh"}

parseManifest(m) ==
    /\ m.platform \in {"WIN32", "LINUX"} /\ reference(m.adapter)
    /\ m.testOnly <=> m.adapter = "DETERMINISTIC_FAKE"
    /\ m.network = "DENY" /\ ~m.shell /\ m.secretTransport \in {"NONE", "INHERITED_HANDLE"}
    /\ canonicalPath(m.executable.path, m.platform) /\ Last(m.executable.path) \notin DeniedBasenames
    /\ canonicalPath(m.root, m.platform) /\ canonicalPath(m.directory, m.platform) /\ contained(m.root, m.directory)
    /\ m.limits.runtime \in 1..MaxRuntime /\ m.limits.cpu \in 1..m.limits.runtime /\ m.limits.children = 0
    /\ argumentsList(m.argv) /\ platformPolicy(m.executable.file)

validateSupervisorManifest(m) == parseManifest(m)

--------------------------------------------------------------------------
(* Authorizations of executables and their verifiers. *)

parseLinuxExecutableAuthorization(a) == platformPolicy(a.executable.file)

IsCurrent(a) ==
    /\ a.from <= now /\ now < a.until /\ a.from < a.until /\ a.until - a.from <= MaxAuthorizationLifetime

verifyTestOnlyLinuxExecutableAuthorization(a) ==
    /\ parseLinuxExecutableAuthorization(a) /\ IsCurrent(a)
    /\ a.signer = "test" /\ a.testOnly /\ a.genuine

parseTrustRecord(r) ==
    /\ r.from < r.until /\ r.until - r.from <= MaxTrustLifetime
    /\ r.revokedAt # None => r.revokedAt \in r.from..r.until

\* BoundedLinuxExecutableAuthorizationVerifier.verify, over the records of a snapshot.
verifyBounded(records, a) ==
    /\ parseLinuxExecutableAuthorization(a) /\ IsCurrent(a)
    /\ a.signer \in DOMAIN records /\ ~a.testOnly /\ a.genuine
    /\ LET r == records[a.signer]
       IN /\ r.from <= now /\ now < r.until /\ r.from <= a.from /\ a.until <= r.until
          /\ r.revokedAt # None => now < r.revokedAt /\ a.until <= r.revokedAt

verify(verifier, a) ==
    IF verifier.kind = "test" THEN verifyTestOnlyLinuxExecutableAuthorization(a)
    ELSE verifyBounded(verifier.records, a)

\* None when AUTHORIZATION_NOT_CONFIGURED; the source may also fail.
freshAuthorizationVerifier(testOnly) ==
    CASE source = "absent" -> IF testOnly THEN [kind |-> "test"] ELSE None
      [] source = "deny" -> None
      [] source = "configured" ->
            IF \A s \in TrustedSigners : parseTrustRecord(trust[s]) THEN [kind |-> "snapshot", records |-> trust] ELSE None

--------------------------------------------------------------------------
(* Evidence and admission. *)

\* The fields an authorization and a manifest must agree on.
assertManifestAuthorization(m, a) ==
    a.testOnly = m.testOnly /\ a.adapter = m.adapter /\ a.executable = m.executable /\ a.root = m.root

parseEvidence(e, verifier) ==
    /\ canonicalPath(e.executable.path, "LINUX") /\ platformPolicy(e.executable.file)
    /\ verify(verifier, e.authorization)

validateSupervisorAdmission(m, e, verifier) ==
    /\ validateSupervisorManifest(m) /\ parseEvidence(e, verifier)
    /\ e.observedAt <= now /\ now < e.expiresAt /\ e.expiresAt - e.observedAt <= MaxAuthorizationLifetime
    /\ e.manifest = m /\ e.executable = m.executable

\* The binding that follows the process through its life.
processBinding(d, m, e) == [supervision |-> d.supervision, nonce |-> d.nonce, manifest |-> m, evidence |-> e]

validateRuntimeProcessLaunchRequestShape(m, binding) == validateSupervisorManifest(m) /\ binding.manifest = m

Denied(c) == calls' = [calls EXCEPT ![c] = [pc |-> "denied"]]

\* prepare, up to the first await.
prepare(c, m) ==
    /\ calls[c].pc = "idle"
    /\ validateSupervisorManifest(m) /\ m.platform = "LINUX"
    /\ calls' = [calls EXCEPT ![c] =
         [pc |-> "trust", manifest |-> m, verifier |-> None, decision |-> None, handle |-> None, stat |-> None, evidence |-> None]]
    /\ UNCHANGED <<world, consumed, plans, executions, launches, processes>>

readTrust(c, fails) ==
    /\ calls[c].pc = "trust"
    /\ LET verifier == freshAuthorizationVerifier(calls[c].manifest.testOnly)
       IN IF fails \/ verifier = None THEN Denied(c)
          ELSE calls' = [calls EXCEPT ![c].pc = "decision", ![c].verifier = verifier]
    /\ UNCHANGED <<world, consumed, plans, executions, launches, processes>>

validateAuthorizationDecision(d, m, verifier) ==
    /\ d.manifest = m /\ reference(d.id) /\ reference(d.supervision) /\ reference(d.nonce)
    /\ verify(verifier, d.authorization)

Keys(d) == {<<"decision", d.id>>, <<"supervision", d.supervision>>, <<"nonce", d.nonce>>}

Unexpired == {k \in consumed : k.expiresAt > now}

\* Expired keys are forgotten even when the decision is then refused.
consumeAuthorizationDecision(d) ==
    consumed' = IF Keys(d) \cap {k.key : k \in Unexpired} # {} THEN Unexpired
                ELSE Unexpired \cup {[key |-> k, expiresAt |-> d.authorization.until] : k \in Keys(d)}

\* The answer of the source; the decision is used up before it is compared
\* with the manifest, and the reader of evidence verifies it once more.
decide(c, d) ==
    LET m == calls[c].manifest
        fresh == Keys(d) \cap {k.key : k \in Unexpired} = {}
    IN
    /\ calls[c].pc = "decision"
    /\ IF ~validateAuthorizationDecision(d, m, calls[c].verifier) THEN Denied(c) /\ UNCHANGED consumed
       ELSE /\ consumeAuthorizationDecision(d)
            /\ IF fresh /\ assertManifestAuthorization(m, d.authorization)
               THEN calls' = [calls EXCEPT ![c].pc = "open", ![c].decision = d]
               ELSE Denied(c)
    /\ UNCHANGED <<world, plans, executions, launches, processes>>

--------------------------------------------------------------------------
(* LinuxExecutableEvidenceReader.read: the descriptor stays open while the  *)
(* file system changes under it.                                           *)

linuxIdentity(i) == i

openExecutable(c) ==
    /\ calls[c].pc = "open"
    /\ IF linuxIdentity(link) = calls[c].manifest.executable.identity
       THEN calls' = [calls EXCEPT ![c].pc = "digest", ![c].handle = link, ![c].stat = inodes[link].changedAt]
       ELSE Denied(c)
    /\ UNCHANGED <<world, consumed, plans, executions, launches, processes>>

digestOpenedFile(c) ==
    /\ calls[c].pc = "digest"
    /\ IF inodes[calls[c].handle].content = calls[c].manifest.executable.sha256
       THEN calls' = [calls EXCEPT ![c].pc = "recheck"]
       ELSE Denied(c)
    /\ UNCHANGED <<world, consumed, plans, executions, launches, processes>>

\* Neither the open file nor the path may have moved since the first look.
SameFile(call) == link = call.handle /\ inodes[call.handle].changedAt = call.stat

Lesser(a, b) == IF a <= b THEN a ELSE b

\* The last look at the file; what it shows is not dated yet.
recheckExecutable(c) ==
    /\ calls[c].pc = "recheck"
    /\ IF SameFile(calls[c])
       THEN calls' = [calls EXCEPT ![c].pc = "date",
                                   ![c].evidence = [identity |-> link, content |-> inodes[link].content]]
       ELSE Denied(c)
    /\ UNCHANGED <<world, consumed, plans, executions, launches, processes>>

dateEvidence(c) ==
    LET a == calls[c].decision.authorization
        m == calls[c].manifest
        evidence == [manifest |-> m, executable |-> m.executable, authorization |-> a,
                     observedAt |-> now, expiresAt |-> Lesser(now + EvidenceLifetime, a.until),
                     seen |-> calls[c].evidence]
    IN
    /\ calls[c].pc = "date"
    /\ IF evidence.expiresAt > now /\ validateSupervisorAdmission(m, evidence, calls[c].verifier)
       THEN calls' = [calls EXCEPT ![c].pc = "admit", ![c].evidence = evidence]
       ELSE Denied(c)
    /\ UNCHANGED <<world, consumed, plans, executions, launches, processes>>

\* The end of prepare: the plan and its request are registered as PENDING.
admit(c) ==
    LET call == calls[c]
        binding == processBinding(call.decision, call.manifest, call.evidence)
    IN
    /\ call.pc = "admit"
    /\ IF /\ validateSupervisorAdmission(call.manifest, call.evidence, call.verifier)
          /\ call.evidence.authorization = call.decision.authorization
          /\ validateRuntimeProcessLaunchRequestShape(call.manifest, binding)
       THEN /\ plans' = [plans EXCEPT ![c] =
                [plan |-> "PENDING", request |-> "PENDING", manifest |-> call.manifest, decision |-> call.decision,
                 evidence |-> call.evidence, binding |-> binding,
                 expiresAt |-> Lesser(call.decision.authorization.until, call.evidence.expiresAt)]]
            /\ calls' = [calls EXCEPT ![c] = [pc |-> "prepared"]]
       ELSE Denied(c) /\ UNCHANGED plans
    /\ UNCHANGED <<world, consumed, executions, launches, processes>>

--------------------------------------------------------------------------
(* execute *)

\* The signers that were revoked when an execution began.
Revoked == {s \in TrustedSigners : trust[s].revokedAt # None}

Spend(c) == [plans EXCEPT ![c].plan = "CONSUMED", ![c].request = "CONSUMED"]

execute(x, c) ==
    /\ executions[x].pc = "idle"
    /\ plans[c] # None /\ plans[c].plan = "PENDING"
    /\ IF now >= plans[c].expiresAt THEN plans' = Spend(c) /\ UNCHANGED executions
       ELSE /\ executions' = [executions EXCEPT ![x] = [pc |-> "trust", plan |-> c, revoked |-> Revoked, handoff |-> None]]
            /\ UNCHANGED plans
    /\ UNCHANGED <<world, consumed, calls, launches, processes>>

\* What activation revalidates with the verifier read by this execution.
Revalidated(p, verifier) ==
    /\ validateRuntimeProcessLaunchRequestShape(p.manifest, p.binding)
    /\ p.binding = processBinding(p.decision, p.manifest, p.evidence)
    /\ p.decision.authorization = p.evidence.authorization
    /\ validateSupervisorAdmission(p.manifest, p.evidence, verifier)
    /\ validateAuthorizationDecision(p.decision, p.manifest, verifier)

PlanPending(p) == p.plan = "PENDING" /\ p.request = "PENDING"

\* mutant: activation trusts the status the plan had before the await
activateIssuedPlan(p, verifier) == now < p.expiresAt /\ Revalidated(p, verifier)

activateTrustedSupervisorLaunchPlan(p, verifier) == PlanPending(p) /\ now < p.expiresAt /\ Revalidated(p, verifier)

\* The trust is read afresh; activation, consumption of the request and the
\* handoff follow it without another await.
activate(x, fails) ==
    LET c == executions[x].plan
        p == plans[c]
        verifier == freshAuthorizationVerifier(p.manifest.testOnly)
        idle == executions' = [executions EXCEPT ![x] = [pc |-> "idle"]]
    IN
    /\ executions[x].pc = "trust"
    /\ IF fails \/ verifier = None THEN idle /\ UNCHANGED plans
       ELSE IF activateTrustedSupervisorLaunchPlan(p, verifier)
       THEN /\ plans' = Spend(c)
            /\ executions' = [executions EXCEPT ![x].pc = "launching", ![x].handoff = "ACTIVE"]
       ELSE /\ plans' = IF PlanPending(p) /\ now >= p.expiresAt THEN Spend(c) ELSE plans
            /\ idle
    /\ UNCHANGED <<world, consumed, calls, launches, processes>>

\* The launcher takes the envelope, once and in time.
consumeNativeLaunchHandoff(x) ==
    LET e == executions[x]
        taken == e.handoff = "ACTIVE" /\ now < plans[e.plan].expiresAt
    IN
    /\ e.pc = "launching"
    /\ executions' = [executions EXCEPT ![x].handoff = "CONSUMED"]
    /\ launches' = IF taken THEN launches \cup {[by |-> x, plan |-> e.plan, at |-> now, revoked |-> e.revoked]} ELSE launches
    /\ processes' = IF taken THEN [processes EXCEPT ![e.plan] = "ADMITTED"] ELSE processes
    /\ UNCHANGED <<world, consumed, calls, plans>>

\* launcher.launch settled: the finally of execute.
finishLaunch(x) ==
    /\ executions[x].pc = "launching"
    /\ executions' = [executions EXCEPT ![x] = [pc |-> "done"]]
    /\ UNCHANGED <<world, consumed, calls, plans, launches, processes>>

--------------------------------------------------------------------------
(* The lifecycle of a launched process. *)

SUPERVISOR_PROCESS_TRANSITIONS ==
    [ADMITTED |-> {"STARTING", "FAILED"}, STARTING |-> {"RUNNING", "CANCEL_REQUESTED", "FAILED"},
     RUNNING |-> {"CANCEL_REQUESTED", "EXITED", "FAILED"},
     CANCEL_REQUESTED |-> {"TERMINATING", "KILLING", "EXITED", "FAILED"},
     TERMINATING |-> {"KILLING", "EXITED", "FAILED"}, KILLING |-> {"EXITED", "FAILED"}, EXITED |-> {}, FAILED |-> {}]

\* A request to cancel names the binding of the very process.
validateSupervisorCancellation(c, binding) == binding = plans[c].binding

assertSupervisorProcessTransition(c, next, binding) ==
    /\ processes[c] # None /\ next \in SUPERVISOR_PROCESS_TRANSITIONS[processes[c]]
    /\ next = "CANCEL_REQUESTED" => validateSupervisorCancellation(c, binding)
    /\ processes' = [processes EXCEPT ![c] = next]
    /\ UNCHANGED <<world, consumed, calls, plans, executions, launches>>

--------------------------------------------------------------------------
(* The world: time, revocation, and an executable that is written or      *)
(* replaced.                                                               *)

Changes == FoldSet(LAMBDA i, n : n + inodes[i].changedAt, 0, Inodes)

SupervisionTick == now < Horizon /\ now' = now + 1 /\ UNCHANGED <<source, trust, files, consumed, calls, plans, executions, launches, processes>>

Revoke(s) ==
    /\ trust[s].revokedAt = None /\ trust' = [trust EXCEPT ![s].revokedAt = now]
    /\ UNCHANGED <<now, source, files, consumed, calls, plans, executions, launches, processes>>

Write(i, content) ==
    /\ Changes < MaxChanges
    /\ inodes' = [inodes EXCEPT ![i] = [content |-> content, changedAt |-> @.changedAt + 1]]
    /\ UNCHANGED <<now, source, trust, link, consumed, calls, plans, executions, launches, processes>>

Replace(i) ==
    /\ i # link /\ Changes < MaxChanges
    /\ link' = i /\ inodes' = [inodes EXCEPT ![i].changedAt = @ + 1]
    /\ UNCHANGED <<now, source, trust, consumed, calls, plans, executions, launches, processes>>

SupervisionNext ==
    \/ \E c \in Calls :
        \/ \E m \in Manifests : prepare(c, m)
        \/ \E fails \in BOOLEAN : readTrust(c, fails)
        \/ \E d \in LaunchDecisions : decide(c, d)
        \/ openExecutable(c) \/ digestOpenedFile(c) \/ recheckExecutable(c) \/ dateEvidence(c) \/ admit(c)
        \/ \E x \in Executors : execute(x, c)
        \/ \E next \in DOMAIN SUPERVISOR_PROCESS_TRANSITIONS, other \in {d \in Calls : plans[d] # None} :
            assertSupervisorProcessTransition(c, next, plans[other].binding)
    \/ \E x \in Executors :
        \/ \E fails \in BOOLEAN : activate(x, fails)
        \/ consumeNativeLaunchHandoff(x) \/ finishLaunch(x)
    \/ SupervisionTick
    \/ \E s \in TrustedSigners : Revoke(s)
    \/ \E i \in Inodes : Replace(i) \/ \E content \in Contents : Write(i, content)

SupervisionSpec == SupervisionInit /\ [][SupervisionNext]_supervisionVars

--------------------------------------------------------------------------
SupervisionTypes ==
    /\ now \in 0..Horizon /\ source \in {"absent", "deny", "configured"}
    /\ link \in Inodes /\ inodes \in [Inodes -> [content : Contents, changedAt : 0..MaxChanges]]
    /\ \A s \in TrustedSigners : trust[s].revokedAt \in {None} \cup 0..Horizon
    /\ \A c \in Calls :
        /\ calls[c].pc \in {"idle", "trust", "decision", "open", "digest", "recheck", "date", "admit", "prepared", "denied"}
        /\ plans[c] # None => plans[c].plan \in {"PENDING", "CONSUMED"} /\ plans[c].plan = plans[c].request
        /\ processes[c] \in {None} \cup DOMAIN SUPERVISOR_PROCESS_TRANSITIONS
    /\ \A x \in Executors : executions[x].pc \in {"idle", "trust", "launching", "done"}

\* A plan is launched at most once and before it expires, no two launches
\* share a nonce while the earlier authorization lasts, and nothing is
\* launched on the word of a signer revoked before the execution began
\* (#consumeNativeLaunchHandoff, ADR_0052).
LaunchesAreSingle ==
    \A l \in launches :
        LET a == plans[l.plan].decision.authorization
        IN /\ l.at < plans[l.plan].expiresAt /\ plans[l.plan].expiresAt <= a.until
           /\ a.signer \notin l.revoked
           /\ \A k \in launches \ {l} :
                /\ k.plan # l.plan
                /\ plans[k.plan].decision.nonce = plans[l.plan].decision.nonce =>
                    plans[k.plan].evidence.observedAt >= a.until \/ plans[l.plan].evidence.observedAt >= plans[k.plan].decision.authorization.until

\* What a plan attests was at the path of the manifest, with the digest of
\* the manifest, at the last look before the evidence was dated, whatever
\* happened to the file while it was being read
\* (LinuxExecutableEvidenceReader.read).
EvidenceIsTrue ==
    \A c \in DOMAIN plans : plans[c] # None =>
        LET e == plans[c].evidence
        IN e.seen = [identity |-> e.executable.identity, content |-> e.executable.sha256]

\* A plan is launched at most once and before it expires, no nonce is launched
\* twice while its authorization lasts, no signer revoked before the execution
\* began is trusted, and the evidence was true at the last look before it was
\* dated, whatever happened to the file while it was read (#consumeNativeLaunchHandoff,
\* LinuxExecutableEvidenceReader.read).
LaunchesAreAuthorized == LaunchesAreSingle /\ EvidenceIsTrue
============================================================================
