------------------------------ MODULE MCGovernance ------------------------------
(***************************************************************************)
(* Who and what may act, one question per part, side by side: a behaviour  *)
(* stays in the part its initial state chose, and the other parts stay     *)
(* initial or are None.                                                    *)
(*                                                                         *)
(*   issuance   two issuers approve and publish authorizations of modules  *)
(*   reads      one reader while snapshots are published and roots revoked *)
(*   chain      an issuer that asks for any place in the chain             *)
(*   loads      two loaders while the authorization names another module,  *)
(*              one that cannot be used, and the process restarts          *)
(*   mapping    a load while files are replaced and written in place       *)
(*   swaps      three readers race for the checkpoint; nothing is granted  *)
(*   sources    three readers of signed snapshots over an untrusted reader *)
(*   voice      two principals talk in two sessions                        *)
(*   supervise  two prepared launches with one nonce, two executions       *)
(*   inspect    an executable that changes while it is inspected           *)
(*   twice      two processes provision the same plan                      *)
(*   timed      one provisioning against its timers and the clock          *)
(***************************************************************************)
EXTENDS TrustSource, VoiceGateway, ModuleAuthority, Supervision

\* x1, x2 and x3 are interchangeable in every part, and so are y1 and y2.
CONSTANTS one, two, x1, x2, x3, y1, y2

VARIABLES part, nodes, attempts, observations, changes

moduleRest == <<registry, published, checkpoint, issuers, loaders, disk, bytes, retained, mapped, restarts>>
sourceRest == <<supervisorCheckpoint, executableCheckpoints, movedAt, readers>>
voiceRest == <<adapters, sessions, memory, usedProofs, usedSequences, routed>>
superviseRest == <<source, trust, inodes, link, consumed, calls, plans, executions, launches, processes>>
provisionVars == <<nodes, attempts, observations, changes>>
all == <<part, now, moduleRest, sourceRest, voiceRest, superviseRest, provisionVars>>

Owner == [level |-> 3, kind |-> "HUMAN"]
Runtime == [level |-> 3, kind |-> "RUNTIME"]
Operator == [level |-> 2, kind |-> "HUMAN"]

\* The same authorization, raised to another module, or revoked.  The patched
\* image has the size of the good one, the broken one has not.
Image(name) == [name |-> name, size |-> IF name = "broken" THEN 2 ELSE 1]
GrantsOf(n) ==
    [k \in {one} |-> IF n = 0 THEN None
                     ELSE [id |-> one, version |-> n,
                           module |-> IF n = 1 THEN [file |-> one, image |-> Image("good")]
                                      ELSE [file |-> two, image |-> Image("broken")]]]

MCCallers == {Owner}
MCGrants == {GrantsOf(1), GrantsOf(0)}
MCImages == {Image("good")}

\* The values of the cfg are those of "reads", but for the clock.
Reads == INSTANCE ModuleAuthority WITH Horizon <- 1

Issuance == INSTANCE ModuleAuthority
    WITH Callers <- {Owner, Runtime, Operator}, Issuers <- {x1, x2}, Loaders <- {}, Grants <- {GrantsOf(1)},
         Horizon <- 1

Loads == INSTANCE ModuleAuthority
    WITH Loaders <- {x1, x2}, Grants <- {GrantsOf(1), GrantsOf(2)}, Files <- {one, two},
         Images <- {Image("good"), Image("broken")}, Unusable <- {Image("broken")},
         SnapshotLife <- 1, MaxRootVersions <- 1, MaxRestarts <- 1, Horizon <- 0

Mapping == INSTANCE ModuleAuthority
    WITH Grants <- {GrantsOf(1)}, Files <- {one, two}, Images <- {Image("good"), Image("patched"), Image("broken")},
         MaxVersions <- 1, MaxRootVersions <- 1, MaxWrites <- 1, Horizon <- 1

Chain == INSTANCE ModuleAuthority
    WITH Loaders <- {}, Grants <- {GrantsOf(1)}, AnyPlace <- TRUE, Horizon <- 0

Swaps == INSTANCE ModuleAuthority
    WITH Loaders <- {x1, x2, x3}, Grants <- {GrantsOf(0)},
         SnapshotLife <- 1, MaxRootVersions <- 1, Horizon <- 0

\* Signed snapshots: two that claim the first version, one of which is followed
\* by a revocation, one that lasts too long, and one that was altered.
Record == [id |-> one, version |-> 1, key |-> one, fingerprint |-> one, instance |-> two]
Signed(id, version, prev, record, until, signature) ==
    [id |-> id, version |-> version, prev |-> prev, signer |-> one, scope |-> two, record |-> record,
     from |-> 0, until |-> until, signature |-> signature]

MCRoots == {[signer |-> one, minimum |-> 1, from |-> 0, until |-> 4, revokedAt |-> None]}
MCSnapshots ==
    {Signed("a1", 1, None, Record, 1, "genuine"), Signed("b1", 1, None, Record, 2, "genuine"),
     Signed("a2", 2, "a1", None, 2, "genuine"),
     Signed("long", 1, None, Record, 4, "genuine"), Signed("altered", 1, None, Record, 2, "other")}

\* The browser's recognizer and an external voice; a router whose answers a
\* principal may be given, may not be given, and must confirm elsewhere.
Offer(kind, availability, status, network, credentials) ==
    [kind |-> kind, availability |-> availability, status |-> status, network |-> network, credentials |-> credentials, limit |-> 1]
Decision(outcome, required, target, response) ==
    [linked |-> TRUE, outcome |-> outcome, required |-> required, target |-> target, response |-> [kind |-> response, size |-> 1]]

MCOffered ==
    {Offer("STT", "LOCAL_BROWSER", "BROWSER_LOCAL_AVAILABLE", "OFFLINE", "NONE"),
     Offer("TTS", "EXTERNAL_PROVIDER", "AVAILABLE", "EGRESS", "SESSION")}
MCDecisions ==
    {Decision("ROUTINE", 1, None, "sensitive"), Decision("ROUTINE", 3, None, "plain"), Decision("LEVEL_4", 4, one, "plain")}

Voice == INSTANCE VoiceGateway WITH Horizon <- 1

\* One executable, which may be written or replaced while it is read; one
\* decision answered twice, another with the same nonce, and one for later.
Executable == [path |-> <<"opt", "agent">>, sha256 |-> "good", identity |-> one,
               file |-> [writable |-> FALSE, executable |-> TRUE, symbolicLink |-> FALSE]]
Manifest(testOnly, directory, cpu) ==
    [platform |-> "LINUX", testOnly |-> testOnly, adapter |-> IF testOnly THEN "DETERMINISTIC_FAKE" ELSE "CODEX",
     network |-> "DENY", shell |-> FALSE, secretTransport |-> "NONE", executable |-> Executable,
     root |-> <<"work", "tree">>, directory |-> directory, limits |-> [runtime |-> 2, cpu |-> cpu, children |-> 0], argv |-> <<"serve">>]
Authorization(m, signer, from, until) ==
    [signer |-> signer, from |-> from, until |-> until, testOnly |-> m.testOnly, adapter |-> m.adapter,
     executable |-> m.executable, root |-> m.root, genuine |-> TRUE]
Judgement(id, nonce, m, signer, from, until) ==
    [id |-> id, supervision |-> id, nonce |-> nonce, manifest |-> m, authorization |-> Authorization(m, signer, from, until)]
Real == Manifest(FALSE, <<"work", "tree", "a">>, 1)
Fake == Manifest(TRUE, <<"work", "tree">>, 1)

MCManifests == {Real, Fake, Manifest(FALSE, <<"work", "tree", "..">>, 1), Manifest(FALSE, <<"work", "..tmp">>, 1), Manifest(FALSE, <<"work", "tree">>, 3)}
MCLaunchDecisions == {Judgement("d1", "n1", Real, one, 0, 2), Judgement("d2", "n2", Fake, "test", 0, 2)}

\* The values of the cfg are those of "inspect".
Supervise == INSTANCE Supervision
    WITH Calls <- {x1, x2}, Executors <- {y1, y2}, Inodes <- {one}, Contents <- {"good"}, Manifests <- {Real},
         LaunchDecisions <- {Judgement("d1", "n1", Real, one, 0, 2), Judgement("d2", "n1", Real, one, 0, 1)}, MaxChanges <- 0

\* One plan submitted twice, in two processes.
Module(name, identity) ==
    [path |-> <<name \o " source">>, identity |-> identity, sha256 |-> name \o " bytes", writable |-> FALSE, readable |-> TRUE, size |-> 1]
Plan ==
    [id |-> "attempt", parent |-> <<"parent">>, identity |-> 2,
     socket |-> <<"parent", "attempt", "run", "supervisor", "socket">>,
     sources |-> [k \in {"client", "listener"} |-> Module(k, IF k = "client" THEN 3 ELSE 4)]]

Twice == INSTANCE Provisioning
    WITH Attempts <- {x1, x2}, Plans <- [a \in {x1, x2} |-> Plan], Granters <- {Owner}, Cancellable <- {}, Movable <- {"attempt", "client"},
         PhaseLife <- 1, MaxPhaseLife <- 2, ObservationLife <- 1, ObserveTimeout <- 1, GateTimeout <- 1,
         MaxNodes <- 17, MaxDisturbances <- 1, Horizon <- 0

Timed == INSTANCE Provisioning
    WITH Attempts <- {one}, Plans <- [a \in {one} |-> Plan],
         Granters <- {Owner, Runtime, Operator}, Cancellable <- {one}, Movable <- {"parent", "client source", "attempt", "native", "client", "socket"},
         PhaseLife <- 1, MaxPhaseLife <- 1, ObservationLife <- 2, ObserveTimeout <- 1, GateTimeout <- 1,
         MaxNodes <- 12, MaxDisturbances <- 1, Horizon <- 2

ASSUME Twice!LifetimesAssumption /\ Timed!LifetimesAssumption /\ SnapshotAssumption
ASSUME Issuance!LifetimeAssumption /\ Reads!LifetimeAssumption /\ Swaps!LifetimeAssumption /\ Loads!LifetimeAssumption /\ Chain!LifetimeAssumption /\ Mapping!LifetimeAssumption /\ OptionsAssumption /\ Voice!OptionsAssumption /\ Supervise!LimitsAssumption /\ Supervise!SignersAssumption

NoModules == ModuleInit /\ disk = [k \in Kinds |-> one]

NoProvision == nodes = None /\ attempts = None /\ observations = None /\ changes = None

NoSupervision == SupervisionInit /\ source = "absent" /\ link = one /\ \A i \in Inodes : inodes[i].content = "good"

Init ==
    \/ /\ \/ part = "issuance" /\ Issuance!ModuleInit
          \/ part = "reads" /\ Reads!ModuleInit
          \/ part = "swaps" /\ Swaps!ModuleInit
          \/ part = "chain" /\ Chain!ModuleInit
          \/ part = "loads" /\ Loads!ModuleInit /\ bytes[one].image = Image("good") /\ bytes[two].image = Image("broken")
          \/ part = "mapping" /\ Mapping!ModuleInit
       /\ TrustInit /\ VoiceInit /\ NoSupervision /\ NoProvision
    \/ part = "sources" /\ TrustInit /\ NoModules /\ VoiceInit /\ NoSupervision /\ NoProvision
    \/ part = "voice" /\ Voice!VoiceInit /\ NoModules /\ TrustInit /\ NoSupervision /\ NoProvision
    \/ /\ (part = "supervise" /\ Supervise!SupervisionInit) \/ (part = "inspect" /\ SupervisionInit)
       /\ NoModules /\ TrustInit /\ VoiceInit /\ NoProvision
    \/ /\ (part = "twice" /\ Twice!ProvisionInit) \/ (part = "timed" /\ Timed!ProvisionInit)
       /\ NoModules /\ TrustInit /\ VoiceInit /\ NoSupervision

Next ==
    \/ part = "issuance" /\ Issuance!ModuleNext /\ UNCHANGED <<part, provisionVars, sourceRest, voiceRest, superviseRest>>
    \/ part = "reads" /\ Reads!ModuleNext /\ UNCHANGED <<part, provisionVars, sourceRest, voiceRest, superviseRest>>
    \/ part = "swaps" /\ Swaps!ModuleNext /\ UNCHANGED <<part, provisionVars, sourceRest, voiceRest, superviseRest>>
    \/ part = "loads" /\ Loads!ModuleNext /\ UNCHANGED <<part, provisionVars, sourceRest, voiceRest, superviseRest>>
    \/ part = "chain" /\ Chain!ModuleNext /\ UNCHANGED <<part, provisionVars, sourceRest, voiceRest, superviseRest>>
    \/ part = "mapping" /\ Mapping!ModuleNext /\ UNCHANGED <<part, provisionVars, sourceRest, voiceRest, superviseRest>>
    \/ part = "sources" /\ TrustNext /\ UNCHANGED <<part, provisionVars, moduleRest, voiceRest, superviseRest>>
    \/ part = "voice" /\ Voice!VoiceNext /\ UNCHANGED <<part, provisionVars, moduleRest, sourceRest, superviseRest>>
    \/ part = "supervise" /\ Supervise!SupervisionNext /\ UNCHANGED <<part, provisionVars, moduleRest, sourceRest, voiceRest>>
    \/ part = "inspect" /\ SupervisionNext /\ UNCHANGED <<part, provisionVars, moduleRest, sourceRest, voiceRest>>
    \/ part = "twice" /\ Twice!ProvisionNext /\ UNCHANGED <<part, moduleRest, sourceRest, voiceRest, superviseRest>>
    \/ part = "timed" /\ Timed!ProvisionNext /\ UNCHANGED <<part, moduleRest, sourceRest, voiceRest, superviseRest>>

Spec == Init /\ [][Next]_all

\* A returned bundle is the attempt's own: the modules are files it created, every
\* grant was fresh when the controller finished and both observations when the gate
\* returned it, and no other attempt returned any of its nodes or removed its modules
\* or its socket directory, unless one of the two adopted a directory that was
\* swapped in between its mkdirSync and its openSync (topology-gated provision).
BundlesAreOwn ==
    /\ part = "twice" => Twice!ProvisionTypes /\ Twice!BundlesAreOwn
    /\ part = "timed" => Timed!ProvisionTypes /\ Timed!BundlesAreOwn

\* A grant is handed out only if its snapshot was the latest that was published when
\* the last transaction of its read began, and its root, as it stood then, has not
\* ended; the checkpoint only moves to the next published snapshot, so that
\* no overtaken reader takes it back, and once an attempt to provision was
\* rejected nothing that still runs for it changes the disk
\* (RetainedNativeModuleAuthorizationTrustComposition.read, compareAndSwap,
\* LinuxParentDirectoryProvisioner.provision).
AuthorityIsCurrent ==
    [][/\ part = "issuance" => Issuance!ModuleTypes
       /\ part = "chain" => Chain!ModuleTypes
       /\ part = "loads" => Loads!ModuleTypes
       /\ part = "mapping" => Mapping!ModuleTypes
       /\ part = "swaps" => Swaps!ModuleTypes
       /\ part = "supervise" => Supervise!SupervisionTypes
       /\ part = "inspect" => SupervisionTypes
       /\ part = "reads" => Reads!GrantIsCurrent /\ Reads!CheckpointAdvances
       /\ part = "loads" => Loads!GrantIsCurrent
       /\ part = "swaps" => Swaps!CheckpointAdvances
       /\ part = "twice" => Twice!RejectedAttemptsStop
       /\ part = "timed" => Timed!RejectedAttemptsStop]_all

\* A rotation, a revocation or a newer snapshot does not fall within the final
\* decision on a grant: when it is handed out, it is of the latest snapshot and its
\* root is in force (RetainedNativeModuleAuthorizationTrustComposition.read).
DecisionIsLinearized == [][part = "reads" => Reads!GrantIsLatest]_all

Symmetry == Permutations({x1, x2, x3}) \cup Permutations({y1, y2})
============================================================================
