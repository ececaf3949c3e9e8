----------------------------- MODULE TrustSource -----------------------------
(***************************************************************************)
(* The two trust sources that turn signed snapshots into verifiers: of the *)
(* keys of a retained native supervisor                                    *)
(* (retained-native-supervisor-trust-source.ts) and of the authorities of  *)
(* executables (supervision-authority-trust-source.ts), over their         *)
(* PostgreSQL checkpoints (...-trust-state.ts).                            *)
(*                                                                         *)
(* The reader is a port that is not trusted: it may hand out any snapshot  *)
(* that was ever signed, an old one or one of two of the same version.     *)
(* What holds against it is the durable checkpoint, which several readers  *)
(* advance concurrently.  A snapshot is identified by its hash.            *)
(***************************************************************************)
EXTENDS Clock, Naturals

CONSTANTS
    Readers,     \* calls of read(), in any process
    Snapshots,   \* [id, version, prev, signer, scope, record, from, until, signature]
    Roots,       \* [signer, minimum, from, until, revokedAt], fixed when a source is built
    Instance,    \* the supervisor instance of the supervisor's source
    MaxLifetime

VARIABLES
    supervisorCheckpoint,  \* acp_retained_native_supervisor_trust_checkpoints, of Instance
    executableCheckpoints, \* acp_executable_authority_trust_checkpoints, per signer
    movedAt,               \* "updatedAt" of the checkpoints
    readers                \* where each call is

trustVars == <<now, supervisorCheckpoint, executableCheckpoints, movedAt, readers>>
checkpoints == <<supervisorCheckpoint, executableCheckpoints, movedAt>>

Signers == {root.signer : root \in Roots}

TrustInit ==
    /\ now = 0 /\ supervisorCheckpoint = None /\ executableCheckpoints = [k \in Signers |-> None]
    /\ movedAt = [scope \in Signers \cup {Instance} |-> 0] /\ readers = [r \in Readers |-> [pc |-> "idle"]]

TrustTick == now < Horizon /\ now' = now + 1 /\ UNCHANGED <<checkpoints, readers>>

At(r, source, pc) == readers[r].pc = pc /\ readers[r].source = source
Move(r, f) == readers' = [readers EXCEPT ![r] = f] /\ UNCHANGED now
Deny(r) == Move(r, [readers[r] EXCEPT !.pc = "denied"]) /\ UNCHANGED checkpoints

\* What both sources ask of a snapshot and the root of its signer.
Timely(s, root) ==
    /\ root.minimum <= s.version
    /\ s.from <= now /\ now < s.until /\ s.until - s.from <= MaxLifetime
    /\ root.from <= s.from /\ s.until <= root.until /\ root.from <= now /\ now < root.until
    /\ root.revokedAt # None => now < root.revokedAt /\ s.until <= root.revokedAt

\* The version that was in force when a call began (for the properties).
Floor(source, signer) ==
    LET c == IF source = "SUPERVISOR" THEN supervisorCheckpoint ELSE executableCheckpoints[signer]
    IN  IF c = None THEN 0 ELSE c.version

Scope(r) == IF readers[r].source = "SUPERVISOR" THEN Instance ELSE readers[r].snapshot.signer
Current(scope) == IF scope = Instance THEN supervisorCheckpoint.id ELSE executableCheckpoints[scope].id

Call(r, source, s) == [pc |-> "checkpoint", source |-> source, snapshot |-> s, seen |-> None, attempt |-> 1,
                       floor |-> Floor(source, s.signer), at |-> None]

--------------------------------------------------------------------------
(* The supervisor's source. *)

\* parseRootRecord and the constructor.
SupervisorRoots ==
    {root \in Roots : root.from < root.until /\ (root.revokedAt # None => root.revokedAt \in root.from..root.until)}

SupervisorSnapshot(s) == s.version >= 1 /\ s.scope = Instance

\* A snapshot without a record revokes; one with a record names this instance.
SupervisorAuthentic(s) ==
    /\ SupervisorSnapshot(s) /\ s.signature = "genuine"
    /\ \E root \in SupervisorRoots : root.signer = s.signer /\ Timely(s, root)
    /\ s.record # None => s.record.instance = Instance

\* BoundedRetainedNativeSupervisorTrustSource.read up to the checkpoint.
readSupervisor(r, s) ==
    /\ readers[r].pc = "idle"
    /\ IF SupervisorAuthentic(s)
       THEN Move(r, Call(r, "SUPERVISOR", s)) /\ UNCHANGED checkpoints
       ELSE Move(r, [pc |-> "denied"]) /\ UNCHANGED checkpoints

\* nextCheckpoint
SupervisorCheckpoint(s) == [id |-> s.id, version |-> s.version, signer |-> s.signer, record |-> s.record]

\* A key id keeps its key, a trust record that stays keeps or raises its version.
RecordAdvances(old, new) ==
    (old # None /\ new # None)
      => /\ old.key = new.key => old.fingerprint = new.fingerprint
         /\ old.id = new.id => old.version <= new.version

SupervisorSuccessor(seen, s) ==
    IF seen = None THEN s.prev = None
    ELSE s.version = seen.version + 1 /\ s.prev = seen.id /\ RecordAdvances(seen.record, s.record)

\* #advanceCheckpoint: the head of an attempt.
advanceSupervisor(r) ==
    LET s == readers[r].snapshot
        c == supervisorCheckpoint
    IN  /\ At(r, "SUPERVISOR", "checkpoint") /\ UNCHANGED checkpoints
        /\ \/ /\ c = SupervisorCheckpoint(s)
              /\ Move(r, [readers[r] EXCEPT !.pc = "finish"])
           \/ /\ c # SupervisorCheckpoint(s) /\ SupervisorSuccessor(c, s)
              /\ Move(r, [readers[r] EXCEPT !.pc = "swap", !.seen = c])
           \/ /\ c # SupervisorCheckpoint(s) /\ ~SupervisorSuccessor(c, s)
              /\ Move(r, [readers[r] EXCEPT !.pc = "denied"])

\* mutant: the first checkpoint of an instance replaces the one that was there
swapSupervisorFirst(r, answered) ==
    /\ At(r, "SUPERVISOR", "swap")
    /\ IF readers[r].seen \in {None, supervisorCheckpoint}
       THEN /\ supervisorCheckpoint' = SupervisorCheckpoint(readers[r].snapshot)
            /\ movedAt' = [movedAt EXCEPT ![Instance] = now]
            /\ Move(r, [readers[r] EXCEPT !.pc = "finish"])
       ELSE Move(r, [readers[r] EXCEPT !.pc = "denied"]) /\ UNCHANGED <<supervisorCheckpoint, movedAt>>
    /\ UNCHANGED executableCheckpoints

\* compareAndSwap of the PostgreSQL store; a lost race is tried once more.
swapSupervisor(r, answered) ==
    /\ At(r, "SUPERVISOR", "swap")
    /\ \/ /\ supervisorCheckpoint = readers[r].seen
          /\ supervisorCheckpoint' = SupervisorCheckpoint(readers[r].snapshot)
          /\ movedAt' = [movedAt EXCEPT ![Instance] = now]
          /\ Move(r, [readers[r] EXCEPT !.pc = IF answered THEN "finish" ELSE "denied"])
       \/ /\ supervisorCheckpoint # readers[r].seen
          /\ Move(r, [readers[r] EXCEPT !.pc = IF readers[r].attempt = 1 THEN "checkpoint" ELSE "denied", !.attempt = 2])
          /\ UNCHANGED <<supervisorCheckpoint, movedAt>>
    /\ UNCHANGED executableCheckpoints

\* The rest of read: a revocation is durable before it denies.
finishSupervisor(r) ==
    /\ At(r, "SUPERVISOR", "finish")
    /\ IF now < readers[r].snapshot.until /\ readers[r].snapshot.record # None
       THEN Move(r, [readers[r] EXCEPT !.pc = "trusted"]) /\ UNCHANGED checkpoints
       ELSE Deny(r)

\* SnapshotBoundRecoveryResponseVerifier.verify
verifyResponse(r) ==
    /\ At(r, "SUPERVISOR", "trusted")
    /\ readers[r].snapshot.from <= now /\ now < readers[r].snapshot.until
    /\ Move(r, [readers[r] EXCEPT !.at = now]) /\ UNCHANGED checkpoints

--------------------------------------------------------------------------
(* The executables' source: one chain per signer, no revoking snapshot, and *)
(* no look at the clock after the checkpoint.                               *)

ExecutableRoots ==
    {root \in Roots : root.from < root.until /\ (root.revokedAt # None => root.revokedAt \in root.from..root.until)}

ExecutableSnapshot(s) == s.version >= 1 /\ s.record # None

ExecutableAuthentic(s) ==
    /\ ExecutableSnapshot(s) /\ s.signature = "genuine"
    /\ \E root \in ExecutableRoots : root.signer = s.signer /\ Timely(s, root)

\* BoundedLinuxExecutableAuthorityTrustSource.read up to the checkpoint.
readExecutable(r, s) ==
    /\ readers[r].pc = "idle"
    /\ IF ExecutableAuthentic(s)
       THEN Move(r, Call(r, "EXECUTABLE", s)) /\ UNCHANGED checkpoints
       ELSE Move(r, [pc |-> "denied"]) /\ UNCHANGED checkpoints

\* nextCheckpoint
ExecutableCheckpoint(s) == [id |-> s.id, version |-> s.version]

ExecutableSuccessor(seen, s) ==
    IF seen = None THEN s.prev = None ELSE s.version = seen.version + 1 /\ s.prev = seen.id

advanceExecutable(r) ==
    LET s == readers[r].snapshot
        c == executableCheckpoints[s.signer]
    IN  /\ At(r, "EXECUTABLE", "checkpoint") /\ UNCHANGED checkpoints
        /\ \/ /\ c = ExecutableCheckpoint(s)
              /\ Move(r, [readers[r] EXCEPT !.pc = "trusted"])
           \/ /\ c # ExecutableCheckpoint(s) /\ ExecutableSuccessor(c, s)
              /\ Move(r, [readers[r] EXCEPT !.pc = "swap", !.seen = c])
           \/ /\ c # ExecutableCheckpoint(s) /\ ~ExecutableSuccessor(c, s)
              /\ Move(r, [readers[r] EXCEPT !.pc = "denied"])

\* PostgresLinuxExecutableAuthorityTrustCheckpointStore.compareAndSwap.
swapExecutable(r, answered) ==
    LET s == readers[r].snapshot
    IN  /\ At(r, "EXECUTABLE", "swap")
        /\ \/ /\ executableCheckpoints[s.signer] = readers[r].seen
              /\ executableCheckpoints' = [executableCheckpoints EXCEPT ![s.signer] = ExecutableCheckpoint(s)]
              /\ movedAt' = [movedAt EXCEPT ![s.signer] = now]
              /\ Move(r, [readers[r] EXCEPT !.pc = IF answered THEN "trusted" ELSE "denied"])
           \/ /\ executableCheckpoints[s.signer] # readers[r].seen
              /\ Move(r, [readers[r] EXCEPT !.pc = IF readers[r].attempt = 1 THEN "checkpoint" ELSE "denied", !.attempt = 2])
              /\ UNCHANGED <<executableCheckpoints, movedAt>>
        /\ UNCHANGED supervisorCheckpoint

\* SnapshotBoundAuthorizationVerifier.verify; it is synchronous, and the clock may pass the end in it.
verifyAuthorization(r) ==
    /\ At(r, "EXECUTABLE", "trusted")
    /\ readers[r].snapshot.from <= now /\ now < readers[r].snapshot.until
    /\ Move(r, [readers[r] EXCEPT !.at = now]) /\ UNCHANGED checkpoints

\* A store that fails denies; a swap may have taken effect all the same (~answered).
storeFails(r) ==
    /\ readers[r].pc \in {"checkpoint", "swap"}
    /\ Deny(r)

\* A snapshot is known by its hash; a supervisor instance is no signer.
SnapshotAssumption ==
    /\ \A s \in Snapshots : {s.version, s.from, s.until} \subseteq Nat
    /\ \A s, t \in Snapshots : s.id = t.id => s = t
    /\ \A s \in Snapshots : None \notin {SupervisorCheckpoint(s), ExecutableCheckpoint(s)}
    /\ {MaxLifetime, Horizon} \subseteq Nat /\ None \notin Nat /\ Instance \notin Signers

--------------------------------------------------------------------------
TrustNext ==
    \/ TrustTick
    \/ \E r \in Readers :
         \/ \E s \in Snapshots : readSupervisor(r, s) \/ readExecutable(r, s)
         \/ readers[r].pc # "idle" /\ readers[r].pc # "denied"
            /\ (\/ advanceSupervisor(r) \/ finishSupervisor(r) \/ verifyResponse(r)
                \/ advanceExecutable(r) \/ verifyAuthorization(r) \/ storeFails(r)
                \/ \E answered \in BOOLEAN : swapSupervisor(r, answered) \/ swapExecutable(r, answered))

TrustSpec == TrustInit /\ [][TrustNext]_trustVars

--------------------------------------------------------------------------
TrustTypeOK ==
    /\ now \in 0..Horizon
    /\ supervisorCheckpoint # None => \E s \in Snapshots : supervisorCheckpoint = SupervisorCheckpoint(s)
    /\ \A k \in Signers : executableCheckpoints[k] # None =>
         \E s \in Snapshots : s.signer = k /\ executableCheckpoints[k] = ExecutableCheckpoint(s)

\* A call that began when version v was in force trusts v or what was signed on
\* top of it, and two calls never trust two snapshots of one version.
VersionsNeverGoBack ==
    /\ \A r \in Readers : readers[r].pc = "trusted" => readers[r].snapshot.version >= readers[r].floor
    /\ \A r, q \in Readers :
         (/\ readers[r].pc = "trusted" /\ readers[q].pc = "trusted" /\ Scope(r) = Scope(q)
          /\ readers[r].snapshot.version = readers[q].snapshot.version)
           => readers[r].snapshot = readers[q].snapshot

\* A revocation, and every newer decision, takes effect within MaxLifetime of
\* its checkpoint: no verifier that was handed out before verifies anything
\* after that (SnapshotBoundRecoveryResponseVerifier, MAX_SNAPSHOT_LIFETIME_MS).
RevocationTakesEffect ==
    \A r \in Readers :
      (readers[r].pc = "trusted" /\ readers[r].at # None /\ Current(Scope(r)) # readers[r].snapshot.id)
        => readers[r].at < movedAt[Scope(r)] + MaxLifetime

\* A call that began when a version was in force trusts that one or what was
\* signed on top of it, two calls never trust two snapshots of one version, and a
\* revocation takes effect within the longest lifetime of a snapshot, whatever
\* the untrusted reader hands out (read, #advanceCheckpoint, compareAndSwap).
TrustNeverGoesBack == VersionsNeverGoBack /\ RevocationTakesEffect
==============================================================================
