-------------------------- MODULE GovernanceProofs --------------------------
(***************************************************************************)
(* Theorems about the components that decide who is trusted, for every     *)
(* value of their constants.                                               *)
(*                                                                         *)
(* TrustNeverGoesBack rests on CallIsSound, which ties a call to the       *)
(* checkpoint of its scope: once it is past its swap the checkpoint is at  *)
(* least as new as what it trusts.  TranscriptsRouteOnce rests on the      *)
(* permission of sessions that talk, and on the proof of a routed          *)
(* transcript being marked before the router sees it.                      *)
(*                                                                         *)
(* ModulesAreAuthorized rests on ModuleSafety: what a loader goes on with  *)
(* is a published row, rows are only appended, each naming the one before  *)
(* it, and what it has digested is still in the file it holds open unless  *)
(* that was written since; the loads on the host are one at a time, so     *)
(* that none retains a module under another.  GrantIsCurrent and           *)
(* CheckpointAdvances rest on CheckpointIsReached as well.  They assume    *)
(* NoneIsNoRecord: what is not there is no record.                         *)
(*                                                                         *)
(* LaunchesAreAuthorized rests on LaunchSafety: a descriptor held since    *)
(* the open tells whether its file was touched, two plans with one nonce   *)
(* are apart in time because the nonce of the first is kept until its      *)
(* authorization ends, and an execution that may still launch has taken    *)
(* its plan from every other.                                              *)
(*                                                                         *)
(* BundlesAreSound rests on ProvisionSafety: nodes of the file system are  *)
(* only added and keep their creator, and a module's descriptor is of a    *)
(* file its attempt created.                                               *)
(***************************************************************************)
EXTENDS TrustSource, VoiceGateway, ModuleAuthority, Supervision, Provisioning, SequenceTheorems, TLAPS

-----------------------------------------------------------------------------
(* TrustSource *)

Checkpoints ==
    {SupervisorCheckpoint(s) : s \in Snapshots} \cup {ExecutableCheckpoint(s) : s \in Snapshots}

TrustCall ==
    [pc : {"checkpoint", "swap", "finish", "trusted", "denied"}, source : {"SUPERVISOR", "EXECUTABLE"},
     snapshot : Snapshots, seen : Checkpoints \cup {None}, attempt : {1, 2}, floor : Nat, at : Nat \cup {None}]

Scopes == Signers \cup {Instance}

\* The checkpoint of a scope, its version, and the one a call leads to.
Checkpoint(k) == IF k = Instance THEN supervisorCheckpoint ELSE executableCheckpoints[k]
VersionOf(c) == IF c = None THEN 0 ELSE c.version
ScopeOf(x) == IF x.source = "SUPERVISOR" THEN Instance ELSE x.snapshot.signer
Wanted(x) ==
    IF x.source = "SUPERVISOR" THEN SupervisorCheckpoint(x.snapshot) ELSE ExecutableCheckpoint(x.snapshot)

\* A call that is under way, against the checkpoint c of its scope, moved at m.
CallIsSound(x, c, m, t) ==
    /\ x \in TrustCall
    /\ x.snapshot.signer \in Signers
    /\ x.snapshot.from <= t /\ x.snapshot.until - x.snapshot.from <= MaxLifetime /\ x.snapshot.version >= 1
    /\ x.floor <= VersionOf(c)
    /\ x.pc # "trusted" => x.at = None
    /\ x.pc = "swap" /\ x.seen # None => x.snapshot.version = x.seen.version + 1
    /\ x.pc \in {"finish", "trusted"} =>
         /\ c # None /\ x.snapshot.version <= c.version /\ x.floor <= x.snapshot.version
         /\ x.snapshot.version = c.version => c = Wanted(x)
         /\ c.id # x.snapshot.id => x.snapshot.from <= m
         /\ x.at # None => x.at < x.snapshot.until

Active(x) == x.pc \notin {"idle", "denied"}

\* The checkpoints, and every call against the one of its scope.
TrustSafety ==
    /\ now \in 0 .. Horizon
    /\ supervisorCheckpoint # None => \E s \in Snapshots : supervisorCheckpoint = SupervisorCheckpoint(s)
    /\ DOMAIN executableCheckpoints = Signers
    /\ \A k \in Signers : executableCheckpoints[k] # None =>
         \E s \in Snapshots : s.signer = k /\ executableCheckpoints[k] = ExecutableCheckpoint(s)
    /\ movedAt \in [Scopes -> Nat]
    /\ DOMAIN readers = Readers
    /\ \A r \in Readers : Active(readers[r]) =>
         LET k == ScopeOf(readers[r]) IN CallIsSound(readers[r], Checkpoint(k), movedAt[k], now)
    /\ \A r, q \in Readers :
         (/\ readers[r].pc \in {"finish", "trusted"} /\ readers[q].pc \in {"finish", "trusted"}
          /\ ScopeOf(readers[r]) = ScopeOf(readers[q])
          /\ readers[r].snapshot.version = readers[q].snapshot.version)
           => readers[r].snapshot = readers[q].snapshot

\* A checkpoint stays, or is replaced by one of a higher version.
Ahead(k) ==
    \/ Checkpoint(k)' = Checkpoint(k) /\ movedAt'[k] = movedAt[k]
    \/ /\ Checkpoint(k)' # None
       /\ VersionOf(Checkpoint(k)) < Checkpoint(k)'.version
       /\ movedAt'[k] = now

\* What a checkpoint is made of.
LEMMA CheckpointFields ==
    ASSUME NEW s \in Snapshots
    PROVE  /\ SupervisorCheckpoint(s).id = s.id /\ SupervisorCheckpoint(s).version = s.version
           /\ ExecutableCheckpoint(s).id = s.id /\ ExecutableCheckpoint(s).version = s.version
  BY DEF SupervisorCheckpoint, ExecutableCheckpoint

\* Checkpoints have natural versions.
LEMMA VersionsAreNatural ==
    ASSUME SnapshotAssumption, TrustSafety, NEW k \in Scopes
    PROVE  /\ VersionOf(Checkpoint(k)) \in Nat
           /\ Checkpoint(k) # None => Checkpoint(k).version \in Nat /\ Checkpoint(k) \in Checkpoints
  BY CheckpointFields DEF TrustSafety, Checkpoint, VersionOf, Scopes, SnapshotAssumption, Checkpoints

\* A call under way is not disturbed by a checkpoint that moves ahead.
LEMMA AheadKeepsCall ==
    ASSUME SnapshotAssumption, TrustSafety, NEW x, NEW k \in Scopes, k = ScopeOf(x),
           CallIsSound(x, Checkpoint(k), movedAt[k], now),
           Ahead(k), now' \in Nat, now <= now', VersionOf(Checkpoint(k)') \in Nat
    PROVE  CallIsSound(x, Checkpoint(k)', movedAt'[k], now')
  <1>1. /\ x.snapshot \in Snapshots /\ x.floor \in Nat
        /\ x.snapshot.from \in Nat /\ x.snapshot.until \in Nat /\ x.snapshot.version \in Nat
    BY DEF CallIsSound, TrustCall, SnapshotAssumption
  <1>2. now \in Nat
    BY DEF TrustSafety, SnapshotAssumption
  <1>3. VersionOf(Checkpoint(k)) \in Nat /\ (Checkpoint(k) # None => Checkpoint(k).version \in Nat)
    BY VersionsAreNatural
  <1>4. CASE Checkpoint(k)' = Checkpoint(k) /\ movedAt'[k] = movedAt[k]
    BY <1>1, <1>2, <1>4 DEF CallIsSound
  <1>5. CASE Checkpoint(k)' # None /\ VersionOf(Checkpoint(k)) < Checkpoint(k)'.version /\ movedAt'[k] = now
    BY <1>1, <1>2, <1>3, <1>5 DEF CallIsSound, VersionOf
  <1> QED BY <1>4, <1>5 DEF Ahead
\* The stepping call r becomes x; every other call stays, and checkpoints only move ahead.
TrustStep(r, x) ==
    /\ readers' = [readers EXCEPT ![r] = x]
    /\ now' = now
    /\ \A k \in Scopes : Ahead(k)
    /\ supervisorCheckpoint' # None => \E s \in Snapshots : supervisorCheckpoint' = SupervisorCheckpoint(s)
    /\ DOMAIN executableCheckpoints' = Signers
    /\ \A k \in Signers : executableCheckpoints'[k] # None =>
         \E s \in Snapshots : s.signer = k /\ executableCheckpoints'[k] = ExecutableCheckpoint(s)
    /\ movedAt' \in [Scopes -> Nat]

\* x has no trust yet, or the checkpoint of its scope is the one it wants.
Arrives(x) == x.pc \in {"finish", "trusted"} => Checkpoint(ScopeOf(x))' = Wanted(x)

\* x goes on from where it already had the trust of its snapshot.
Remains(r, x) == readers[r].pc \in {"finish", "trusted"} /\ x.snapshot = readers[r].snapshot /\ x.source = readers[r].source

LEMMA ScopesOfCalls ==
    ASSUME NEW x, x \in TrustCall, x.snapshot.signer \in Signers
    PROVE  ScopeOf(x) \in Scopes
  BY DEF ScopeOf, Scopes, TrustCall

\* A step of one call keeps what is known of all.
LEMMA TrustStepKeeps ==
    ASSUME SnapshotAssumption, TrustSafety, NEW r \in Readers, NEW x, TrustStep(r, x),
           Active(x) => LET k == ScopeOf(x) IN CallIsSound(x, Checkpoint(k)', movedAt'[k], now'),
           Arrives(x) \/ Remains(r, x)
    PROVE  TrustSafety'
  <1>1. now' = now /\ now \in Nat /\ now' \in 0 .. Horizon
    BY DEF TrustStep, TrustSafety, SnapshotAssumption
  <1>2. DOMAIN readers' = Readers /\ readers'[r] = x /\ \A q \in Readers : q # r => readers'[q] = readers[q]
    BY DEF TrustStep, TrustSafety
  <1>3. \A k \in Scopes : VersionOf(Checkpoint(k)') \in Nat /\ (Checkpoint(k)' # None => Checkpoint(k)'.version \in Nat)
    BY CheckpointFields DEF TrustStep, Checkpoint, VersionOf, Scopes, SnapshotAssumption
  <1>4. ASSUME NEW q \in Readers, q # r, Active(readers[q])
        PROVE  /\ ScopeOf(readers[q]) \in Scopes
               /\ CallIsSound(readers[q], Checkpoint(ScopeOf(readers[q])), movedAt[ScopeOf(readers[q])], now)
    <2>1. CallIsSound(readers[q], Checkpoint(ScopeOf(readers[q])), movedAt[ScopeOf(readers[q])], now)
      BY <1>4 DEF TrustSafety
    <2>2. ScopeOf(readers[q]) \in Scopes
      BY <2>1, ScopesOfCalls DEF CallIsSound
    <2> QED BY <2>1, <2>2
  <1>5. ASSUME NEW q \in Readers, Active(readers'[q]), NEW k, k = ScopeOf(readers'[q])
        PROVE  CallIsSound(readers'[q], Checkpoint(k)', movedAt'[k], now')
    <2>1. CASE q = r
      BY <1>2, <1>5, <2>1
    <2>2. CASE q # r
      <3>1. Active(readers[q]) /\ readers'[q] = readers[q]
        BY <1>2, <1>5, <2>2
      <3>2. PICK y : y = readers[q]
        OBVIOUS
      <3>3. k = ScopeOf(y) /\ k \in Scopes /\ CallIsSound(y, Checkpoint(k), movedAt[k], now)
        BY <1>4, <1>5, <2>2, <3>1, <3>2
      <3>4. Ahead(k)
        BY <3>3 DEF TrustStep
      <3>5. CallIsSound(y, Checkpoint(k)', movedAt'[k], now')
        BY <1>1, <1>3, <3>3, <3>4, AheadKeepsCall
      <3> QED BY <3>1, <3>2, <3>5
    <2> QED BY <2>1, <2>2
  <1>6. ASSUME NEW p \in Readers, NEW q \in Readers,
               readers'[p].pc \in {"finish", "trusted"}, readers'[q].pc \in {"finish", "trusted"},
               ScopeOf(readers'[p]) = ScopeOf(readers'[q]),
               readers'[p].snapshot.version = readers'[q].snapshot.version,
               q # r
        PROVE  readers'[p].snapshot = readers'[q].snapshot
    <2>1. readers'[q] = readers[q]
      BY <1>2, <1>6
    <2>2. CASE p # r
      BY <1>2, <1>6, <2>2 DEF TrustSafety
    <2>3. CASE p = r /\ Remains(r, x)
      BY <1>2, <1>6, <2>3 DEF TrustSafety, Remains, ScopeOf
    <2>4. CASE p = r /\ Arrives(x)
      <3>1. Active(readers'[q]) /\ Active(x) /\ readers'[r] = x
        BY <1>2, <1>6, <2>4 DEF Active
      <3>2. PICK k : k = ScopeOf(x)
        OBVIOUS
      <3>3. CallIsSound(readers'[q], Checkpoint(k)', movedAt'[k], now')
        BY <1>2, <1>5, <1>6, <2>4, <3>1, <3>2
      <3>4. CallIsSound(x, Checkpoint(k)', movedAt'[k], now')
        BY <1>5, <1>2, <2>4, <3>1, <3>2
      <3>5. Checkpoint(k)' = Wanted(x)
        BY <1>2, <1>6, <2>4, <3>2 DEF Arrives
      <3>6. x.snapshot \in Snapshots /\ readers'[q].snapshot \in Snapshots
        BY <3>3, <3>4 DEF CallIsSound, TrustCall
      <3>7. Checkpoint(k)'.version = x.snapshot.version /\ Checkpoint(k)'.id = x.snapshot.id
        BY <3>5, <3>6, CheckpointFields DEF Wanted
      <3>8. Checkpoint(k)' = Wanted(readers'[q])
        BY <1>2, <1>6, <2>4, <3>3, <3>7 DEF CallIsSound
      <3>9. Wanted(readers'[q]).id = readers'[q].snapshot.id
        BY <3>6, CheckpointFields DEF Wanted
      <3> QED BY <1>2, <2>4, <3>6, <3>7, <3>8, <3>9 DEF SnapshotAssumption
    <2> QED BY <2>2, <2>3, <2>4
  <1>7. \A p, q \in Readers :
          (/\ readers'[p].pc \in {"finish", "trusted"} /\ readers'[q].pc \in {"finish", "trusted"}
           /\ ScopeOf(readers'[p]) = ScopeOf(readers'[q])
           /\ readers'[p].snapshot.version = readers'[q].snapshot.version)
            => readers'[p].snapshot = readers'[q].snapshot
    BY <1>6
  <1>8. ASSUME NEW q \in Readers, Active(readers'[q])
        PROVE  CallIsSound(readers[q], Checkpoint(ScopeOf(readers[q])), movedAt[ScopeOf(readers[q])], now)'
    <2>1. PICK k : k = ScopeOf(readers'[q])
      OBVIOUS
    <2>2. CallIsSound(readers'[q], Checkpoint(k)', movedAt'[k], now')
      BY <1>5, <1>8, <2>1
    <2>3. Checkpoint(ScopeOf(readers[q]))' = Checkpoint(k)'
      BY <2>1 DEF Checkpoint
    <2> QED BY <2>1, <2>2, <2>3
  <1> QED BY <1>1, <1>2, <1>7, <1>8 DEF TrustSafety, TrustStep
\* The checkpoints stay where they are.
Quiet(r, x) == readers' = [readers EXCEPT ![r] = x] /\ UNCHANGED <<now, supervisorCheckpoint, executableCheckpoints, movedAt>>

LEMMA QuietSteps ==
    ASSUME TrustSafety, NEW r \in Readers, NEW x, Quiet(r, x)
    PROVE  /\ TrustStep(r, x)
           /\ \A k : Checkpoint(k)' = Checkpoint(k) /\ movedAt'[k] = movedAt[k]
  BY DEF Quiet, TrustStep, Ahead, Checkpoint, TrustSafety, Scopes

\* A call that is denied is forgotten.
LEMMA DenialKeeps ==
    ASSUME SnapshotAssumption, TrustSafety, NEW r \in Readers, NEW x, Quiet(r, x), x.pc = "denied"
    PROVE  TrustSafety'
  BY QuietSteps, TrustStepKeeps DEF Active, Arrives

\* The facts of a call under way.
LEMMA CallFacts ==
    ASSUME SnapshotAssumption, TrustSafety, NEW r \in Readers, Active(readers[r]), NEW k, k = ScopeOf(readers[r])
    PROVE  /\ CallIsSound(readers[r], Checkpoint(k), movedAt[k], now)
           /\ readers[r] \in TrustCall /\ readers[r].snapshot \in Snapshots /\ readers[r].snapshot.signer \in Signers
           /\ readers[r].snapshot.version \in Nat /\ readers[r].snapshot.from \in Nat /\ readers[r].snapshot.until \in Nat
           /\ readers[r].floor \in Nat /\ k \in Scopes /\ now \in Nat /\ VersionOf(Checkpoint(k)) \in Nat
  <1>1. CallIsSound(readers[r], Checkpoint(k), movedAt[k], now)
    BY DEF TrustSafety
  <1>2. readers[r] \in TrustCall /\ readers[r].snapshot.signer \in Signers
    BY <1>1 DEF CallIsSound
  <1>3. k \in Scopes
    BY <1>2, ScopesOfCalls
  <1>4. readers[r].snapshot \in Snapshots /\ readers[r].floor \in Nat
    BY <1>2 DEF TrustCall
  <1> QED BY <1>1, <1>2, <1>3, <1>4, VersionsAreNatural DEF SnapshotAssumption, TrustSafety

\* read: an authentic snapshot becomes a call, with the version now in force as its floor.
LEMMA ReadKeeps ==
    ASSUME SnapshotAssumption, TrustSafety, NEW r \in Readers, NEW s \in Snapshots,
           readSupervisor(r, s) \/ readExecutable(r, s)
    PROVE  TrustSafety'
  <1>1. CASE Quiet(r, [pc |-> "denied"])
    BY <1>1, DenialKeeps
  <1>2. ASSUME NEW origin \in {"SUPERVISOR", "EXECUTABLE"},
               origin = "SUPERVISOR" => SupervisorAuthentic(s),
               origin = "EXECUTABLE" => ExecutableAuthentic(s),
               Quiet(r, Call(r, origin, s))
        PROVE  TrustSafety'
    <2>1. /\ s.signer \in Signers /\ s.from <= now /\ s.until - s.from <= MaxLifetime /\ s.version >= 1
      BY <1>2 DEF SupervisorAuthentic, ExecutableAuthentic, SupervisorSnapshot, ExecutableSnapshot,
                  SupervisorRoots, ExecutableRoots, Signers, Timely
    <2>2. PICK k : k = IF origin = "SUPERVISOR" THEN Instance ELSE s.signer
      OBVIOUS
    <2>3. k \in Scopes /\ Floor(origin, s.signer) = VersionOf(Checkpoint(k))
      BY <2>1, <2>2 DEF Scopes, Floor, VersionOf, Checkpoint, SnapshotAssumption
    <2>4. VersionOf(Checkpoint(k)) \in Nat
      BY <2>3, VersionsAreNatural
    <2>5. PICK x : x = Call(r, origin, s)
      OBVIOUS
    <2>6. /\ x \in TrustCall /\ x.pc = "checkpoint" /\ x.source = origin /\ x.snapshot = s /\ x.seen = None
          /\ x.floor = VersionOf(Checkpoint(k)) /\ x.at = None
      BY <2>3, <2>4, <2>5 DEF Call, TrustCall
    <2>7. ScopeOf(x) = k
      BY <2>2, <2>6 DEF ScopeOf
    <2>8. CallIsSound(x, Checkpoint(k), movedAt[k], now)
      BY <2>1, <2>4, <2>6 DEF CallIsSound
    <2>9. Quiet(r, x)
      BY <1>2, <2>5
    <2>10. TrustStep(r, x) /\ Checkpoint(k)' = Checkpoint(k) /\ movedAt'[k] = movedAt[k] /\ now' = now
      BY <2>9, QuietSteps DEF Quiet
    <2>11. CallIsSound(x, Checkpoint(k)', movedAt'[k], now') /\ Arrives(x)
      BY <2>6, <2>8, <2>10 DEF Arrives
    <2> QED BY <2>7, <2>10, <2>11, TrustStepKeeps
  <1> QED BY <1>1, <1>2 DEF readSupervisor, readExecutable, Move, checkpoints, Quiet

\* #advanceCheckpoint: the call finds its snapshot in force, or sees what it must replace.
LEMMA AdvanceKeeps ==
    ASSUME SnapshotAssumption, TrustSafety, NEW r \in Readers, Active(readers[r]),
           advanceSupervisor(r) \/ advanceExecutable(r)
    PROVE  TrustSafety'
  <1>1. PICK y, k, c : y = readers[r] /\ k = ScopeOf(y) /\ c = Checkpoint(k)
    OBVIOUS
  <1>2. /\ CallIsSound(y, c, movedAt[k], now) /\ y \in TrustCall /\ y.snapshot \in Snapshots
        /\ y.snapshot.signer \in Signers /\ y.snapshot.version \in Nat /\ y.floor \in Nat /\ k \in Scopes
    BY <1>1, CallFacts
  <1>3. c = IF y.source = "SUPERVISOR" THEN supervisorCheckpoint ELSE executableCheckpoints[y.snapshot.signer]
    BY <1>1, <1>2 DEF ScopeOf, Checkpoint, SnapshotAssumption
  <1>4. /\ y.pc = "checkpoint" /\ UNCHANGED <<now, supervisorCheckpoint, executableCheckpoints, movedAt>>
        /\ \/ c = Wanted(y) /\ \E pc \in {"finish", "trusted"} : readers' = [readers EXCEPT ![r] = [y EXCEPT !.pc = pc]]
           \/ /\ c # None => y.snapshot.version = c.version + 1
              /\ readers' = [readers EXCEPT ![r] = [y EXCEPT !.pc = "swap", !.seen = c]]
           \/ readers' = [readers EXCEPT ![r] = [y EXCEPT !.pc = "denied"]]
    BY <1>1, <1>3 DEF advanceSupervisor, advanceExecutable, At, Move, checkpoints, Wanted,
                      SupervisorSuccessor, ExecutableSuccessor
  <1>5. CASE c = Wanted(y) /\ \E pc \in {"finish", "trusted"} : readers' = [readers EXCEPT ![r] = [y EXCEPT !.pc = pc]]
    <2>1. PICK pc \in {"finish", "trusted"} : readers' = [readers EXCEPT ![r] = [y EXCEPT !.pc = pc]]
      BY <1>5
    <2>2. PICK x : x = [y EXCEPT !.pc = pc]
      OBVIOUS
    <2>3. /\ x \in TrustCall /\ x.pc = pc /\ x.source = y.source /\ x.snapshot = y.snapshot
          /\ x.floor = y.floor /\ x.at = None
      BY <1>2, <1>4, <2>1, <2>2 DEF TrustCall, CallIsSound
    <2>4. c = Wanted(x) /\ ScopeOf(x) = k
      BY <1>1, <1>5, <2>3 DEF Wanted, ScopeOf
    <2>5. c.version = y.snapshot.version /\ c.id = y.snapshot.id /\ c # None
      BY <1>2, <1>5, CheckpointFields DEF Wanted, SnapshotAssumption
    <2>6. CallIsSound(x, c, movedAt[k], now)
      BY <1>2, <2>1, <2>3, <2>4, <2>5 DEF CallIsSound, VersionOf
    <2>7. Quiet(r, x)
      BY <1>4, <2>1, <2>2 DEF Quiet
    <2>8. TrustStep(r, x) /\ Checkpoint(k)' = c /\ movedAt'[k] = movedAt[k] /\ now' = now
      BY <1>1, <2>7, QuietSteps DEF Quiet
    <2>9. CallIsSound(x, Checkpoint(k)', movedAt'[k], now') /\ Arrives(x)
      BY <2>4, <2>6, <2>8 DEF Arrives
    <2> QED BY <2>4, <2>8, <2>9, TrustStepKeeps
  <1>6. CASE /\ c # None => y.snapshot.version = c.version + 1
             /\ readers' = [readers EXCEPT ![r] = [y EXCEPT !.pc = "swap", !.seen = c]]
    <2>1. PICK x : x = [y EXCEPT !.pc = "swap", !.seen = c]
      OBVIOUS
    <2>2. c \in Checkpoints \cup {None}
      BY <1>1, <1>2, VersionsAreNatural
    <2>3. /\ x \in TrustCall /\ x.pc = "swap" /\ x.source = y.source /\ x.snapshot = y.snapshot
          /\ x.floor = y.floor /\ x.at = None /\ x.seen = c
      BY <1>2, <1>4, <2>1, <2>2 DEF TrustCall, CallIsSound
    <2>4. ScopeOf(x) = k
      BY <1>1, <2>3 DEF ScopeOf
    <2>5. CallIsSound(x, c, movedAt[k], now)
      BY <1>2, <1>6, <2>3 DEF CallIsSound
    <2>6. Quiet(r, x)
      BY <1>4, <1>6, <2>1 DEF Quiet
    <2>7. TrustStep(r, x) /\ Checkpoint(k)' = c /\ movedAt'[k] = movedAt[k] /\ now' = now
      BY <1>1, <2>6, QuietSteps DEF Quiet
    <2>8. CallIsSound(x, Checkpoint(k)', movedAt'[k], now') /\ Arrives(x)
      BY <2>3, <2>5, <2>7 DEF Arrives
    <2> QED BY <2>4, <2>7, <2>8, TrustStepKeeps
  <1>7. CASE readers' = [readers EXCEPT ![r] = [y EXCEPT !.pc = "denied"]]
    <2>1. [y EXCEPT !.pc = "denied"].pc = "denied"
      BY <1>2 DEF TrustCall
    <2> QED BY <1>4, <1>7, <2>1, DenialKeeps DEF Quiet
  <1> QED BY <1>4, <1>5, <1>6, <1>7

\* compareAndSwap: the checkpoint moves one version on, or the call that lost the race looks again.
LEMMA SwapKeeps ==
    ASSUME SnapshotAssumption, TrustSafety, NEW r \in Readers, Active(readers[r]), NEW answered \in BOOLEAN,
           swapSupervisor(r, answered) \/ swapExecutable(r, answered)
    PROVE  TrustSafety'
  <1>1. PICK y, k, c : y = readers[r] /\ k = ScopeOf(y) /\ c = Checkpoint(k)
    OBVIOUS
  <1>2. /\ CallIsSound(y, c, movedAt[k], now) /\ y \in TrustCall /\ y.snapshot \in Snapshots
        /\ y.snapshot.signer \in Signers /\ y.snapshot.version \in Nat /\ y.snapshot.from \in Nat
        /\ y.floor \in Nat /\ k \in Scopes /\ now \in Nat /\ VersionOf(c) \in Nat
    BY <1>1, CallFacts
  <1>3. y.source = "SUPERVISOR" \/ (y.source = "EXECUTABLE" /\ k = y.snapshot.signer /\ k # Instance)
    BY <1>1, <1>2 DEF TrustCall, ScopeOf, SnapshotAssumption
  <1>4. c = IF y.source = "SUPERVISOR" THEN supervisorCheckpoint ELSE executableCheckpoints[y.snapshot.signer]
    BY <1>1, <1>2, <1>3 DEF ScopeOf, Checkpoint
  <1>5. /\ y.pc = "swap" /\ now' = now
        /\ \/ /\ c = y.seen /\ movedAt' = [movedAt EXCEPT ![k] = now]
              /\ IF y.source = "SUPERVISOR"
                 THEN supervisorCheckpoint' = Wanted(y) /\ UNCHANGED executableCheckpoints
                 ELSE executableCheckpoints' = [executableCheckpoints EXCEPT ![k] = Wanted(y)] /\ UNCHANGED supervisorCheckpoint
              /\ \E pc \in {"finish", "trusted", "denied"} : readers' = [readers EXCEPT ![r] = [y EXCEPT !.pc = pc]]
           \/ /\ UNCHANGED <<supervisorCheckpoint, executableCheckpoints, movedAt>>
              /\ \E pc \in {"checkpoint", "denied"} : readers' = [readers EXCEPT ![r] = [y EXCEPT !.pc = pc, !.attempt = 2]]
    BY <1>1, <1>3, <1>4 DEF swapSupervisor, swapExecutable, At, Move, Wanted, ScopeOf
  <1>6. CASE /\ UNCHANGED <<supervisorCheckpoint, executableCheckpoints, movedAt>>
             /\ \E pc \in {"checkpoint", "denied"} : readers' = [readers EXCEPT ![r] = [y EXCEPT !.pc = pc, !.attempt = 2]]
    <2>1. PICK pc \in {"checkpoint", "denied"} : readers' = [readers EXCEPT ![r] = [y EXCEPT !.pc = pc, !.attempt = 2]]
      BY <1>6
    <2>2. PICK x : x = [y EXCEPT !.pc = pc, !.attempt = 2]
      OBVIOUS
    <2>3. /\ x \in TrustCall /\ x.pc = pc /\ x.source = y.source /\ x.snapshot = y.snapshot
          /\ x.floor = y.floor /\ x.at = None
      BY <1>2, <1>5, <2>1, <2>2 DEF TrustCall, CallIsSound
    <2>4. ScopeOf(x) = k
      BY <1>1, <2>3 DEF ScopeOf
    <2>5. CallIsSound(x, c, movedAt[k], now)
      BY <1>2, <2>1, <2>3 DEF CallIsSound
    <2>6. Quiet(r, x)
      BY <1>5, <1>6, <2>1, <2>2 DEF Quiet
    <2>7. TrustStep(r, x) /\ Checkpoint(k)' = c /\ movedAt'[k] = movedAt[k] /\ now' = now
      BY <1>1, <2>6, QuietSteps DEF Quiet
    <2>8. CallIsSound(x, Checkpoint(k)', movedAt'[k], now') /\ Arrives(x)
      BY <2>1, <2>3, <2>5, <2>7 DEF Arrives
    <2> QED BY <2>4, <2>7, <2>8, TrustStepKeeps
  <1>7. CASE /\ c = y.seen /\ movedAt' = [movedAt EXCEPT ![k] = now]
             /\ IF y.source = "SUPERVISOR"
                THEN supervisorCheckpoint' = Wanted(y) /\ UNCHANGED executableCheckpoints
                ELSE executableCheckpoints' = [executableCheckpoints EXCEPT ![k] = Wanted(y)] /\ UNCHANGED supervisorCheckpoint
             /\ \E pc \in {"finish", "trusted", "denied"} : readers' = [readers EXCEPT ![r] = [y EXCEPT !.pc = pc]]
    <2>1. PICK pc \in {"finish", "trusted", "denied"} : readers' = [readers EXCEPT ![r] = [y EXCEPT !.pc = pc]]
      BY <1>7
    <2>2. PICK x : x = [y EXCEPT !.pc = pc]
      OBVIOUS
    <2>3. /\ x \in TrustCall /\ x.pc = pc /\ x.source = y.source /\ x.snapshot = y.snapshot
          /\ x.floor = y.floor /\ x.at = None
      BY <1>2, <1>5, <2>1, <2>2 DEF TrustCall, CallIsSound
    <2>4. Wanted(y) = Wanted(x) /\ ScopeOf(x) = k
      BY <1>1, <2>3 DEF Wanted, ScopeOf
    <2>5. /\ Wanted(y).version = y.snapshot.version /\ Wanted(y).id = y.snapshot.id /\ Wanted(y) # None
      BY <1>2, CheckpointFields DEF Wanted, SnapshotAssumption
    <2>6. Checkpoint(k)' = Wanted(y)
      BY <1>1, <1>2, <1>3, <1>7 DEF Checkpoint, ScopeOf, TrustSafety
    <2>7. \A l \in Scopes : l # k => Checkpoint(l)' = Checkpoint(l) /\ movedAt'[l] = movedAt[l]
      BY <1>1, <1>2, <1>3, <1>7 DEF Checkpoint, Scopes, ScopeOf, TrustSafety
    <2>8. movedAt' \in [Scopes -> Nat] /\ movedAt'[k] = now
      BY <1>2, <1>7 DEF TrustSafety
    <2>9. VersionOf(c) < y.snapshot.version
      BY <1>2, <1>5, <1>7 DEF CallIsSound, VersionOf
    <2>10. Ahead(k)
      BY <1>1, <2>5, <2>6, <2>8, <2>9 DEF Ahead
    <2>11. \A l \in Scopes : Ahead(l)
      BY <2>7, <2>10 DEF Ahead
    <2>12. TrustStep(r, x)
      <3>1. supervisorCheckpoint' # None => \E s \in Snapshots : supervisorCheckpoint' = SupervisorCheckpoint(s)
        BY <1>2, <1>7 DEF Wanted, TrustSafety
      <3>2. /\ DOMAIN executableCheckpoints' = Signers
            /\ \A l \in Signers : executableCheckpoints'[l] # None =>
                 \E s \in Snapshots : s.signer = l /\ executableCheckpoints'[l] = ExecutableCheckpoint(s)
        BY <1>2, <1>3, <1>7 DEF Wanted, TrustSafety
      <3> QED BY <1>5, <2>1, <2>2, <2>8, <2>11, <3>1, <3>2 DEF TrustStep
    <2>13. Arrives(x)
      BY <2>4, <2>6 DEF Arrives
    <2>14. CallIsSound(x, Wanted(y), now, now)
      BY <1>2, <2>1, <2>3, <2>4, <2>5, <2>9 DEF CallIsSound, VersionOf
    <2>15. CallIsSound(x, Checkpoint(k)', movedAt'[k], now')
      BY <1>5, <2>6, <2>8, <2>14
    <2> QED BY <2>4, <2>12, <2>13, <2>15, TrustStepKeeps
  <1> QED BY <1>5, <1>6, <1>7

\* The rest of read, and the verifiers that were handed out.
LEMMA FinishKeeps ==
    ASSUME SnapshotAssumption, TrustSafety, NEW r \in Readers, Active(readers[r]),
           finishSupervisor(r) \/ verifyResponse(r) \/ verifyAuthorization(r) \/ storeFails(r)
    PROVE  TrustSafety'
  <1>1. PICK y, k : y = readers[r] /\ k = ScopeOf(y)
    OBVIOUS
  <1>2. CallIsSound(y, Checkpoint(k), movedAt[k], now) /\ y \in TrustCall /\ now \in Nat
    BY <1>1, CallFacts
  <1>3. /\ UNCHANGED <<now, supervisorCheckpoint, executableCheckpoints, movedAt>>
        /\ \/ y.pc = "finish" /\ readers' = [readers EXCEPT ![r] = [y EXCEPT !.pc = "trusted"]]
           \/ y.pc = "trusted" /\ now < y.snapshot.until /\ readers' = [readers EXCEPT ![r] = [y EXCEPT !.at = now]]
           \/ readers' = [readers EXCEPT ![r] = [y EXCEPT !.pc = "denied"]]
    BY <1>1 DEF finishSupervisor, verifyResponse, verifyAuthorization, storeFails,
                At, Move, Deny, checkpoints
  <1>4. ASSUME NEW x, x \in TrustCall, x.pc = "trusted", x.source = y.source, x.snapshot = y.snapshot,
               x.floor = y.floor, x.at # None => x.at < y.snapshot.until, y.pc \in {"finish", "trusted"},
               readers' = [readers EXCEPT ![r] = x]
        PROVE  TrustSafety'
    <2>1. ScopeOf(x) = k /\ Wanted(x) = Wanted(y)
      BY <1>1, <1>4 DEF ScopeOf, Wanted
    <2>2. CallIsSound(x, Checkpoint(k), movedAt[k], now)
      BY <1>2, <1>4, <2>1 DEF CallIsSound
    <2>3. Quiet(r, x)
      BY <1>3, <1>4 DEF Quiet
    <2>4. TrustStep(r, x) /\ Checkpoint(k)' = Checkpoint(k) /\ movedAt'[k] = movedAt[k] /\ now' = now
      BY <2>3, QuietSteps DEF Quiet
    <2>5. CallIsSound(x, Checkpoint(k)', movedAt'[k], now') /\ Remains(r, x)
      BY <1>1, <1>4, <2>2, <2>4 DEF Remains
    <2> QED BY <2>1, <2>4, <2>5, TrustStepKeeps
  <1>5. CASE y.pc = "finish" /\ readers' = [readers EXCEPT ![r] = [y EXCEPT !.pc = "trusted"]]
    <2>1. PICK x : x = [y EXCEPT !.pc = "trusted"]
      OBVIOUS
    <2>2. x \in TrustCall /\ x.pc = "trusted" /\ x.source = y.source /\ x.snapshot = y.snapshot /\ x.floor = y.floor /\ x.at = None
      BY <1>2, <1>5, <2>1 DEF TrustCall, CallIsSound
    <2> QED BY <1>4, <1>5, <2>1, <2>2
  <1>6. CASE y.pc = "trusted" /\ now < y.snapshot.until /\ readers' = [readers EXCEPT ![r] = [y EXCEPT !.at = now]]
    <2>1. PICK x : x = [y EXCEPT !.at = now]
      OBVIOUS
    <2>2. x \in TrustCall /\ x.pc = "trusted" /\ x.source = y.source /\ x.snapshot = y.snapshot /\ x.floor = y.floor /\ x.at = now
      BY <1>2, <1>6, <2>1 DEF TrustCall
    <2> QED BY <1>4, <1>6, <2>1, <2>2
  <1>7. CASE readers' = [readers EXCEPT ![r] = [y EXCEPT !.pc = "denied"]]
    <2>1. [y EXCEPT !.pc = "denied"].pc = "denied"
      BY <1>2 DEF TrustCall
    <2> QED BY <1>3, <1>7, <2>1, DenialKeeps DEF Quiet
  <1> QED BY <1>3, <1>5, <1>6, <1>7

\* Time passes under the calls.
LEMMA TrustTickKeeps ==
    ASSUME SnapshotAssumption, TrustSafety, TrustTick \/ UNCHANGED trustVars
    PROVE  TrustSafety'
  <1>1. /\ UNCHANGED <<supervisorCheckpoint, executableCheckpoints, movedAt, readers>>
        /\ now' \in 0 .. Horizon /\ now <= now' /\ now' \in Nat
    BY DEF TrustTick, trustVars, checkpoints, TrustSafety, SnapshotAssumption
  <1>2. ASSUME NEW r \in Readers, Active(readers[r])
        PROVE  CallIsSound(readers[r], Checkpoint(ScopeOf(readers[r])), movedAt[ScopeOf(readers[r])], now')
    <2>1. PICK x, k : x = readers[r] /\ k = ScopeOf(x)
      OBVIOUS
    <2>2. CallIsSound(x, Checkpoint(k), movedAt[k], now) /\ k \in Scopes /\ VersionOf(Checkpoint(k)) \in Nat
      BY <1>2, <2>1, CallFacts
    <2>3. Checkpoint(k)' = Checkpoint(k) /\ movedAt'[k] = movedAt[k]
      BY <1>1 DEF Checkpoint
    <2>4. CallIsSound(x, Checkpoint(k)', movedAt'[k], now')
      BY <1>1, <2>1, <2>2, <2>3, AheadKeepsCall DEF Ahead
    <2> QED BY <2>1, <2>3, <2>4
  <1>3. \A r \in Readers : Active(readers[r])' =>
          CallIsSound(readers[r], Checkpoint(ScopeOf(readers[r])), movedAt[ScopeOf(readers[r])], now)'
    BY <1>1, <1>2 DEF Checkpoint, ScopeOf, Active
  <1> QED BY <1>1, <1>3 DEF TrustSafety

\* The inductive invariant of the trust sources.
THEOREM TrustSourceSafety ==
    ASSUME SnapshotAssumption
    PROVE  TrustSpec => []TrustSafety
  <1>1. TrustInit => TrustSafety
    BY DEF TrustInit, TrustSafety, Scopes, Active, SnapshotAssumption
  <1>2. TrustSafety /\ [TrustNext]_(trustVars) => TrustSafety'
    <2> SUFFICES ASSUME TrustSafety, [TrustNext]_(trustVars) PROVE TrustSafety'
      OBVIOUS
    <2>1. CASE TrustTick \/ UNCHANGED trustVars
      BY <2>1, TrustTickKeeps
    <2>2. ASSUME NEW r \in Readers, NEW s \in Snapshots, readSupervisor(r, s) \/ readExecutable(r, s)
          PROVE  TrustSafety'
      BY <2>2, ReadKeeps
    <2>3. ASSUME NEW r \in Readers, Active(readers[r]),
                 \/ advanceSupervisor(r) \/ finishSupervisor(r) \/ verifyResponse(r)
                 \/ advanceExecutable(r) \/ verifyAuthorization(r) \/ storeFails(r)
                 \/ \E answered \in BOOLEAN : swapSupervisor(r, answered) \/ swapExecutable(r, answered)
          PROVE  TrustSafety'
      BY <2>3, AdvanceKeeps, FinishKeeps, SwapKeeps
    <2> QED BY <2>1, <2>2, <2>3 DEF TrustNext, Active
  <1> QED BY <1>1, <1>2, PTL DEF TrustSpec

\* A call trusts nothing older than what was in force when it began, and no two calls trust
\* two snapshots of one version, whichever call wins the checkpoint (read, compareAndSwap).
LEMMA VersionsAreMonotonic ==
    ASSUME SnapshotAssumption
    PROVE  TrustSafety => VersionsNeverGoBack
  <1>1. TrustSafety => VersionsNeverGoBack
    <2> SUFFICES ASSUME TrustSafety PROVE VersionsNeverGoBack
      OBVIOUS
    <2>1. ASSUME NEW r \in Readers, readers[r].pc = "trusted"
          PROVE  readers[r].snapshot.version >= readers[r].floor
      <3>1. PICK k : k = ScopeOf(readers[r])
        OBVIOUS
      <3>2. Active(readers[r])
        BY <2>1 DEF Active
      <3>3. /\ CallIsSound(readers[r], Checkpoint(k), movedAt[k], now)
            /\ readers[r].snapshot.version \in Nat /\ readers[r].floor \in Nat
        BY <3>1, <3>2, CallFacts
      <3> QED BY <2>1, <3>3 DEF CallIsSound
    <2>2. \A r : Scope(r) = ScopeOf(readers[r])
      BY DEF Scope, ScopeOf
    <2>3. \A r, q \in Readers :
            (/\ readers[r].pc = "trusted" /\ readers[q].pc = "trusted" /\ Scope(r) = Scope(q)
             /\ readers[r].snapshot.version = readers[q].snapshot.version)
              => readers[r].snapshot = readers[q].snapshot
      BY <2>2 DEF TrustSafety
    <2> QED BY <2>1, <2>3 DEF VersionsNeverGoBack
  <1> QED BY <1>1

\* A newer decision takes effect within the longest lifetime of a snapshot, for every
\* verifier that was handed out before (MAX_SNAPSHOT_LIFETIME_MS).
LEMMA RevocationIsBounded ==
    ASSUME SnapshotAssumption
    PROVE  TrustSafety => RevocationTakesEffect
  <1>1. TrustSafety => RevocationTakesEffect
    <2> SUFFICES ASSUME TrustSafety, NEW r \in Readers, readers[r].pc = "trusted", readers[r].at # None,
                        Current(Scope(r)) # readers[r].snapshot.id
                 PROVE  readers[r].at < movedAt[Scope(r)] + MaxLifetime
      BY DEF RevocationTakesEffect
    <2>1. PICK k : k = ScopeOf(readers[r])
      OBVIOUS
    <2>2. Active(readers[r])
      BY DEF Active
    <2>3. /\ CallIsSound(readers[r], Checkpoint(k), movedAt[k], now)
          /\ readers[r] \in TrustCall /\ readers[r].snapshot.from \in Nat /\ readers[r].snapshot.until \in Nat /\ k \in Scopes
      BY <2>1, <2>2, CallFacts
    <2>4. Scope(r) = k /\ Current(k) = Checkpoint(k).id
      BY <2>1 DEF Scope, ScopeOf, Current, Checkpoint
    <2>5. readers[r].at \in Nat /\ movedAt[k] \in Nat
      BY <2>3 DEF TrustCall, TrustSafety
    <2>6. readers[r].at < readers[r].snapshot.until /\ readers[r].snapshot.from <= movedAt[k]
          /\ readers[r].snapshot.until - readers[r].snapshot.from <= MaxLifetime
      BY <2>3, <2>4 DEF CallIsSound
    <2> QED BY <2>3, <2>4, <2>5, <2>6 DEF SnapshotAssumption
  <1> QED BY <1>1

\* The checkpoints are those of signed snapshots.
THEOREM TrustTypes ==
    ASSUME SnapshotAssumption
    PROVE  TrustSpec => []TrustTypeOK
  <1>1. TrustSafety => TrustTypeOK
    BY DEF TrustSafety, TrustTypeOK
  <1> QED BY <1>1, TrustSourceSafety, PTL

\* A call trusts nothing older than what was in force when it began, no two calls trust
\* two snapshots of one version, and a newer decision takes effect within the longest
\* lifetime of a snapshot (read, #advanceCheckpoint, compareAndSwap).
THEOREM TrustIsMonotonic ==
    ASSUME SnapshotAssumption
    PROVE  TrustSpec => []TrustNeverGoesBack
  <1>1. TrustSafety => TrustNeverGoesBack
    BY VersionsAreMonotonic, RevocationIsBounded DEF TrustNeverGoesBack
  <1> QED BY <1>1, TrustSourceSafety, PTL

-----------------------------------------------------------------------------
(* VoiceGateway *)

\* The states of a session that only a granted microphone leads to.
Talking == {"READY", "RECORDING", "TRANSCRIBING", "ROUTING", "RESPONDING"}

\* A remembered entry that may be replayed to p, given the sessions ss.
EntryIsSafe(p, x, ss) ==
    /\ ss[x.session] # None /\ ss[x.session].principal = p
    /\ x.response.kind # "sensitive" /\ x.response.size <= MaxText
    /\ x.transcript # None => x.transcript.kind # "sensitive"
    /\ x.outcome # "LEVEL_4" => x.required <= 3

\* A transcript the router saw, given the sessions ss and the used proofs.
RoutingIsSound(x, ss, used) ==
    /\ x.proof \in used
    /\ ss[x.session] # None /\ ss[x.session].permission = "GRANTED" /\ ss[x.session].principal = x.principal

VoiceSafety ==
    /\ VoiceTypeOK
    /\ \A s \in Sessions : sessions[s] # None /\ sessions[s].state \in Talking => sessions[s].permission = "GRANTED"
    /\ \A i \in DOMAIN routed : RoutingIsSound(routed[i], sessions, usedProofs)
    /\ \A i, j \in DOMAIN routed : routed[i].proof = routed[j].proof => i = j
    /\ \A p \in Principals : Len(memory[p]) <= MaxHistory
    /\ \A p \in Principals : \A i \in DOMAIN memory[p] : EntryIsSafe(p, memory[p][i], sessions)

\* The principal of a session, and a permission that was granted, are kept.
SessionsKept ==
    /\ sessions' \in [Sessions -> SessionRecord \cup {None}]
    /\ \A s \in Sessions : sessions'[s] # None /\ sessions'[s].state \in Talking => sessions'[s].permission = "GRANTED"
    /\ \A s \in Sessions : sessions[s] # None =>
         /\ sessions'[s] # None /\ sessions'[s].principal = sessions[s].principal
         /\ sessions[s].permission = "GRANTED" => sessions'[s].permission = "GRANTED"

\* A step that keeps the sessions and leaves transcripts alone keeps what is safe.
LEMMA QuietVoice ==
    ASSUME VoiceSafety, SessionsKept, now' \in 0 .. Horizon, UNCHANGED <<memory, usedProofs, usedSequences, routed>>
    PROVE  VoiceSafety'
<1>1. VoiceTypeOK'
  BY DEF VoiceSafety, SessionsKept, VoiceTypeOK
<1>2. \A i \in DOMAIN routed' : RoutingIsSound(routed'[i], sessions', usedProofs')
  <2>1. ASSUME NEW i \in DOMAIN routed
        PROVE  RoutingIsSound(routed[i], sessions', usedProofs)
    <3>1. routed \in Seq(RoutedRecord) /\ RoutingIsSound(routed[i], sessions, usedProofs)
      BY DEF VoiceSafety, VoiceTypeOK
    <3>2. routed[i] \in RoutedRecord
      BY <3>1
    <3>3. routed[i].session \in Sessions
      BY <3>2 DEF RoutedRecord
    <3> QED BY <3>1, <3>3 DEF SessionsKept, RoutingIsSound
  <2> QED BY <2>1
<1>3. \A p \in Principals : \A i \in DOMAIN memory'[p] : EntryIsSafe(p, memory'[p][i], sessions')
  <2>1. ASSUME NEW p \in Principals, NEW i \in DOMAIN memory[p]
        PROVE  EntryIsSafe(p, memory[p][i], sessions')
    <3>1. memory[p][i] \in MemoryRecord /\ EntryIsSafe(p, memory[p][i], sessions)
      BY DEF VoiceSafety, VoiceTypeOK
    <3>2. memory[p][i].session \in Sessions
      BY <3>1 DEF MemoryRecord
    <3> QED BY <3>1, <3>2 DEF SessionsKept, EntryIsSafe
  <2> QED BY <2>1
<1> QED BY <1>1, <1>2, <1>3 DEF VoiceSafety, SessionsKept

\* Entering a state keeps the sessions when the state fits the permission.
LEMMA Entering ==
    ASSUME OptionsAssumption, VoiceSafety, NEW s \in Sessions, sessions[s] # None,
           NEW state, NEW permission,
           [sessions[s] EXCEPT !.state = state, !.permission = permission] \in SessionRecord,
           sessions' = [sessions EXCEPT ![s].state = state, ![s].permission = permission],
           state \in Talking => permission = "GRANTED",
           sessions[s].permission = "GRANTED" => permission = "GRANTED"
    PROVE  SessionsKept
<1>1. sessions[s] \in SessionRecord
  BY DEF VoiceSafety, VoiceTypeOK
<1>2. sessions'[s] = [sessions[s] EXCEPT !.state = state, !.permission = permission]
  BY DEF VoiceSafety, VoiceTypeOK
<1>3. /\ sessions'[s].state = state /\ sessions'[s].permission = permission
      /\ sessions'[s].principal = sessions[s].principal
  BY <1>1, <1>2 DEF SessionRecord
<1>4. \A t \in Sessions : t # s => sessions'[t] = sessions[t]
  BY DEF VoiceSafety, VoiceTypeOK
<1>5. sessions'[s] # None /\ None \notin SessionRecord
  BY <1>2 DEF OptionsAssumption
<1>6. sessions' \in [Sessions -> SessionRecord \cup {None}]
  BY <1>2 DEF VoiceSafety, VoiceTypeOK
<1> QED BY <1>3, <1>4, <1>5, <1>6 DEF SessionsKept, VoiceSafety

\* The steps of a session that carry no transcript.
LEMMA SessionSteps ==
    ASSUME OptionsAssumption, VoiceSafety, NEW p \in Principals, NEW s \in Sessions,
           \/ requestMicrophonePermission(p, s)
           \/ \E result \in {"GRANTED", "DENIED", "UNAVAILABLE"} : recordMicrophonePermission(p, s, result)
           \/ pressToTalk(p, s) \/ releaseToTalk(p, s) \/ stop(p, s)
    PROVE  VoiceSafety'
<1>1. PICK state, permission :
        /\ Enter(s, state, permission) /\ sessions[s] # None
        /\ [sessions[s] EXCEPT !.state = state, !.permission = permission] \in SessionRecord
        /\ state \in Talking => permission = "GRANTED"
        /\ sessions[s].permission = "GRANTED" => permission = "GRANTED"
  <2>1. sessions[s] # None => sessions[s] \in SessionRecord
    BY DEF VoiceSafety, VoiceTypeOK
  <2>2. CASE requestMicrophonePermission(p, s)
    <3>1. /\ Enter(s, "REQUESTING_PERMISSION", "PROMPTING")
          /\ sessions[s] # None /\ sessions[s].permission = "NOT_REQUESTED"
      BY <2>2 DEF requestMicrophonePermission, requireSession
    <3>2. [sessions[s] EXCEPT !.state = "REQUESTING_PERMISSION", !.permission = "PROMPTING"] \in SessionRecord
      BY <2>1, <3>1 DEF SessionRecord
    <3> QED BY <3>1, <3>2 DEF Talking
  <2>3. ASSUME NEW result \in {"GRANTED", "DENIED", "UNAVAILABLE"}, recordMicrophonePermission(p, s, result)
        PROVE  \E state, permission :
                 /\ Enter(s, state, permission) /\ sessions[s] # None
                 /\ [sessions[s] EXCEPT !.state = state, !.permission = permission] \in SessionRecord
                 /\ state \in Talking => permission = "GRANTED"
                 /\ sessions[s].permission = "GRANTED" => permission = "GRANTED"
    <3>1. PICK state \in {"READY", "FAILED"} : state = IF result = "GRANTED" THEN "READY" ELSE "FAILED"
      OBVIOUS
    <3>2. /\ Enter(s, state, result) /\ sessions[s] # None /\ sessions[s].permission = "PROMPTING"
      BY <2>3, <3>1 DEF recordMicrophonePermission, requireSession
    <3>3. [sessions[s] EXCEPT !.state = state, !.permission = result] \in SessionRecord
      BY <2>1, <3>1, <3>2 DEF SessionRecord
    <3> QED BY <3>1, <3>2, <3>3 DEF Talking
  <2>4. ASSUME NEW state \in {"RECORDING", "TRANSCRIBING", "STOPPED"},
               Enter(s, state, sessions[s].permission), sessions[s] # None,
               state \in Talking => sessions[s].permission = "GRANTED"
        PROVE  \E st, permission :
                 /\ Enter(s, st, permission) /\ sessions[s] # None
                 /\ [sessions[s] EXCEPT !.state = st, !.permission = permission] \in SessionRecord
                 /\ st \in Talking => permission = "GRANTED"
                 /\ sessions[s].permission = "GRANTED" => permission = "GRANTED"
    <3>1. [sessions[s] EXCEPT !.state = state, !.permission = sessions[s].permission] \in SessionRecord
      BY <2>1, <2>4 DEF SessionRecord
    <3> QED BY <2>4, <3>1
  <2>5. CASE pressToTalk(p, s)
    <3>1. Enter(s, "RECORDING", sessions[s].permission) /\ sessions[s] # None /\ sessions[s].permission = "GRANTED"
      BY <2>5 DEF pressToTalk, requireSession
    <3> QED BY <2>4, <3>1
  <2>6. CASE releaseToTalk(p, s)
    <3>1. Enter(s, "TRANSCRIBING", sessions[s].permission) /\ sessions[s] # None /\ sessions[s].state = "RECORDING"
      BY <2>6 DEF releaseToTalk, requireSession
    <3>2. sessions[s].permission = "GRANTED"
      BY <3>1 DEF VoiceSafety, Talking
    <3> QED BY <2>4, <3>1, <3>2
  <2>7. CASE stop(p, s)
    <3>1. Enter(s, "STOPPED", sessions[s].permission) /\ sessions[s] # None /\ "STOPPED" \notin Talking
      BY <2>7 DEF stop, requireSession, Talking
    <3> QED BY <2>4, <3>1
  <2> QED BY <2>2, <2>3, <2>5, <2>6, <2>7
<1>2. SessionsKept
  BY <1>1, Entering DEF Enter
<1>3. now' \in 0 .. Horizon
  BY <1>1 DEF Enter, VoiceSafety, VoiceTypeOK
<1> QED BY <1>1, <1>2, <1>3, QuietVoice DEF Enter

\* A new session has no permission and no state in which it could talk.
LEMMA CreatingKeeps ==
    ASSUME OptionsAssumption, VoiceSafety, NEW p \in Principals, NEW s \in Sessions, NEW stt \in Adapters,
           NEW tts \in Adapters \cup {None}, NEW browser, NEW verified, createSession(p, s, stt, tts, browser, verified)
    PROVE  VoiceSafety'
<1> DEFINE new == [principal |-> p, state |-> "IDLE", permission |-> "NOT_REQUESTED", stt |-> stt, tts |-> tts]
<1>1. sessions[s] = None /\ sessions' = [sessions EXCEPT ![s] = new] /\ UNCHANGED <<now, memory, usedProofs, usedSequences, routed>>
  BY DEF createSession
<1>2. new \in SessionRecord
  BY DEF SessionRecord
<1>3. sessions \in [Sessions -> SessionRecord \cup {None}] /\ now \in 0 .. Horizon
  BY DEF VoiceSafety, VoiceTypeOK
<1>4. new.state \notin Talking /\ new # None
  BY <1>2 DEF Talking, OptionsAssumption
<1>5. SessionsKept
  BY <1>1, <1>2, <1>3, <1>4 DEF SessionsKept, VoiceSafety
<1> QED BY <1>1, <1>3, <1>5, QuietVoice

\* What the envelopes of a session are.
LEMMA EnvelopeFields ==
    ASSUME OptionsAssumption, NEW s \in Sessions, NEW e \in Envelopes(s)
    PROVE  e.session = s /\ e.proof \in Proofs /\ e.sequence \in SequenceNumbers /\ e.text \in Text
  BY DEF Envelopes, Text, OptionsAssumption

\* The history keeps its length and only gains the new entry.
LEMMA Storing ==
    ASSUME NEW S, NEW h \in Seq(S), NEW x \in S, MaxHistory \in Nat, Len(h) <= MaxHistory,
           NEW k, k = Tail(Append(h, x)) \/ (k = Append(h, x) /\ Len(k) <= MaxHistory)
    PROVE  /\ k \in Seq(S) /\ Len(k) <= MaxHistory
           /\ \A i \in DOMAIN k : k[i] = x \/ \E j \in DOMAIN h : k[i] = h[j]
<1>0. PICK long : long = Append(h, x)
  OBVIOUS
<1>1. /\ long \in Seq(S) /\ Len(long) = Len(h) + 1 /\ Len(h) \in Nat /\ DOMAIN h = 1 .. Len(h)
      /\ DOMAIN long = 1 .. Len(long) /\ \A i \in 1 .. Len(long) : long[i] = IF i = Len(long) THEN x ELSE h[i]
  BY <1>0
<1>2. /\ Tail(long) \in Seq(S) /\ Len(Tail(long)) = Len(h) /\ DOMAIN Tail(long) = 1 .. Len(h)
      /\ \A i \in 1 .. Len(h) : Tail(long)[i] = long[i + 1]
  BY <1>1
<1>3. CASE k = Tail(long)
  <2>1. ASSUME NEW i \in 1 .. Len(h)
        PROVE  k[i] = x \/ \E j \in DOMAIN h : k[i] = h[j]
    <3>1. k[i] = long[i + 1] /\ i + 1 \in 1 .. Len(long)
      BY <1>1, <1>2, <1>3
    <3> QED BY <1>1, <3>1
  <2> QED BY <1>2, <1>3, <2>1
<1>4. CASE k = long /\ Len(k) <= MaxHistory
  <2>1. k \in Seq(S) /\ DOMAIN k = 1 .. Len(k) /\ Len(k) = Len(h) + 1
    BY <1>1, <1>4
  <2>2. ASSUME NEW i \in 1 .. Len(k)
        PROVE  k[i] = x \/ \E j \in DOMAIN h : k[i] = h[j]
    <3>1. k[i] = long[i] /\ i \in 1 .. Len(long)
      BY <1>4
    <3>2. CASE i = Len(long)
      BY <1>1, <3>1, <3>2
    <3>3. CASE i # Len(long)
      <4>1. long[i] = h[i]
        BY <1>1, <3>1, <3>3, Zenon
      <4>2. i \in DOMAIN h
        BY <1>1, <3>1, <3>3
      <4> QED BY <3>1, <4>1, <4>2
    <3> QED BY <3>2, <3>3
  <2> QED BY <1>4, <2>1, <2>2
<1> QED BY <1>0, <1>3, <1>4

\* What routing a final transcript does, whichever port fails on the way.
LEMMA RoutingStep ==
    ASSUME OptionsAssumption, NEW p \in Principals, NEW s \in Sessions, NEW e \in Envelopes(s),
           NEW authority \in Authorities, NEW d \in Decisions, NEW fails \in Failures,
           Route(p, e, authority, d, fails)
    PROVE  /\ \E state \in {"ROUTING", "RESPONDING"} : sessions' = [sessions EXCEPT ![s].state = state]
           /\ \/ UNCHANGED memory
              \/ \E x \in MemoryRecord :
                   /\ storeHistory(p, x)
                   /\ x.session = s /\ x.response.kind # "sensitive" /\ x.response.size <= MaxText
                   /\ x.transcript # None => x.transcript.kind # "sensitive"
                   /\ x.outcome # "LEVEL_4" => x.required <= 3
           /\ \/ UNCHANGED routed
              \/ routed' = Append(routed, [session |-> s, proof |-> e.proof, principal |-> p])
<1>1. e.session = s /\ e.proof \in Proofs /\ e.sequence \in SequenceNumbers /\ e.text \in Text
  BY EnvelopeFields
<1>2. \E state \in {"ROUTING", "RESPONDING"} : sessions' = [sessions EXCEPT ![s].state = state]
  BY <1>1 DEF Route
<1>3. UNCHANGED routed \/ routed' = Append(routed, [session |-> s, proof |-> e.proof, principal |-> p])
  BY <1>1 DEF Route
<1>4. \/ UNCHANGED memory
      \/ storeHistory(p, Entry(e, Denial))
      \/ storeHistory(p, Entry(e, d)) /\ validateDecision(d, authority)
  BY DEF Route
<1>5. ASSUME NEW a, a.outcome \in {c.outcome : c \in Decisions} \cup {"DENY"}, a.required \in 0 .. 4, a.response \in Text, a.response.size <= MaxText,
             a.outcome # "LEVEL_4" => a.required <= 3, storeHistory(p, Entry(e, a))
      PROVE  \E x \in MemoryRecord :
               /\ storeHistory(p, x)
               /\ x.session = s /\ x.response.kind # "sensitive" /\ x.response.size <= MaxText
               /\ x.transcript # None => x.transcript.kind # "sensitive"
               /\ x.outcome # "LEVEL_4" => x.required <= 3
  <2>1. ASSUME NEW t \in Text
        PROVE  redact(t) \in Text /\ redact(t).kind # "sensitive"
    BY DEF redact, Text
  <2>2. redact(a.response).size <= MaxText
    BY <1>5 DEF redact, Text, OptionsAssumption
  <2>3. PICK r, t : /\ r = redact(a.response)
                    /\ t = IF e.retention = "REDACTED_SESSION" THEN redact(e.text) ELSE None
    OBVIOUS
  <2>4. /\ r \in Text /\ r.kind # "sensitive" /\ r.size <= MaxText
        /\ t \in Text \cup {None} /\ (t # None => t.kind # "sensitive")
    BY <1>1, <1>5, <2>1, <2>2, <2>3
  <2>5. Entry(e, a) = [session |-> s, proof |-> e.proof, outcome |-> a.outcome, required |-> a.required,
                             response |-> r, transcript |-> t]
    BY <1>1, <2>3 DEF Entry
  <2>6. Entry(e, a) \in MemoryRecord
    BY <1>1, <1>5, <2>4, <2>5 DEF MemoryRecord
  <2>7. /\ Entry(e, a).session = s /\ Entry(e, a).response = r /\ Entry(e, a).transcript = t
        /\ Entry(e, a).outcome = a.outcome /\ Entry(e, a).required = a.required
    BY <2>5
  <2> QED BY <1>5, <2>4, <2>6, <2>7
<1>9. MaxText \in Nat /\ MaxText >= 1
  BY DEF OptionsAssumption
<1>6. /\ Denial.outcome \in {c.outcome : c \in Decisions} \cup {"DENY"} /\ Denial.required \in 0 .. 4 /\ Denial.response \in Text
      /\ Denial.response.size <= MaxText /\ Denial.required <= 3
  <2>1. PICK r : r = [kind |-> "plain", size |-> 1]
    OBVIOUS
  <2>2. Denial = [linked |-> TRUE, outcome |-> "DENY", required |-> 0, target |-> None, response |-> r]
    BY <2>1 DEF Denial
  <2>3. Denial.response = r /\ Denial.required = 0 /\ Denial.outcome = "DENY"
    BY <2>2
  <2>4. r \in Text /\ r.size = 1
    BY <2>1 DEF Text
  <2>5. 0 \in 0 .. 4 /\ 0 <= 3 /\ 1 <= MaxText
    BY <1>9
  <2> QED BY <2>3, <2>4, <2>5
<1>7. ASSUME validateDecision(d, authority)
      PROVE  /\ d.outcome \in {c.outcome : c \in Decisions} \cup {"DENY"} /\ d.required \in 0 .. 4 /\ d.response \in Text /\ d.response.size <= MaxText
             /\ d.outcome # "LEVEL_4" => d.required <= 3
  BY <1>7 DEF OptionsAssumption, validateDecision, boundedText
<1>8. \/ UNCHANGED memory
      \/ \E x \in MemoryRecord :
           /\ storeHistory(p, x)
           /\ x.session = s /\ x.response.kind # "sensitive" /\ x.response.size <= MaxText
           /\ x.transcript # None => x.transcript.kind # "sensitive"
           /\ x.outcome # "LEVEL_4" => x.required <= 3
  <2>1. CASE storeHistory(p, Entry(e, Denial))
    BY <1>5, <1>6, <2>1
  <2>2. CASE storeHistory(p, Entry(e, d)) /\ validateDecision(d, authority)
    BY <1>5, <1>7, <2>2
  <2> QED BY <1>4, <2>1, <2>2
<1> QED BY <1>2, <1>3, <1>8

\* A proof that is routed was not used before, and the session it is routed
\* for is one in which its principal granted the microphone.
LEMMA RoutingKeeps ==
    ASSUME OptionsAssumption, VoiceSafety, NEW p \in Principals, NEW s \in Sessions, NEW e \in Envelopes(s),
           routeFinalTranscript(p, e)
    PROVE  VoiceSafety'
<1>1. e.session = s /\ e.proof \in Proofs /\ e.sequence \in SequenceNumbers
  BY EnvelopeFields
<1>0. PICK authority \in Authorities, d \in Decisions, fails \in Failures : Route(p, e, authority, d, fails)
  BY DEF routeFinalTranscript
<1>2. /\ sessions[s] # None /\ sessions[s].principal = p /\ sessions[s].state = "TRANSCRIBING"
      /\ e.proof \notin usedProofs /\ UNCHANGED now
      /\ usedProofs' = usedProofs \cup {e.proof} /\ usedSequences' = usedSequences \cup {<<s, e.sequence>>}
      /\ Route(p, e, authority, d, fails)
  BY <1>0, <1>1 DEF routeFinalTranscript, requireSession, NewTranscript
<1>3. sessions[s] \in SessionRecord /\ sessions[s].permission = "GRANTED" /\ None \notin SessionRecord
  BY <1>2 DEF VoiceSafety, VoiceTypeOK, Talking, OptionsAssumption
<1>4. PICK state \in {"ROUTING", "RESPONDING"} : sessions' = [sessions EXCEPT ![s].state = state]
  BY <1>2, RoutingStep
<1>5. SessionsKept
  <2>1. sessions \in [Sessions -> SessionRecord \cup {None}]
    BY DEF VoiceSafety, VoiceTypeOK
  <2>2. sessions'[s] = [sessions[s] EXCEPT !.state = state] /\ \A t \in Sessions : t # s => sessions'[t] = sessions[t]
    BY <1>4, <2>1
  <2>3. /\ sessions'[s] \in SessionRecord
        /\ sessions'[s].permission = "GRANTED" /\ sessions'[s].principal = sessions[s].principal
    BY <1>3, <2>2 DEF SessionRecord
  <2>4. sessions' \in [Sessions -> SessionRecord \cup {None}]
    BY <1>4, <2>1, <2>2, <2>3
  <2> QED BY <1>3, <2>2, <2>3, <2>4 DEF SessionsKept, VoiceSafety
<1>6. sessions'[s] # None /\ sessions'[s].principal = p /\ sessions'[s].permission = "GRANTED"
  BY <1>2, <1>3, <1>5 DEF SessionsKept
<1>7. usedProofs' \subseteq Proofs /\ usedSequences' \subseteq Sessions \X SequenceNumbers /\ now' \in 0 .. Horizon
  BY <1>1, <1>2 DEF VoiceSafety, VoiceTypeOK
<1>8. /\ routed' \in Seq(RoutedRecord)
      /\ \A i \in DOMAIN routed' : RoutingIsSound(routed'[i], sessions', usedProofs')
      /\ \A i, j \in DOMAIN routed' : routed'[i].proof = routed'[j].proof => i = j
  <2>1. routed \in Seq(RoutedRecord)
    BY DEF VoiceSafety, VoiceTypeOK
  <2>2. ASSUME NEW i \in DOMAIN routed
        PROVE  RoutingIsSound(routed[i], sessions', usedProofs') /\ routed[i].proof # e.proof
    <3>1. routed[i] \in RoutedRecord /\ RoutingIsSound(routed[i], sessions, usedProofs)
      BY <2>1 DEF VoiceSafety
    <3>2. routed[i].session \in Sessions
      BY <3>1 DEF RoutedRecord
    <3> QED BY <1>2, <1>5, <3>1, <3>2 DEF SessionsKept, RoutingIsSound
  <2>3. CASE UNCHANGED routed
    BY <2>1, <2>2, <2>3 DEF VoiceSafety
  <2>4. CASE routed' = Append(routed, [session |-> s, proof |-> e.proof, principal |-> p])
    <3>1. PICK r : r = [session |-> s, proof |-> e.proof, principal |-> p]
      OBVIOUS
    <3>2. r \in RoutedRecord /\ r.proof = e.proof /\ r.session = s /\ r.principal = p
      BY <1>1, <3>1 DEF RoutedRecord
    <3>3. RoutingIsSound(r, sessions', usedProofs')
      BY <1>2, <1>6, <3>2 DEF RoutingIsSound
    <3>4. /\ routed' \in Seq(RoutedRecord) /\ DOMAIN routed = 1 .. Len(routed) /\ Len(routed) \in Nat
          /\ DOMAIN routed' = 1 .. Len(routed) + 1
          /\ \A i \in DOMAIN routed' : routed'[i] = IF i = Len(routed) + 1 THEN r ELSE routed[i]
      BY <2>1, <2>4, <3>1, <3>2
    <3>5. \A i \in DOMAIN routed' : i \in DOMAIN routed \/ i = Len(routed) + 1
      BY <3>4
    <3>6. \A i \in DOMAIN routed' : RoutingIsSound(routed'[i], sessions', usedProofs')
      BY <2>2, <3>3, <3>4, <3>5
    <3>7. \A i, j \in DOMAIN routed' : routed'[i].proof = routed'[j].proof => i = j
      BY <2>2, <3>2, <3>4, <3>5 DEF VoiceSafety
    <3> QED BY <3>4, <3>6, <3>7
  <2>5. UNCHANGED routed \/ routed' = Append(routed, [session |-> s, proof |-> e.proof, principal |-> p])
    BY <1>2, RoutingStep
  <2> QED BY <2>3, <2>4, <2>5
<1>9. /\ memory' \in [Principals -> Seq(MemoryRecord)]
      /\ \A q \in Principals : Len(memory'[q]) <= MaxHistory
      /\ \A q \in Principals : \A i \in DOMAIN memory'[q] : EntryIsSafe(q, memory'[q][i], sessions')
  <2>1. memory \in [Principals -> Seq(MemoryRecord)] /\ \A q \in Principals : Len(memory[q]) <= MaxHistory
    BY DEF VoiceSafety, VoiceTypeOK
  <2>2. ASSUME NEW q \in Principals, NEW i \in DOMAIN memory[q]
        PROVE  EntryIsSafe(q, memory[q][i], sessions')
    <3>1. memory[q][i] \in MemoryRecord /\ EntryIsSafe(q, memory[q][i], sessions)
      BY <2>1 DEF VoiceSafety
    <3>2. memory[q][i].session \in Sessions
      BY <3>1 DEF MemoryRecord
    <3> QED BY <1>5, <3>1, <3>2 DEF SessionsKept, EntryIsSafe
  <2>3. CASE UNCHANGED memory
    BY <2>1, <2>2, <2>3
  <2>4. ASSUME NEW x \in MemoryRecord, storeHistory(p, x),
               x.session = s /\ x.response.kind # "sensitive" /\ x.response.size <= MaxText,
               x.transcript # None => x.transcript.kind # "sensitive",
               x.outcome # "LEVEL_4" => x.required <= 3
        PROVE  /\ memory' \in [Principals -> Seq(MemoryRecord)]
               /\ \A q \in Principals : Len(memory'[q]) <= MaxHistory
               /\ \A q \in Principals : \A i \in DOMAIN memory'[q] : EntryIsSafe(q, memory'[q][i], sessions')
    <3>1. EntryIsSafe(p, x, sessions')
      BY <1>6, <2>4 DEF EntryIsSafe
    <3>2. PICK h, k : h = memory[p] /\ k = IF Len(Append(h, x)) > MaxHistory THEN Tail(Append(h, x)) ELSE Append(h, x)
      OBVIOUS
    <3>3. memory' = [memory EXCEPT ![p] = k]
      BY <2>4, <3>2 DEF storeHistory
    <3>4. h \in Seq(MemoryRecord) /\ Len(h) <= MaxHistory /\ MaxHistory \in Nat
      BY <2>1, <3>2 DEF OptionsAssumption
    <3>7. k = Tail(Append(h, x)) \/ (k = Append(h, x) /\ Len(k) <= MaxHistory)
      <4>1. Len(h) \in Nat /\ Len(Append(h, x)) = Len(h) + 1
        BY <2>4, <3>4
      <4>2. Len(Append(h, x)) > MaxHistory => Len(Tail(Append(h, x))) = Len(h)
        BY <2>4, <3>4, <4>1
      <4> QED BY <3>2, <3>4, <4>1, <4>2
    <3>5. /\ k \in Seq(MemoryRecord) /\ Len(k) <= MaxHistory
          /\ \A i \in DOMAIN k : k[i] = x \/ \E j \in DOMAIN h : k[i] = h[j]
      <4>1. PICK S : S = MemoryRecord
        OBVIOUS
      <4>2. h \in Seq(S) /\ x \in S /\ MaxHistory \in Nat /\ Len(h) <= MaxHistory
        BY <2>4, <3>4, <4>1
      <4>3. k \in Seq(S) /\ Len(k) <= MaxHistory /\ \A i \in DOMAIN k : k[i] = x \/ \E j \in DOMAIN h : k[i] = h[j]
        BY <3>7, <4>2, Storing
      <4> QED BY <4>1, <4>3
    <3>6. \A i \in DOMAIN k : EntryIsSafe(p, k[i], sessions')
      BY <2>2, <3>1, <3>2, <3>5
    <3> QED BY <2>1, <2>2, <3>3, <3>5, <3>6
  <2> QED BY <1>2, <2>3, <2>4, RoutingStep
<1> QED BY <1>5, <1>7, <1>8, <1>9 DEF VoiceSafety, VoiceTypeOK, SessionsKept

\* The gateway keeps what is safe, whatever its callers and its ports do.
THEOREM VoiceIsSafe == ASSUME OptionsAssumption PROVE VoiceSpec => []VoiceSafety
<1>1. VoiceInit => VoiceSafety
  <2> SUFFICES ASSUME VoiceInit PROVE VoiceSafety
    OBVIOUS
  <2>1. VoiceTypeOK
    BY DEF VoiceInit, VoiceTypeOK, OptionsAssumption
  <2>2. \A s \in Sessions : sessions[s] = None
    BY DEF VoiceInit
  <2>3. routed = <<>> /\ DOMAIN routed = {} /\ \A p \in Principals : memory[p] = <<>> /\ Len(memory[p]) = 0 /\ DOMAIN memory[p] = {}
    BY DEF VoiceInit
  <2> QED BY <2>1, <2>2, <2>3 DEF VoiceSafety, OptionsAssumption
<1>2. VoiceSafety /\ [VoiceNext]_(voiceVars) => VoiceSafety'
  <2> SUFFICES ASSUME VoiceSafety, [VoiceNext]_(voiceVars) PROVE VoiceSafety'
    OBVIOUS
  <2>1. ASSUME UNCHANGED sessions, now' \in 0 .. Horizon, UNCHANGED <<memory, usedProofs, usedSequences, routed>>
        PROVE  VoiceSafety'
    <3>1. SessionsKept
      BY <2>1 DEF VoiceSafety, VoiceTypeOK, SessionsKept
    <3> QED BY <2>1, <3>1, QuietVoice
  <2>2. now \in 0 .. Horizon /\ Horizon \in Nat
    BY DEF VoiceSafety, VoiceTypeOK, OptionsAssumption
  <2>3. CASE VoiceTick
    BY <2>1, <2>2, <2>3 DEF VoiceTick
  <2>4. ASSUME NEW p, NEW a, NEW offer, NEW verifiedAt, NEW verified, registerAdapter(p, a, offer, verifiedAt, verified)
        PROVE  VoiceSafety'
    BY <2>1, <2>2, <2>4 DEF registerAdapter
  <2>5. ASSUME NEW p \in Principals, NEW s \in Sessions, NEW stt \in Adapters, NEW tts \in Adapters \cup {None},
               NEW verified \in BOOLEAN, NEW browser \in {{}, {"MICROPHONE", "STT"}},
               createSession(p, s, stt, tts, browser, verified)
        PROVE  VoiceSafety'
    BY <2>5, CreatingKeeps
  <2>6. CASE UNCHANGED voiceVars
    BY <2>1, <2>2, <2>6 DEF voiceVars
  <2>7. ASSUME NEW p \in Principals, NEW s \in Sessions,
               \/ requestMicrophonePermission(p, s)
               \/ \E result \in {"GRANTED", "DENIED", "UNAVAILABLE"} : recordMicrophonePermission(p, s, result)
               \/ pressToTalk(p, s) \/ releaseToTalk(p, s) \/ stop(p, s)
        PROVE  VoiceSafety'
    BY <2>7, SessionSteps
  <2>8. ASSUME NEW p \in Principals, NEW s \in Sessions, NEW e \in Envelopes(s), routeFinalTranscript(p, e)
        PROVE  VoiceSafety'
    BY <2>8, RoutingKeeps
  <2>9. CASE VoiceNext
    BY <2>3, <2>4, <2>5, <2>7, <2>8, <2>9 DEF VoiceNext
  <2> QED BY <2>6, <2>9
<1> QED BY <1>1, <1>2, PTL DEF VoiceSpec

\* Sessions, histories and what was routed keep their types.
THEOREM VoiceTypes == ASSUME OptionsAssumption PROVE VoiceSpec => []VoiceTypeOK
<1>1. VoiceSafety => VoiceTypeOK
  BY DEF VoiceSafety
<1> QED BY <1>1, VoiceIsSafe, PTL

\* The router sees a transcript once, and only one that was recorded with the
\* microphone granted by the principal it is routed for; the history of a principal
\* never holds more than its limit, another principal's words or anything sensitive
\* (routeFinalTranscript, #storeHistory, redact).
THEOREM TranscriptsAreRoutedOnce == ASSUME OptionsAssumption PROVE VoiceSpec => []TranscriptsRouteOnce
<1>1. VoiceSafety => RoutedOnce
  BY DEF VoiceSafety, RoutedOnce, RoutingIsSound
<1>2. VoiceSafety => HistoryIsSafe
  BY DEF VoiceSafety, HistoryIsSafe, EntryIsSafe
<1>3. VoiceSafety => TranscriptsRouteOnce
  BY <1>1, <1>2 DEF TranscriptsRouteOnce
<1> QED BY <1>3, VoiceIsSafe, PTL

(***************************************************************************)
(* Modules.                                                                *)
(***************************************************************************)

\* A sequence, of whatever it holds: a snapshot holds its predecessor.
IsSequence(s) == \E T : s \in Seq(T)

LEMMA EmptySequence ==
    IsSequence(<<>>) /\ DOMAIN <<>> = {}
<1>1. <<>> \in Seq({})
  OBVIOUS
<1> QED BY <1>1 DEF IsSequence

LEMMA AppendSequence ==
    ASSUME NEW s, NEW e, IsSequence(s)
    PROVE  /\ IsSequence(Append(s, e))
           /\ Len(s) \in Nat
           /\ DOMAIN s = 1 .. Len(s)
           /\ DOMAIN Append(s, e) = 1 .. Len(s) + 1
           /\ \A j \in DOMAIN s : Append(s, e)[j] = s[j]
           /\ Append(s, e)[Len(s) + 1] = e
<1>1. PICK T : s \in Seq(T)
  BY DEF IsSequence
<1> DEFINE S == T \cup {e}
<1>2. s \in Seq(S) /\ e \in S
  BY <1>1
<1>3. Append(s, e) \in Seq(S)
  BY <1>2
<1> QED BY <1>2, <1>3 DEF IsSequence

LEMMA LastOfSequence ==
    ASSUME NEW s, IsSequence(s), s # <<>>
    PROVE  /\ Len(s) \in DOMAIN s
           /\ Last(s) = s[Len(s)]
<1>1. PICK T : s \in Seq(T)
  BY DEF IsSequence
<1> QED BY <1>1 DEF Last

-----------------------------------------------------------------------------

\* The convention that what is not there is no record.
NoneIsNoRecord ==
    /\ \A id, version, prev, signer, issuedAt, until, grants :
         [id |-> id, version |-> version, prev |-> prev, signer |-> signer, issuedAt |-> issuedAt, until |-> until,
          grants |-> grants] # None
    /\ \A s, g : [snapshot |-> s, grants |-> g] # None
    /\ \A k, m, f, r, b : [kind |-> k, module |-> m, file |-> f, read |-> r, bytes |-> b] # None

IsRow(s, rows) == \E j \in DOMAIN rows : rows[j].snapshot = s

\* A load under way, whatever is in its fields.
IsLoad(x) ==
    \E T : x \in [pc : T, kind : T, roots : T, snapshot : T, seen : T, attempt : T, view : T, file : T, read : T,
                  loaded : T]

GrantOf(x) == x.snapshot.grants[x.kind]

\* The stages with a grant, those of the synchronous calls on the host, and
\* those in which the retained module of the kind matters.
Granting == {"recheck", "locking", "granted", "verified", "open", "digested", "mapped", "opened", "loaded"}
Busy == {"verified", "open", "digested", "mapped", "opened"}
Binding == {"digested", "mapped", "opened", "loaded"}

\* The bytes that were digested are still in the file, unless it was written since.
ReadHolds(x, contents) ==
    /\ x.read.image = GrantOf(x).module.image
    /\ x.read.writes \in Nat /\ x.read.writes <= contents[x.file].writes
    /\ contents[x.file].writes = x.read.writes => contents[x.file].image = x.read.image

\* A module that was mapped.
MappingIsSound(m, rows) ==
    /\ m.file = m.module.file /\ m.read.image = m.module.image
    /\ m.bytes.writes = m.read.writes => m.bytes.image = m.module.image
    /\ \E j \in DOMAIN rows : Names(rows[j], m)

IsMapping(m, maps) == \E i \in DOMAIN maps : maps[i] = m

\* What a load has in its hands, from the rows it has read and the files it has
\* looked at; kept is the module of each kind, maps is all that was mapped.
LoadIsSound(x, rows, contents, kept, maps) ==
    x.pc \notin {"idle", "denied"} =>
        /\ IsLoad(x) /\ x.kind \in Kinds
        /\ x.pc \notin {"roots", "snapshot"} =>
             IsRow(x.snapshot, rows) /\ \E root \in x.roots : root.signer = x.snapshot.signer
        /\ x.pc = "swap" => Successor(x.seen, x.snapshot)
        /\ x.pc \in Granting => GrantOf(x) # None
        /\ x.pc \in {"open", "digested"} => x.file \in Files /\ x.file = GrantOf(x).module.file
        /\ x.pc = "digested" => ReadHolds(x, contents)
        /\ x.pc \in {"digested", "mapped"} => kept[x.kind] = None
        /\ x.pc = "mapped" => IsMapping(x.loaded, maps)
        /\ x.pc \in {"opened", "loaded"} => x.loaded = kept[x.kind]
        /\ x.pc \in {"mapped", "opened", "loaded"} =>
             x.loaded # None /\ x.loaded.kind = x.kind /\ x.loaded.module = GrantOf(x).module

ModuleShape ==
    /\ DOMAIN registry = RootSigners /\ \A r \in RootSigners : IsSequence(registry[r])
    /\ IsSequence(published) /\ IsSequence(mapped)
    /\ DOMAIN loaders = Loaders /\ DOMAIN retained = Kinds
    /\ disk \in [Kinds -> Files] /\ bytes \in [Files -> [image : Images, writes : Nat]]

VersionsHaveNoGaps ==
    /\ \A r \in RootSigners : \A j \in DOMAIN registry[r] : registry[r][j].version = j
    /\ \A j \in DOMAIN published : published[j].snapshot.version = j

\* Each snapshot names the one before it.
SnapshotsAreChained ==
    \A j \in DOMAIN published :
        published[j].snapshot.prev = IF j = 1 THEN None ELSE published[j - 1].snapshot

MappingsAreSound == \A i \in DOMAIN mapped : MappingIsSound(mapped[i], published)

RetainedIsMapped ==
    \A k \in Kinds : retained[k] # None => retained[k].kind = k /\ IsMapping(retained[k], mapped)

\* The calls on the host are of one load at a time.
OneLoadAtATime ==
    \A l, m \in Loaders : loaders[l].pc \in Busy /\ loaders[m].pc \in Busy => l = m

LoadsAreSound == \A l \in Loaders : LoadIsSound(loaders[l], published, bytes, retained, mapped)

ModuleSafety ==
    /\ ModuleShape
    /\ VersionsHaveNoGaps /\ SnapshotsAreChained
    /\ MappingsAreSound /\ RetainedIsMapped
    /\ OneLoadAtATime /\ LoadsAreSound

LEMMA ModuleInitSafety == ModuleInit => ModuleSafety
<1> SUFFICES ASSUME ModuleInit PROVE ModuleSafety
  OBVIOUS
<1> USE EmptySequence DEF ModuleInit
<1>1. ModuleShape
  BY DEF ModuleShape
<1>2. VersionsHaveNoGaps /\ SnapshotsAreChained
  BY DEF VersionsHaveNoGaps, SnapshotsAreChained
<1>3. MappingsAreSound /\ RetainedIsMapped
  BY DEF MappingsAreSound, RetainedIsMapped
<1>4. OneLoadAtATime /\ LoadsAreSound
  BY DEF OneLoadAtATime, Busy, LoadsAreSound, LoadIsSound, Idle
<1> QED BY <1>1, <1>2, <1>3, <1>4 DEF ModuleSafety

-----------------------------------------------------------------------------
(* What stays sound. *)

\* The rows, or the mappings, that are there stay there.
Grows(rows, more) == \A j \in DOMAIN rows : j \in DOMAIN more /\ more[j] = rows[j]

\* A file stays as it is or is written once more.
FilesMove(contents, later) == \A f \in Files : later[f] = contents[f] \/ later[f].writes > contents[f].writes

LEMMA MappingStays ==
    ASSUME NEW m, NEW rows, NEW more, MappingIsSound(m, rows), Grows(rows, more)
    PROVE  MappingIsSound(m, more)
<1>1. \E j \in DOMAIN more : Names(more[j], m)
  BY DEF MappingIsSound, Grows
<1> QED BY <1>1 DEF MappingIsSound

\* A load that does not move stays sound, when nothing is taken away and the
\* retained module of its kind stays.
LEMMA SoundnessStays ==
    ASSUME NEW x, NEW rows, NEW more, NEW contents \in [Files -> [image : Images, writes : Nat]],
           NEW later \in [Files -> [image : Images, writes : Nat]], NEW kept, NEW held, NEW maps, NEW longer,
           LoadIsSound(x, rows, contents, kept, maps), Grows(rows, more), Grows(maps, longer), FilesMove(contents, later),
           x.pc \in Binding => held[x.kind] = kept[x.kind]
    PROVE  LoadIsSound(x, more, later, held, longer)
<1> SUFFICES ASSUME x.pc \notin {"idle", "denied"} PROVE LoadIsSound(x, more, later, held, longer)
  BY DEF LoadIsSound
<1>1. IsRow(x.snapshot, rows) => IsRow(x.snapshot, more)
  BY DEF IsRow, Grows
<1>2. IsMapping(x.loaded, maps) => IsMapping(x.loaded, longer)
  BY DEF IsMapping, Grows
<1>3. x.pc = "digested" => ReadHolds(x, later)
  <2> SUFFICES ASSUME x.pc = "digested" PROVE ReadHolds(x, later)
    OBVIOUS
  <2>1. x.file \in Files /\ ReadHolds(x, contents)
    BY DEF LoadIsSound
  <2>2. contents[x.file].writes \in Nat /\ later[x.file].writes \in Nat
    BY <2>1
  <2>3. later[x.file] = contents[x.file] \/ later[x.file].writes > contents[x.file].writes
    BY <2>1 DEF FilesMove
  <2> QED BY <2>1, <2>2, <2>3 DEF ReadHolds
<1>4. /\ x.pc \in {"digested", "mapped"} => held[x.kind] = None
      /\ x.pc \in {"opened", "loaded"} => x.loaded = held[x.kind]
  BY DEF LoadIsSound, Binding
<1> QED BY <1>1, <1>2, <1>3, <1>4 DEF LoadIsSound

\* A load moves to something sound, and nothing else that matters changes.
LEMMA LoadMoves ==
    ASSUME ModuleSafety, NEW l \in Loaders, NEW x, LoadIsSound(x, published, bytes, retained, mapped),
           x.pc \in Busy => loaders[l].pc \in Busy \/ Alone(l),
           loaders' = [loaders EXCEPT ![l] = x], UNCHANGED <<registry, published, disk, bytes, retained, mapped>>
    PROVE  ModuleSafety'
<1>1. ModuleShape' /\ VersionsHaveNoGaps' /\ SnapshotsAreChained'
  BY DEF ModuleSafety, ModuleShape, VersionsHaveNoGaps, SnapshotsAreChained
<1>2. MappingsAreSound' /\ RetainedIsMapped'
  BY DEF ModuleSafety, MappingsAreSound, RetainedIsMapped, MappingIsSound, IsMapping, Names
<1>3. \A m \in Loaders : loaders'[m] = IF m = l THEN x ELSE loaders[m]
  BY DEF ModuleSafety, ModuleShape
<1>4. OneLoadAtATime'
  BY <1>3 DEF ModuleSafety, OneLoadAtATime, Alone, Busy
<1>5. \A m \in Loaders : LoadIsSound(loaders'[m], published, bytes, retained, mapped)
  BY <1>3 DEF ModuleSafety, LoadsAreSound
<1>6. LoadsAreSound'
  BY <1>5 DEF LoadsAreSound
<1> QED BY <1>1, <1>2, <1>4, <1>6 DEF ModuleSafety

LEMMA DenialIsSound ==
    ASSUME NEW rows, NEW contents, NEW kept, NEW maps
    PROVE  LoadIsSound([pc |-> "denied"], rows, contents, kept, maps)
BY DEF LoadIsSound

LEMMA DenyKeeps ==
    ASSUME ModuleSafety, NEW l \in Loaders, DenyLoad(l)
    PROVE  ModuleSafety'
<1>1. LoadIsSound([pc |-> "denied"], published, bytes, retained, mapped)
  BY DenialIsSound
<1>2. [pc |-> "denied"].pc \notin Busy
  BY DEF Busy
<1> QED BY <1>1, <1>2, LoadMoves DEF DenyLoad, SetLoader, host

-----------------------------------------------------------------------------
(* A load under way stays one when a field changes, and so do the other    *)
(* fields.                                                                 *)

Moved(x, v) == [x EXCEPT !.pc = v]
Rooted(x, v, w) == [x EXCEPT !.pc = v, !.roots = w]
Informed(x, v, w) == [x EXCEPT !.pc = v, !.snapshot = w]
Compared(x, v, w) == [x EXCEPT !.pc = v, !.seen = w]
Retried(x, v, w) == [x EXCEPT !.pc = v, !.attempt = w]
Viewing(x, v, w) == [x EXCEPT !.pc = v, !.view = w]
Opening(x, v, w) == [x EXCEPT !.pc = v, !.file = w]
Reading(x, v, w) == [x EXCEPT !.pc = v, !.read = w]
Bound(x, v, w) == [x EXCEPT !.pc = v, !.loaded = w]

SameGrant(x, y) == y.kind = x.kind /\ y.roots = x.roots /\ y.snapshot = x.snapshot

\* y is the load x at stage v, with the grant of x.
Becomes(x, y, v) == IsLoad(y) /\ y.pc = v /\ SameGrant(x, y)

LEMMA LoadChanges ==
    ASSUME NEW x, IsLoad(x), NEW v, NEW w
    PROVE  /\ Becomes(x, Moved(x, v), v) /\ Moved(x, v).loaded = x.loaded
           /\ IsLoad(Rooted(x, v, w)) /\ Rooted(x, v, w).pc = v /\ Rooted(x, v, w).kind = x.kind
           /\ IsLoad(Informed(x, v, w)) /\ Informed(x, v, w).pc = v /\ Informed(x, v, w).kind = x.kind
           /\ Informed(x, v, w).roots = x.roots /\ Informed(x, v, w).snapshot = w
           /\ Becomes(x, Compared(x, v, w), v) /\ Compared(x, v, w).seen = w
           /\ Becomes(x, Retried(x, v, w), v)
           /\ Becomes(x, Viewing(x, v, w), v)
           /\ Becomes(x, Opening(x, v, w), v) /\ Opening(x, v, w).file = w
           /\ Becomes(x, Reading(x, v, w), v) /\ Reading(x, v, w).file = x.file /\ Reading(x, v, w).read = w
           /\ Becomes(x, Bound(x, v, w), v) /\ Bound(x, v, w).loaded = w
<1>1. PICK T : x \in [pc : T, kind : T, roots : T, snapshot : T, seen : T, attempt : T, view : T, file : T, read : T,
                      loaded : T]
  BY DEF IsLoad
<1> DEFINE S == T \cup {v, w}
           Load == [pc : S, kind : S, roots : S, snapshot : S, seen : S, attempt : S, view : S, file : S, read : S,
                    loaded : S]
<1>2. x \in Load
  BY <1>1
<1>3. ASSUME NEW y \in Load PROVE IsLoad(y)
  BY <1>3 DEF IsLoad
<1> HIDE DEF S
<1>4. v \in S /\ w \in S
  BY DEF S
<1>5. Moved(x, v) \in Load /\ Rooted(x, v, w) \in Load /\ Informed(x, v, w) \in Load
  BY <1>2, <1>4 DEF Moved, Rooted, Informed
<1>6. Compared(x, v, w) \in Load /\ Retried(x, v, w) \in Load /\ Viewing(x, v, w) \in Load
  BY <1>2, <1>4 DEF Compared, Retried, Viewing
<1>7. Opening(x, v, w) \in Load /\ Reading(x, v, w) \in Load /\ Bound(x, v, w) \in Load
  BY <1>2, <1>4 DEF Opening, Reading, Bound
<1>8. /\ Moved(x, v).pc = v /\ SameGrant(x, Moved(x, v)) /\ Moved(x, v).loaded = x.loaded
      /\ Rooted(x, v, w).pc = v /\ Rooted(x, v, w).kind = x.kind
      /\ Informed(x, v, w).pc = v /\ Informed(x, v, w).kind = x.kind
      /\ Informed(x, v, w).roots = x.roots /\ Informed(x, v, w).snapshot = w
  BY <1>2 DEF Moved, Rooted, Informed, SameGrant
<1>9. /\ Compared(x, v, w).pc = v /\ SameGrant(x, Compared(x, v, w)) /\ Compared(x, v, w).seen = w
      /\ Retried(x, v, w).pc = v /\ SameGrant(x, Retried(x, v, w))
      /\ Viewing(x, v, w).pc = v /\ SameGrant(x, Viewing(x, v, w))
  BY <1>2 DEF Compared, Retried, Viewing, SameGrant
<1>10. /\ Opening(x, v, w).pc = v /\ SameGrant(x, Opening(x, v, w)) /\ Opening(x, v, w).file = w
       /\ Reading(x, v, w).pc = v /\ SameGrant(x, Reading(x, v, w))
       /\ Reading(x, v, w).file = x.file /\ Reading(x, v, w).read = w
       /\ Bound(x, v, w).pc = v /\ SameGrant(x, Bound(x, v, w)) /\ Bound(x, v, w).loaded = w
  BY <1>2 DEF Opening, Reading, Bound, SameGrant
<1> QED BY <1>3, <1>5, <1>6, <1>7, <1>8, <1>9, <1>10 DEF Becomes

LEMMA LoadFields ==
    ASSUME ModuleSafety, NEW l \in Loaders, loaders[l].pc \notin {"idle", "denied"}
    PROVE  LoadIsSound(loaders[l], published, bytes, retained, mapped) /\ IsLoad(loaders[l])
BY DEF ModuleSafety, LoadsAreSound, LoadIsSound

\* A load that has read its snapshot goes to a stage before those of the host.
LEMMA EarlyMoveIsSound ==
    ASSUME NEW x, NEW y, NEW v, NEW rows, NEW contents, NEW kept, NEW maps,
           LoadIsSound(x, rows, contents, kept, maps), Becomes(x, y, v),
           x.pc \notin {"idle", "denied", "roots", "snapshot"},
           v \in {"checkpoint", "swap", "finish", "recheck", "locking", "granted", "verified"},
           v = "swap" => Successor(y.seen, y.snapshot),
           v \in {"recheck", "locking", "granted", "verified"} => GrantOf(x) # None
    PROVE  LoadIsSound(y, rows, contents, kept, maps)
<1>1. /\ IsLoad(y) /\ y.pc = v /\ y.kind = x.kind /\ y.roots = x.roots /\ y.snapshot = x.snapshot
      /\ GrantOf(y) = GrantOf(x)
  BY DEF Becomes, SameGrant, GrantOf
<1> QED BY <1>1 DEF LoadIsSound, Granting

\* The step of a load that leaves the host and the rows alone.
LEMMA LoadStep ==
    ASSUME ModuleSafety, NEW l \in Loaders, NEW x, LoadIsSound(x, published, bytes, retained, mapped),
           x.pc \in Busy => loaders[l].pc \in Busy \/ Alone(l), SetLoader(l, x), UNCHANGED host
    PROVE  ModuleSafety'
BY LoadMoves DEF SetLoader, host

-----------------------------------------------------------------------------
(* The steps of a load up to its grant. *)

LEMMA ReadingKeeps ==
    ASSUME ModuleSafety, NEW l \in Loaders,
           \/ \E kind \in Kinds : load(l, kind)
           \/ readRootsBefore(l) \/ readSnapshot(l)
    PROVE  ModuleSafety'
<1>1. ASSUME NEW kind \in Kinds, load(l, kind)
      PROVE  ModuleSafety'
  <2> DEFINE x == [pc |-> "roots", kind |-> kind, roots |-> {}, snapshot |-> None, seen |-> None, attempt |-> 1,
                   view |-> None, file |-> None, read |-> None, loaded |-> None]
  <2>1. LoadIsSound(x, published, bytes, retained, mapped) /\ x.pc \notin Busy
    <3> DEFINE T == {"roots", kind, {}, None, 1}
    <3>1. x \in [pc : T, kind : T, roots : T, snapshot : T, seen : T, attempt : T, view : T, file : T, read : T,
                 loaded : T]
      OBVIOUS
    <3>2. IsLoad(x) /\ x.pc = "roots" /\ x.kind \in Kinds
      BY <3>1 DEF IsLoad
    <3> HIDE DEF x
    <3> QED BY <3>2 DEF LoadIsSound, Granting, Busy
  <2>2. SetLoader(l, x) /\ UNCHANGED host
    BY <1>1 DEF load
  <2> HIDE DEF x
  <2> QED BY <2>1, <2>2, LoadStep
<1>2. CASE readRootsBefore(l)
  <2>1. CASE DenyLoad(l)
    BY <2>1, DenyKeeps
  <2>2. CASE ~DenyLoad(l)
    <3> DEFINE x == Rooted(loaders[l], "snapshot", ActiveRoots)
    <3>1. SetLoader(l, x) /\ UNCHANGED host /\ loaders[l].pc = "roots"
      BY <1>2, <2>2 DEF readRootsBefore, Rooted, LoaderAt
    <3>2. LoadIsSound(loaders[l], published, bytes, retained, mapped) /\ IsLoad(loaders[l])
      BY <3>1, LoadFields
    <3>3. IsLoad(x) /\ x.pc = "snapshot" /\ x.kind = loaders[l].kind
      BY <3>2, LoadChanges
    <3> HIDE DEF x
    <3>4. LoadIsSound(x, published, bytes, retained, mapped) /\ x.pc \notin Busy
      BY <3>1, <3>2, <3>3 DEF LoadIsSound, Granting, Busy
    <3> QED BY <3>1, <3>4, LoadStep
  <2> QED BY <2>1, <2>2
<1>3. CASE readSnapshot(l)
  <2>1. CASE DenyLoad(l)
    BY <2>1, DenyKeeps
  <2>2. CASE ~DenyLoad(l)
    <3> DEFINE s == Last(published).snapshot
               x == Informed(loaders[l], "checkpoint", s)
    <3>1. /\ SetLoader(l, x) /\ UNCHANGED host /\ loaders[l].pc = "snapshot"
          /\ published # <<>> /\ authenticate(s, "genuine", loaders[l].roots)
      BY <1>3, <2>2 DEF readSnapshot, Informed, LoaderAt
    <3>2. IsRow(s, published)
      BY <3>1, LastOfSequence DEF ModuleSafety, ModuleShape, IsRow
    <3>3. \E root \in loaders[l].roots : root.signer = s.signer
      BY <3>1 DEF authenticate
    <3> HIDE DEF s
    <3>4. LoadIsSound(loaders[l], published, bytes, retained, mapped) /\ IsLoad(loaders[l])
      BY <3>1, LoadFields
    <3>5. IsLoad(x) /\ x.pc = "checkpoint" /\ x.kind = loaders[l].kind /\ x.roots = loaders[l].roots /\ x.snapshot = s
      BY <3>4, LoadChanges
    <3> HIDE DEF x
    <3>6. LoadIsSound(x, published, bytes, retained, mapped) /\ x.pc \notin Busy
      BY <3>1, <3>2, <3>3, <3>4, <3>5 DEF LoadIsSound, Granting, Busy
    <3> QED BY <3>1, <3>6, LoadStep
  <2> QED BY <2>1, <2>2
<1> QED BY <1>1, <1>2, <1>3

\* A step of a load that keeps its snapshot, to a stage before those of the host.
LEMMA EarlyStep ==
    ASSUME ModuleSafety, NEW l \in Loaders, NEW y, NEW v, Becomes(loaders[l], y, v),
           loaders[l].pc \notin {"idle", "denied", "roots", "snapshot"},
           v \in {"checkpoint", "swap", "finish", "recheck", "locking", "granted", "verified"},
           v = "swap" => Successor(y.seen, y.snapshot),
           v \in {"recheck", "locking", "granted", "verified"} => Grant(l) # None,
           v = "verified" => Alone(l),
           SetLoader(l, y), UNCHANGED host
    PROVE  ModuleSafety'
<1>1. LoadIsSound(loaders[l], published, bytes, retained, mapped)
  BY LoadFields
<1>2. GrantOf(loaders[l]) = Grant(l)
  BY DEF GrantOf, Grant
<1>3. LoadIsSound(y, published, bytes, retained, mapped)
  BY <1>1, <1>2, EarlyMoveIsSound
<1>4. y.pc \in Busy => Alone(l)
  BY DEF Becomes, Busy
<1> QED BY <1>3, <1>4, LoadStep

LEMMA CheckpointKeeps ==
    ASSUME ModuleSafety, NEW l \in Loaders, readCheckpoint(l) \/ compareAndSwap(l)
    PROVE  ModuleSafety'
<1>1. CASE DenyLoad(l)
  BY <1>1, DenyKeeps
<1>2. loaders[l].pc \in {"checkpoint", "swap"} /\ IsLoad(loaders[l])
  BY LoadFields DEF readCheckpoint, compareAndSwap, LoaderAt
<1>3. ASSUME SetLoader(l, Moved(loaders[l], "finish")), UNCHANGED host PROVE ModuleSafety'
  <2>1. Becomes(loaders[l], Moved(loaders[l], "finish"), "finish")
    BY <1>2, LoadChanges
  <2> QED BY <1>2, <1>3, <2>1, EarlyStep
<1>4. ASSUME SetLoader(l, Compared(loaders[l], "swap", checkpoint)), Successor(checkpoint, loaders[l].snapshot),
             UNCHANGED host
      PROVE  ModuleSafety'
  <2> DEFINE y == Compared(loaders[l], "swap", checkpoint)
  <2>1. Becomes(loaders[l], y, "swap") /\ y.seen = checkpoint
    BY <1>2, LoadChanges
  <2> HIDE DEF y
  <2>2. Successor(y.seen, y.snapshot)
    BY <1>4, <2>1 DEF Becomes, SameGrant
  <2>3. SetLoader(l, y)
    BY <1>4 DEF y
  <2> QED BY <1>2, <1>4, <2>1, <2>2, <2>3, EarlyStep
<1>5. ASSUME SetLoader(l, Retried(loaders[l], "checkpoint", 2)), UNCHANGED host PROVE ModuleSafety'
  <2>1. Becomes(loaders[l], Retried(loaders[l], "checkpoint", 2), "checkpoint")
    BY <1>2, LoadChanges
  <2> QED BY <1>2, <1>5, <2>1, EarlyStep
<1>6. CASE readCheckpoint(l)
  BY <1>1, <1>3, <1>4, <1>6 DEF readCheckpoint, MoveLoader, Moved, Compared
<1>7. CASE compareAndSwap(l)
  BY <1>1, <1>3, <1>5, <1>7 DEF compareAndSwap, Moved, Retried
<1> QED BY <1>6, <1>7

LEMMA GrantingKeeps ==
    ASSUME ModuleSafety, NEW l \in Loaders,
           \/ finishRead(l) \/ beginRecheck(l) \/ recheck(l) \/ finishLoad(l) \/ abortLoad(l)
           \/ \E intact \in BOOLEAN : verifySocketDirectory(l, intact)
    PROVE  ModuleSafety'
<1>1. CASE DenyLoad(l)
  BY <1>1, DenyKeeps
<1>2. ASSUME loaders[l].pc \in Granting PROVE Grant(l) # None
  BY <1>2, LoadFields DEF LoadIsSound, Granting, Grant, GrantOf
<1>3. ASSUME NEW v \in {"recheck", "granted", "verified"}, MoveLoader(l, v), Grant(l) # None,
             loaders[l].pc \in {"finish", "locking", "granted"}, v = "verified" => Alone(l)
      PROVE  ModuleSafety'
  <2>1. Becomes(loaders[l], Moved(loaders[l], v), v)
    BY <1>3, LoadFields, LoadChanges
  <2>2. SetLoader(l, Moved(loaders[l], v)) /\ UNCHANGED host
    BY <1>3 DEF MoveLoader, Moved
  <2> QED BY <1>3, <2>1, <2>2, EarlyStep
<1>4. CASE finishRead(l) /\ ~DenyLoad(l)
  BY <1>3, <1>4 DEF finishRead, LoaderAt
<1>5. CASE beginRecheck(l)
  <2> DEFINE view == [roots |-> CurrentRoots, published |-> Len(published)]
             y == Viewing(loaders[l], "locking", view)
  <2>1. loaders[l].pc = "recheck" /\ SetLoader(l, y) /\ UNCHANGED host
    BY <1>5 DEF beginRecheck, LoaderAt, Viewing
  <2>2. Becomes(loaders[l], y, "locking")
    BY <2>1, LoadFields, LoadChanges
  <2>3. Grant(l) # None
    BY <1>2, <2>1 DEF Granting
  <2> HIDE DEF y
  <2> QED BY <2>1, <2>2, <2>3, EarlyStep
<1>6. CASE recheck(l) /\ ~DenyLoad(l)
  <2>1. loaders[l].pc = "locking" /\ MoveLoader(l, "granted")
    BY <1>6 DEF recheck, LoaderAt
  <2>2. Grant(l) # None
    BY <1>2, <2>1 DEF Granting
  <2> QED BY <1>3, <2>1, <2>2
<1>7. ASSUME NEW intact \in BOOLEAN, verifySocketDirectory(l, intact), ~DenyLoad(l)
      PROVE  ModuleSafety'
  <2>1. loaders[l].pc = "granted" /\ MoveLoader(l, "verified") /\ Alone(l)
    BY <1>7 DEF verifySocketDirectory, LoaderAt
  <2>2. Grant(l) # None
    BY <1>2, <2>1 DEF Granting
  <2> QED BY <1>3, <2>1, <2>2
<1>8. CASE finishLoad(l) /\ ~DenyLoad(l)
  <2> DEFINE y == Moved(loaders[l], "loaded")
  <2>1. loaders[l].pc = "opened" /\ SetLoader(l, y) /\ UNCHANGED host
    BY <1>8 DEF finishLoad, LoaderAt, MoveLoader, Moved
  <2>2. LoadIsSound(loaders[l], published, bytes, retained, mapped) /\ IsLoad(loaders[l])
    BY <2>1, LoadFields
  <2>3. /\ IsLoad(y) /\ y.pc = "loaded" /\ y.kind = loaders[l].kind /\ y.roots = loaders[l].roots
        /\ y.snapshot = loaders[l].snapshot /\ y.loaded = loaders[l].loaded
    BY <2>2, LoadChanges DEF Becomes, SameGrant
  <2> HIDE DEF y
  <2>4. GrantOf(y) = GrantOf(loaders[l])
    BY <2>3 DEF GrantOf
  <2>5. LoadIsSound(y, published, bytes, retained, mapped) /\ y.pc \notin Busy
    BY <2>1, <2>2, <2>3, <2>4 DEF LoadIsSound, Granting, Busy
  <2> QED BY <2>1, <2>5, LoadStep
<1>9. CASE abortLoad(l)
  BY <1>9, DenyKeeps DEF abortLoad
<1> QED BY <1>1, <1>4, <1>5, <1>6, <1>7, <1>8, <1>9

-----------------------------------------------------------------------------
(* The steps of a load on the host. *)

LEMMA OpenModuleKeeps ==
    ASSUME ModuleSafety, NEW l \in Loaders, openModule(l)
    PROVE  ModuleSafety'
<1>1. CASE DenyLoad(l)
  BY <1>1, DenyKeeps
<1>2. CASE ~DenyLoad(l)
  <2> DEFINE x == loaders[l]
             file == disk[x.kind]
             y == Opening(x, "open", file)
  <2>1. /\ x.pc = "verified" /\ verifyStat(file, Grant(l)) /\ SetLoader(l, y) /\ UNCHANGED host
    BY <1>2 DEF openModule, LoaderAt, Opening
  <2>2. LoadIsSound(x, published, bytes, retained, mapped) /\ IsLoad(x)
    BY <2>1, LoadFields
  <2>3. Becomes(x, y, "open") /\ y.file = file
    BY <2>2, LoadChanges
  <2>4. x.kind \in Kinds /\ GrantOf(x) # None /\ IsRow(x.snapshot, published)
        /\ \E root \in x.roots : root.signer = x.snapshot.signer
    BY <2>1, <2>2 DEF LoadIsSound, Granting
  <2>5. file \in Files /\ file = GrantOf(x).module.file
    BY <2>1, <2>4 DEF verifyStat, Grant, GrantOf, ModuleSafety, ModuleShape
  <2> HIDE DEF y, file
  <2>6. /\ IsLoad(y) /\ y.pc = "open" /\ y.kind = x.kind /\ y.roots = x.roots /\ y.snapshot = x.snapshot
        /\ GrantOf(y) = GrantOf(x)
    BY <2>3 DEF Becomes, SameGrant, GrantOf
  <2>7. LoadIsSound(y, published, bytes, retained, mapped)
    BY <2>3, <2>4, <2>5, <2>6 DEF LoadIsSound
  <2>8. loaders[l].pc \in Busy
    BY <2>1 DEF Busy
  <2> QED BY <2>1, <2>7, <2>8, LoadStep
<1> QED BY <1>1, <1>2

LEMMA DigestModuleKeeps ==
    ASSUME ModuleSafety, NEW l \in Loaders, digestModule(l)
    PROVE  ModuleSafety'
<1> DEFINE x == loaders[l]
           read == bytes[x.file]
           m == retained[x.kind]
<1>1. x.pc = "open" /\ LoadIsSound(x, published, bytes, retained, mapped) /\ IsLoad(x)
  BY LoadFields DEF digestModule, LoaderAt
<1>2. /\ x.kind \in Kinds /\ GrantOf(x) # None /\ IsRow(x.snapshot, published)
      /\ \E root \in x.roots : root.signer = x.snapshot.signer
      /\ x.file \in Files /\ x.file = GrantOf(x).module.file
  BY <1>1 DEF LoadIsSound, Granting
<1>3. Grant(l) = GrantOf(x) /\ x.pc \in Busy
  BY <1>1 DEF Grant, GrantOf, Busy
<1>4. CASE DenyLoad(l)
  BY <1>4, DenyKeeps
<1>5. ASSUME m # None, sameRetainedModule(m, Grant(l)), SetLoader(l, Bound(x, "opened", m)), UNCHANGED host
      PROVE  ModuleSafety'
  <2> DEFINE y == Bound(x, "opened", m)
  <2>1. Becomes(x, y, "opened") /\ y.loaded = m
    BY <1>1, LoadChanges
  <2>2. m.kind = x.kind /\ m.module = GrantOf(x).module
    BY <1>2, <1>3, <1>5 DEF ModuleSafety, RetainedIsMapped, sameRetainedModule
  <2>3. SetLoader(l, y)
    BY <1>5
  <2> HIDE DEF y
  <2>4. /\ IsLoad(y) /\ y.pc = "opened" /\ y.kind = x.kind /\ y.roots = x.roots /\ y.snapshot = x.snapshot
        /\ GrantOf(y) = GrantOf(x)
    BY <2>1 DEF Becomes, SameGrant, GrantOf
  <2>5. LoadIsSound(y, published, bytes, retained, mapped)
    BY <1>2, <1>5, <2>1, <2>2, <2>4 DEF LoadIsSound
  <2> QED BY <1>3, <1>5, <2>3, <2>5, LoadStep
<1>6. ASSUME read.image = Grant(l).module.image, m = None, SetLoader(l, Reading(x, "digested", read)), UNCHANGED host
      PROVE  ModuleSafety'
  <2> DEFINE y == Reading(x, "digested", read)
  <2>1. Becomes(x, y, "digested") /\ y.file = x.file /\ y.read = read
    BY <1>1, LoadChanges
  <2>2. SetLoader(l, y)
    BY <1>6
  <2>3. read.writes \in Nat
    BY <1>2 DEF ModuleSafety, ModuleShape
  <2> HIDE DEF y
  <2>4. /\ IsLoad(y) /\ y.pc = "digested" /\ y.kind = x.kind /\ y.roots = x.roots /\ y.snapshot = x.snapshot
        /\ GrantOf(y) = GrantOf(x)
    BY <2>1 DEF Becomes, SameGrant, GrantOf
  <2>5. ReadHolds(y, bytes)
    BY <1>3, <1>6, <2>1, <2>3, <2>4 DEF ReadHolds
  <2>6. LoadIsSound(y, published, bytes, retained, mapped)
    BY <1>2, <1>6, <2>1, <2>4, <2>5 DEF LoadIsSound
  <2> QED BY <1>3, <1>6, <2>2, <2>6, LoadStep
<1>7. \/ DenyLoad(l)
      \/ m # None /\ sameRetainedModule(m, Grant(l)) /\ SetLoader(l, Bound(x, "opened", m)) /\ UNCHANGED host
      \/ /\ read.image = Grant(l).module.image /\ m = None /\ SetLoader(l, Reading(x, "digested", read))
         /\ UNCHANGED host
  BY DEF digestModule, Bound, Reading
<1> QED BY <1>4, <1>5, <1>6, <1>7

\* The others stay sound: what is mapped is only added to.
LEMMA MapModuleKeeps ==
    ASSUME NoneIsNoRecord, ModuleSafety, NEW l \in Loaders, NEW dlopens \in BOOLEAN, mapModule(l, dlopens)
    PROVE  ModuleSafety'
<1> DEFINE x == loaders[l]
           m == [kind |-> x.kind, module |-> Grant(l).module, file |-> x.file, read |-> x.read, bytes |-> bytes[x.file]]
           y == Bound(x, "mapped", m)
<1>1. x.pc = "digested" /\ LoadIsSound(x, published, bytes, retained, mapped) /\ IsLoad(x)
  BY LoadFields DEF mapModule, Maps, LoaderAt
<1>2. CASE DenyLoad(l)
  BY <1>2, DenyKeeps
<1>3. CASE ~DenyLoad(l)
  <2>1. /\ mapped' = Append(mapped, m) /\ SetLoader(l, y) /\ UNCHANGED <<disk, bytes, retained>>
    BY <1>3 DEF mapModule, Maps, Bound
  <2>2. /\ x.kind \in Kinds /\ GrantOf(x) # None /\ IsRow(x.snapshot, published)
        /\ \E root \in x.roots : root.signer = x.snapshot.signer
        /\ x.file \in Files /\ x.file = GrantOf(x).module.file /\ ReadHolds(x, bytes) /\ retained[x.kind] = None
    BY <1>1 DEF LoadIsSound, Granting
  <2>3. Grant(l) = GrantOf(x)
    BY DEF Grant, GrantOf
  <2>4. m # None
    BY DEF NoneIsNoRecord
  <2>5. /\ m.kind = x.kind /\ m.module = GrantOf(x).module /\ m.file = x.file /\ m.read = x.read
        /\ m.bytes = bytes[x.file]
    BY <2>3
  <2>6. Becomes(x, y, "mapped") /\ y.loaded = m
    BY <1>1, LoadChanges
  <2> HIDE DEF m, y
  <2>7. MappingIsSound(m, published)
    <3>1. \E j \in DOMAIN published : Names(published[j], m)
      BY <2>2, <2>5 DEF IsRow, Names, GrantOf
    <3> QED BY <2>2, <2>5, <3>1 DEF MappingIsSound, ReadHolds
  <2>8. /\ IsSequence(mapped') /\ DOMAIN mapped' = DOMAIN mapped \cup {Len(mapped) + 1}
        /\ mapped'[Len(mapped) + 1] = m /\ Grows(mapped, mapped')
        /\ \A i \in DOMAIN mapped' : i \in DOMAIN mapped \/ mapped'[i] = m
    BY <2>1, AppendSequence DEF ModuleSafety, ModuleShape, Grows
  <2>9. ModuleShape' /\ VersionsHaveNoGaps' /\ SnapshotsAreChained'
    BY <2>1, <2>8 DEF ModuleSafety, ModuleShape, VersionsHaveNoGaps, SnapshotsAreChained, SetLoader
  <2>10. \A i \in DOMAIN mapped' : MappingIsSound(mapped'[i], published)
    BY <2>7, <2>8 DEF ModuleSafety, MappingsAreSound, Grows
  <2>11. MappingsAreSound'
    BY <2>10, <2>1 DEF MappingsAreSound, MappingIsSound, Names, SetLoader
  <2>12. RetainedIsMapped'
    BY <2>1, <2>8 DEF ModuleSafety, RetainedIsMapped, IsMapping, Grows
  <2>13. \A k \in Loaders : loaders'[k] = IF k = l THEN y ELSE loaders[k]
    BY <2>1 DEF ModuleSafety, ModuleShape, SetLoader
  <2>14. OneLoadAtATime'
    BY <1>1, <2>13 DEF ModuleSafety, OneLoadAtATime, Busy
  <2>15. LoadIsSound(y, published, bytes, retained, mapped')
    <3>1. /\ IsLoad(y) /\ y.pc = "mapped" /\ y.kind = x.kind /\ y.roots = x.roots /\ y.snapshot = x.snapshot
          /\ GrantOf(y) = GrantOf(x)
      BY <2>6 DEF Becomes, SameGrant, GrantOf
    <3>2. IsMapping(y.loaded, mapped')
      BY <2>6, <2>8 DEF IsMapping
    <3> QED BY <2>2, <2>4, <2>5, <2>6, <3>1, <3>2 DEF LoadIsSound
  <2>16. ASSUME NEW k \in Loaders, k # l PROVE LoadIsSound(loaders[k], published, bytes, retained, mapped')
    <3>1. LoadIsSound(loaders[k], published, bytes, retained, mapped)
      BY <2>16 DEF ModuleSafety, LoadsAreSound
    <3>2. Grows(published, published) /\ FilesMove(bytes, bytes)
      BY DEF Grows, FilesMove
    <3>3. bytes \in [Files -> [image : Images, writes : Nat]]
      BY DEF ModuleSafety, ModuleShape
    <3> QED BY <2>8, <3>1, <3>2, <3>3, SoundnessStays
  <2>17. LoadsAreSound'
    <3>1. \A k \in Loaders : LoadIsSound(loaders'[k], published, bytes, retained, mapped')
      BY <2>13, <2>15, <2>16
    <3>2. published' = published /\ bytes' = bytes /\ retained' = retained
      BY <2>1 DEF SetLoader
    <3> QED BY <3>1, <3>2 DEF LoadsAreSound
  <2> QED BY <2>9, <2>11, <2>12, <2>14, <2>17 DEF ModuleSafety
<1> QED BY <1>2, <1>3

LEMMA RetainModuleKeeps ==
    ASSUME ModuleSafety, NEW l \in Loaders, retainModule(l)
    PROVE  ModuleSafety'
<1> DEFINE x == loaders[l]
           m == x.loaded
           y == Moved(x, "opened")
<1>1. x.pc = "mapped" /\ LoadIsSound(x, published, bytes, retained, mapped) /\ IsLoad(x)
  BY LoadFields DEF retainModule, LoaderAt
<1>2. CASE DenyLoad(l)
  BY <1>2, DenyKeeps
<1>3. CASE ~DenyLoad(l)
  <2>1. /\ retained' = [retained EXCEPT ![m.kind] = m] /\ SetLoader(l, y) /\ UNCHANGED <<disk, bytes, mapped>>
    BY <1>3 DEF retainModule, Moved
  <2>2. /\ x.kind \in Kinds /\ GrantOf(x) # None /\ IsRow(x.snapshot, published)
        /\ \E root \in x.roots : root.signer = x.snapshot.signer
        /\ retained[x.kind] = None /\ IsMapping(m, mapped)
        /\ m # None /\ m.kind = x.kind /\ m.module = GrantOf(x).module
    BY <1>1 DEF LoadIsSound, Granting
  <2>3. Becomes(x, y, "opened") /\ y.loaded = m
    BY <1>1, LoadChanges
  <2> HIDE DEF y
  <2>4. DOMAIN retained = Kinds /\ \A k \in Kinds : retained'[k] = IF k = x.kind THEN m ELSE retained[k]
    BY <2>1, <2>2 DEF ModuleSafety, ModuleShape
  <2>5. ModuleShape' /\ VersionsHaveNoGaps' /\ SnapshotsAreChained'
    BY <2>1 DEF ModuleSafety, ModuleShape, VersionsHaveNoGaps, SnapshotsAreChained, SetLoader
  <2>6. MappingsAreSound'
    BY <2>1 DEF ModuleSafety, MappingsAreSound, MappingIsSound, Names, SetLoader
  <2>7. RetainedIsMapped'
    BY <2>1, <2>2, <2>4 DEF ModuleSafety, RetainedIsMapped, IsMapping
  <2>8. \A k \in Loaders : loaders'[k] = IF k = l THEN y ELSE loaders[k]
    BY <2>1 DEF ModuleSafety, ModuleShape, SetLoader
  <2>9. OneLoadAtATime'
    BY <1>1, <2>8 DEF ModuleSafety, OneLoadAtATime, Busy
  <2>10. LoadIsSound(y, published, bytes, retained', mapped)
    <3>1. /\ IsLoad(y) /\ y.pc = "opened" /\ y.kind = x.kind /\ y.roots = x.roots /\ y.snapshot = x.snapshot
          /\ GrantOf(y) = GrantOf(x)
      BY <2>3 DEF Becomes, SameGrant, GrantOf
    <3>2. y.loaded = retained'[y.kind]
      BY <2>2, <2>3, <2>4, <3>1
    <3> QED BY <2>2, <2>3, <3>1, <3>2 DEF LoadIsSound
  <2>11. ASSUME NEW k \in Loaders, k # l PROVE LoadIsSound(loaders[k], published, bytes, retained', mapped)
    <3>1. LoadIsSound(loaders[k], published, bytes, retained, mapped)
      BY <2>11 DEF ModuleSafety, LoadsAreSound
    <3>2. Grows(published, published) /\ Grows(mapped, mapped) /\ FilesMove(bytes, bytes)
      BY DEF Grows, FilesMove
    <3>3. bytes \in [Files -> [image : Images, writes : Nat]]
      BY DEF ModuleSafety, ModuleShape
    <3>4. loaders[k].pc \notin {"digested", "mapped"}
      BY <1>1, <2>11 DEF ModuleSafety, OneLoadAtATime, Busy
    <3>5. ASSUME loaders[k].pc \in {"opened", "loaded"} PROVE loaders[k].kind \in Kinds \ {x.kind}
      BY <2>2, <3>1, <3>5 DEF LoadIsSound
    <3>6. loaders[k].pc \in Binding => retained'[loaders[k].kind] = retained[loaders[k].kind]
      BY <2>4, <3>4, <3>5 DEF Binding
    <3> QED BY <3>1, <3>2, <3>3, <3>6, SoundnessStays
  <2>12. LoadsAreSound'
    <3>1. \A k \in Loaders : LoadIsSound(loaders'[k], published, bytes, retained', mapped)
      BY <2>8, <2>10, <2>11
    <3>2. published' = published /\ bytes' = bytes /\ mapped' = mapped
      BY <2>1 DEF SetLoader
    <3> QED BY <3>1, <3>2 DEF LoadsAreSound
  <2> QED BY <2>5, <2>6, <2>7, <2>9, <2>12 DEF ModuleSafety
<1> QED BY <1>2, <1>3

-----------------------------------------------------------------------------
(* The other steps. *)

LEMMA RestartKeeps ==
    ASSUME ModuleSafety, restart
    PROVE  ModuleSafety'
<1>1. /\ loaders' = [l \in Loaders |-> IF loaders[l].pc \in {"idle", "denied"} THEN loaders[l] ELSE [pc |-> "denied"]]
      /\ retained' = [k \in Kinds |-> None] /\ mapped' = <<>>
      /\ UNCHANGED <<registry, published, disk, bytes>>
  BY DEF restart, store
<1>2. \A l \in Loaders : loaders'[l].pc \in {"idle", "denied"}
  BY <1>1
<1>3. ModuleShape' /\ VersionsHaveNoGaps' /\ SnapshotsAreChained'
  BY <1>1, EmptySequence DEF ModuleSafety, ModuleShape, VersionsHaveNoGaps, SnapshotsAreChained
<1>4. MappingsAreSound' /\ RetainedIsMapped'
  BY <1>1, EmptySequence DEF MappingsAreSound, RetainedIsMapped
<1>5. OneLoadAtATime' /\ LoadsAreSound'
  BY <1>2 DEF OneLoadAtATime, Busy, LoadsAreSound, LoadIsSound
<1> QED BY <1>3, <1>4, <1>5 DEF ModuleSafety

\* No load moves; rows may be appended and files written.
LEMMA OthersKeep ==
    ASSUME ModuleSafety, UNCHANGED <<loaders, retained, mapped>>, Grows(published, published'), FilesMove(bytes, bytes'),
           ModuleShape', VersionsHaveNoGaps', SnapshotsAreChained'
    PROVE  ModuleSafety'
<1>1. MappingsAreSound'
  BY MappingStays DEF ModuleSafety, MappingsAreSound
<1>2. RetainedIsMapped' /\ OneLoadAtATime'
  BY DEF ModuleSafety, RetainedIsMapped, OneLoadAtATime, IsMapping
<1>3. ASSUME NEW l \in Loaders PROVE LoadIsSound(loaders[l], published', bytes', retained, mapped)
  <2>1. LoadIsSound(loaders[l], published, bytes, retained, mapped)
    BY DEF ModuleSafety, LoadsAreSound
  <2>2. bytes \in [Files -> [image : Images, writes : Nat]] /\ bytes' \in [Files -> [image : Images, writes : Nat]]
    BY DEF ModuleSafety, ModuleShape
  <2>3. Grows(mapped, mapped)
    BY DEF Grows
  <2> QED BY <2>1, <2>2, <2>3, SoundnessStays
<1>4. LoadsAreSound'
  BY <1>3 DEF LoadsAreSound
<1> QED BY <1>1, <1>2, <1>4 DEF ModuleSafety

\* Nothing of what the invariant speaks of changes but the registry.
LEMMA RegistryKeeps ==
    ASSUME ModuleSafety, UNCHANGED <<published, loaders, host>>,
           DOMAIN registry' = RootSigners,
           \A r \in RootSigners : /\ IsSequence(registry'[r])
                                  /\ \A j \in DOMAIN registry'[r] : registry'[r][j].version = j
    PROVE  ModuleSafety'
<1>1. ModuleShape' /\ VersionsHaveNoGaps' /\ SnapshotsAreChained'
  BY DEF ModuleSafety, ModuleShape, VersionsHaveNoGaps, SnapshotsAreChained, host
<1>2. Grows(published, published') /\ FilesMove(bytes, bytes')
  BY DEF Grows, FilesMove, host
<1> QED BY <1>1, <1>2, OthersKeep DEF host

LEMMA ProvisionKeeps ==
    ASSUME ModuleSafety, NEW p, NEW r \in RootSigners, NEW root, root.signer = r, provision(p, root)
    PROVE  ModuleSafety'
<1> DEFINE rows == registry[r]
<1>1. /\ registry' = [registry EXCEPT ![r] = Append(rows, root)]
      /\ RootGuard(root) /\ UNCHANGED <<published, loaders, host>>
  BY DEF provision
<1>2. IsSequence(rows) /\ DOMAIN registry = RootSigners /\ \A j \in DOMAIN rows : rows[j].version = j
  BY DEF ModuleSafety, ModuleShape, VersionsHaveNoGaps
<1>3. /\ IsSequence(Append(rows, root))
      /\ Len(rows) \in Nat
      /\ DOMAIN rows = 1 .. Len(rows)
      /\ DOMAIN Append(rows, root) = 1 .. Len(rows) + 1
      /\ \A j \in DOMAIN rows : Append(rows, root)[j] = rows[j]
      /\ Append(rows, root)[Len(rows) + 1] = root
  BY <1>2, AppendSequence
<1>4. root.version = Len(rows) + 1
  <2>1. CASE rows = <<>>
    BY <1>1, <2>1 DEF RootGuard
  <2>2. CASE rows # <<>>
    <3>1. Len(rows) \in DOMAIN rows /\ Last(rows) = rows[Len(rows)]
      BY <1>2, <2>2, LastOfSequence
    <3> QED BY <1>1, <1>2, <2>2, <3>1 DEF RootGuard
  <2> QED BY <2>1, <2>2
<1> DEFINE new == Append(rows, root)
<1> HIDE DEF new
<1>5. \A j \in DOMAIN new : new[j].version = j
  BY <1>2, <1>3, <1>4 DEF new
<1>6. DOMAIN registry' = RootSigners /\ \A q \in RootSigners : registry'[q] = IF q = r THEN new ELSE registry[q]
  BY <1>1, <1>2 DEF new
<1>7. IsSequence(new)
  BY <1>3 DEF new
<1>8. \A q \in RootSigners : /\ IsSequence(registry'[q])
                             /\ \A j \in DOMAIN registry'[q] : registry'[q][j].version = j
  BY <1>5, <1>6, <1>7 DEF ModuleSafety, ModuleShape, VersionsHaveNoGaps
<1> QED BY <1>1, <1>6, <1>8, RegistryKeeps

LEMMA StoreStaysKeeps ==
    ASSUME ModuleSafety, UNCHANGED <<registry, published, loaders, host>>
    PROVE  ModuleSafety'
BY RegistryKeeps DEF ModuleSafety, ModuleShape, VersionsHaveNoGaps

LEMMA AppendKeeps ==
    ASSUME ModuleSafety, NEW i \in Issuers, append(i)
    PROVE  ModuleSafety'
<1> DEFINE row == [snapshot |-> issuers[i].request, evidence |-> issuers[i].approval]
<1>1. UNCHANGED <<registry, loaders, host>>
  BY DEF append
<1>2. CASE ~AppendGuard(row.snapshot, row.evidence)
  BY <1>1, <1>2, StoreStaysKeeps DEF append, host
<1>3. CASE AppendGuard(row.snapshot, row.evidence)
  <2>1. published' = Append(published, row)
    BY <1>3 DEF append
  <2> HIDE DEF row
  <2>2. /\ IsSequence(Append(published, row))
        /\ Len(published) \in Nat
        /\ DOMAIN published = 1 .. Len(published)
        /\ DOMAIN Append(published, row) = 1 .. Len(published) + 1
        /\ \A j \in DOMAIN published : Append(published, row)[j] = published[j]
        /\ Append(published, row)[Len(published) + 1] = row
    BY AppendSequence DEF ModuleSafety, ModuleShape
  <2>3. PICK n \in Nat : n = Len(published)
    BY <2>2
  <2>4. /\ DOMAIN published = 1 .. n /\ DOMAIN published' = 1 .. n + 1
        /\ \A j \in 1 .. n : published'[j] = published[j]
        /\ published'[n + 1] = row
    BY <2>1, <2>2, <2>3
  <2>5. Grows(published, published')
    BY <2>4 DEF Grows
  <2>6. /\ row.snapshot.version = n + 1
        /\ row.snapshot.prev = IF n + 1 = 1 THEN None ELSE published[n].snapshot
    <3>1. CASE published = <<>>
      <4>1. n = 0
        BY <2>3, <3>1
      <4> QED BY <1>3, <3>1, <4>1 DEF AppendGuard
    <3>2. CASE published # <<>>
      <4>1. n \in DOMAIN published /\ Last(published) = published[n]
        BY <2>3, <3>2, LastOfSequence DEF ModuleSafety, ModuleShape
      <4>2. published[n].snapshot.version = n
        BY <4>1 DEF ModuleSafety, VersionsHaveNoGaps
      <4> QED BY <1>3, <2>4, <3>2, <4>1, <4>2 DEF AppendGuard
    <3> QED BY <3>1, <3>2
  <2>7. ModuleShape'
    BY <1>1, <2>1, <2>2 DEF ModuleSafety, ModuleShape, host
  <2>8. VersionsHaveNoGaps'
    BY <1>1, <2>4, <2>6 DEF ModuleSafety, VersionsHaveNoGaps
  <2>9. SnapshotsAreChained'
    <3> SUFFICES ASSUME NEW j \in 1 .. n + 1
                 PROVE  published'[j].snapshot.prev = IF j = 1 THEN None ELSE published'[j - 1].snapshot
      BY <2>4 DEF SnapshotsAreChained
    <3>1. CASE j = n + 1
      <4>1. j # 1 => published'[j - 1] = published[n] /\ n \in 1 .. n
        BY <2>4, <3>1
      <4> QED BY <2>4, <2>6, <3>1, <4>1
    <3>2. CASE j # n + 1
      <4>1. j \in 1 .. n /\ published'[j] = published[j]
        BY <2>4, <3>2
      <4>2. j # 1 => published'[j - 1] = published[j - 1]
        BY <2>4, <4>1
      <4> QED BY <2>4, <4>1, <4>2 DEF ModuleSafety, SnapshotsAreChained
    <3> QED BY <3>1, <3>2
  <2>10. bytes' = bytes /\ FilesMove(bytes, bytes')
    BY <1>1 DEF FilesMove, host
  <2> QED BY <1>1, <2>5, <2>7, <2>8, <2>9, <2>10, OthersKeep DEF host
<1> QED BY <1>2, <1>3

\* Another file at the path, or other bytes in a file.
LEMMA FilesKeepModules ==
    ASSUME ModuleSafety,
           \/ \E kind \in Kinds, file \in Files : replaceFile(kind, file)
           \/ \E file \in Files, image \in Images : writeFile(file, image)
    PROVE  ModuleSafety'
<1>1. UNCHANGED <<registry, published, loaders, retained, mapped>>
  BY DEF replaceFile, writeFile, store
<1>2. /\ disk' \in [Kinds -> Files] /\ bytes' \in [Files -> [image : Images, writes : Nat]]
      /\ FilesMove(bytes, bytes')
  <2>1. disk \in [Kinds -> Files] /\ bytes \in [Files -> [image : Images, writes : Nat]]
    BY DEF ModuleSafety, ModuleShape
  <2>2. CASE \E kind \in Kinds, file \in Files : replaceFile(kind, file)
    BY <2>1, <2>2 DEF replaceFile, FilesMove
  <2>3. ASSUME NEW file \in Files, NEW image \in Images, writeFile(file, image)
        PROVE  /\ disk' \in [Kinds -> Files] /\ bytes' \in [Files -> [image : Images, writes : Nat]]
               /\ FilesMove(bytes, bytes')
    <3> DEFINE new == [image |-> image, writes |-> bytes[file].writes + 1]
    <3>1. bytes' = [bytes EXCEPT ![file] = new] /\ disk' = disk
      BY <2>3 DEF writeFile
    <3>2. bytes[file].writes \in Nat /\ new \in [image : Images, writes : Nat] /\ new.writes = bytes[file].writes + 1
      BY <2>1
    <3> HIDE DEF new
    <3> QED BY <2>1, <3>1, <3>2 DEF FilesMove
  <2> QED BY <2>2, <2>3
<1>3. ModuleShape' /\ VersionsHaveNoGaps' /\ SnapshotsAreChained' /\ Grows(published, published')
  BY <1>1, <1>2 DEF ModuleSafety, ModuleShape, VersionsHaveNoGaps, SnapshotsAreChained, Grows
<1> QED BY <1>1, <1>2, <1>3, OthersKeep

\* The steps of an issuance before its row is appended.
IssuanceGoesOn(i) ==
    \/ \E p \in Callers, id \in SnapshotIds, r \in RootSigners, g \in Grants, place \in Places :
         issue(i, p, id, place, r, g)
    \/ readRoots(i) \/ authorize(i) \/ controllerSign(i)
    \/ IssuerAt(i, "signing") /\ \E answer \in Answers(i) : sign(i, answer)
    \/ publish(i) \/ abortIssue(i)

LEMMA IssuanceStays ==
    ASSUME NEW i \in Issuers, IssuanceGoesOn(i)
    PROVE  UNCHANGED <<store, loaders, host>>
<1>1. ASSUME NEW pc, MoveIssuer(i, pc) PROVE UNCHANGED <<store, loaders, host>>
  BY <1>1 DEF MoveIssuer
<1>2. Refused(i) => UNCHANGED <<store, loaders, host>>
  BY <1>1 DEF Refused
<1>3. (\E p \in Callers, id \in SnapshotIds, r \in RootSigners, g \in Grants, place \in Places :
         issue(i, p, id, place, r, g)) => UNCHANGED <<store, loaders, host>>
  BY DEF issue
<1>4. readRoots(i) \/ authorize(i) => UNCHANGED <<store, loaders, host>>
  BY <1>2 DEF readRoots, authorize
<1>5. controllerSign(i) \/ publish(i) \/ abortIssue(i) => UNCHANGED <<store, loaders, host>>
  BY <1>1, <1>2 DEF controllerSign, publish, abortIssue
<1>6. (\E answer \in Answers(i) : sign(i, answer)) => UNCHANGED <<store, loaders, host>>
  BY <1>2 DEF sign
<1> QED BY <1>3, <1>4, <1>5, <1>6 DEF IssuanceGoesOn

LEMMA ModuleNextSafety ==
    ASSUME NoneIsNoRecord, ModuleSafety, [ModuleNext]_moduleVars
    PROVE  ModuleSafety'
<1>1. CASE ModuleTick \/ UNCHANGED moduleVars
  BY <1>1, StoreStaysKeeps DEF ModuleTick, moduleVars, store, host
<1>2. CASE restart
  BY <1>2, RestartKeeps
<1>3. ASSUME NEW i \in Issuers, IssuanceGoesOn(i) PROVE ModuleSafety'
  BY <1>3, IssuanceStays, StoreStaysKeeps DEF store
<1>4. ASSUME NEW i \in Issuers, append(i) PROVE ModuleSafety'
  BY <1>4, AppendKeeps
<1>5. CASE Issuing
  BY <1>3, <1>4, <1>5 DEF Issuing, IssuanceGoesOn
<1>6. CASE Loading
  BY <1>6, ReadingKeeps, CheckpointKeeps, GrantingKeeps, OpenModuleKeeps, DigestModuleKeeps, MapModuleKeeps,
     RetainModuleKeeps DEF Loading
<1>7. ASSUME NEW p \in Callers, NEW r \in RootSigners, NEW root \in RootRequests(r), provision(p, root)
      PROVE  ModuleSafety'
  <2>1. root.signer = r
    BY <1>7 DEF RootRequests
  <2> QED BY <1>7, <2>1, ProvisionKeeps
<1>8. CASE \/ \E kind \in Kinds, file \in Files : replaceFile(kind, file)
           \/ \E file \in Files, image \in Images : writeFile(file, image)
  BY <1>8, FilesKeepModules
<1> QED BY <1>1, <1>2, <1>5, <1>6, <1>7, <1>8 DEF ModuleNext

\* Rows are numbered and chained; every load holds a published snapshot, the file
\* it opened and what it has digested of it, one load at a time is on the host,
\* and everything that was mapped is what a published snapshot names (the triggers
\* of the tables, readSnapshot, recheck, loadAuthorizedModule).
THEOREM ModulesAreSound ==
    ASSUME NoneIsNoRecord
    PROVE  ModuleSpec => []ModuleSafety
<1>1. ModuleSafety /\ [ModuleNext]_moduleVars => ModuleSafety'
  BY ModuleNextSafety
<1> QED BY ModuleInitSafety, <1>1, PTL DEF ModuleSpec

\* Whatever number of issuers, loaders, roots and kinds there are, whatever is
\* asked of the registry and of the chain, whatever restarts, and whatever file
\* takes the path or is written between two calls of a load: every module that was
\* mapped is the file that a published snapshot names for its kind, with the bytes
\* named unless these were written between the digest and the mapping
\* (loadAuthorizedModule).
THEOREM ModulesStayAuthorized ==
    ASSUME NoneIsNoRecord
    PROVE  ModuleSpec => []ModulesAreAuthorized
<1>1. ModuleSafety => ModulesAreAuthorized
  <2> SUFFICES ASSUME ModuleSafety PROVE ModulesAreAuthorized
    OBVIOUS
  <2>1. DOMAIN loaders = Loaders /\ DOMAIN retained = Kinds /\ DOMAIN registry = RootSigners
    BY DEF ModuleSafety, ModuleShape
  <2>2. ASSUME NEW l \in Loaders, loaders[l].pc \in {"opened", "loaded"}
        PROVE  /\ loaders[l].loaded = retained[loaders[l].kind]
               /\ \E j \in DOMAIN published :
                    published[j].snapshot = loaders[l].snapshot /\ Names(published[j], loaders[l].loaded)
    <3> DEFINE x == loaders[l]
    <3>1. LoadIsSound(x, published, bytes, retained, mapped)
      BY DEF ModuleSafety, LoadsAreSound
    <3>2. /\ x.loaded = retained[x.kind] /\ IsRow(x.snapshot, published) /\ GrantOf(x) # None
          /\ x.loaded.kind = x.kind /\ x.loaded.module = GrantOf(x).module
      BY <2>2, <3>1 DEF LoadIsSound, Granting
    <3> QED BY <3>2 DEF IsRow, Names, GrantOf
  <2>3. \A i \in DOMAIN mapped : MappingIsSound(mapped[i], published)
    BY DEF ModuleSafety, MappingsAreSound
  <2>4. \A k \in Kinds : retained[k] # None => retained[k].kind = k /\ \E i \in DOMAIN mapped : mapped[i] = retained[k]
    BY DEF ModuleSafety, RetainedIsMapped, IsMapping
  <2>5. VersionsHaveNoGaps
    BY DEF ModuleSafety
  <2> QED BY <2>1, <2>2, <2>3, <2>4, <2>5 DEF ModulesAreAuthorized, VersionsHaveNoGaps, MappingIsSound
<1> QED BY <1>1, ModulesAreSound, PTL

-----------------------------------------------------------------------------
(* Steps of the authority. *)

\* The stages of a load behind the checkpoint and before the grant.
Reached == {"finish", "recheck", "locking"}

\* A load l that is set to x passes the checkpoint when this holds its snapshot,
\* and is given its grant by the last transaction only.
Goes(l, x) ==
    \/ x.pc \notin Reached \cup {"granted"}
    \/ x.pc \in Reached /\ x.snapshot = loaders[l].snapshot /\ loaders[l].pc \in Reached
    \/ /\ x.pc \in Reached /\ x.snapshot = loaders[l].snapshot /\ loaders[l].pc \in {"checkpoint", "swap"}
       /\ checkpoint' = nextCheckpoint(loaders[l].snapshot)
    \/ /\ loaders[l].pc = "locking"
       /\ RootsInView(l) = loaders[l].roots /\ LatestInView(l) = loaders[l].snapshot
       /\ x.pc = "granted"

LoadGoes(l) == \E x : SetLoader(l, x) /\ Goes(l, x)

LEMMA LoadBecomes ==
    ASSUME ModuleSafety, NEW m \in Loaders,
           \/ \E kind \in Kinds : load(m, kind)
           \/ readRootsBefore(m) \/ readSnapshot(m) \/ readCheckpoint(m) \/ compareAndSwap(m) \/ finishRead(m)
           \/ beginRecheck(m) \/ recheck(m)
           \/ \E intact \in BOOLEAN : verifySocketDirectory(m, intact)
           \/ openModule(m) \/ digestModule(m) \/ \E dlopens \in BOOLEAN : mapModule(m, dlopens)
           \/ retainModule(m) \/ finishLoad(m) \/ abortLoad(m)
    PROVE  LoadGoes(m)
<1>1. ASSUME NEW x, SetLoader(m, x), x.pc \notin Reached \cup {"granted"} PROVE LoadGoes(m)
  BY <1>1 DEF LoadGoes, Goes
<1>2. ASSUME DenyLoad(m) PROVE LoadGoes(m)
  <2>1. [pc |-> "denied"].pc \notin Reached \cup {"granted"}
    BY DEF Reached
  <2> QED BY <1>1, <1>2, <2>1 DEF DenyLoad
<1>3. ASSUME NEW kind \in Kinds, load(m, kind) PROVE LoadGoes(m)
  <2> DEFINE x == [pc |-> "roots", kind |-> kind, roots |-> {}, snapshot |-> None, seen |-> None, attempt |-> 1,
                   view |-> None, file |-> None, read |-> None, loaded |-> None]
  <2>1. x.pc \notin Reached \cup {"granted"} /\ SetLoader(m, x)
    BY <1>3 DEF load, Reached
  <2> QED BY <1>1, <2>1
<1>4. loaders[m].pc \notin {"idle", "denied"} => IsLoad(loaders[m])
  BY LoadFields
<1>5. ASSUME IsLoad(loaders[m]), NEW v, NEW w, v \notin Reached \cup {"granted"},
             \/ SetLoader(m, Moved(loaders[m], v)) \/ SetLoader(m, Rooted(loaders[m], v, w))
             \/ SetLoader(m, Informed(loaders[m], v, w)) \/ SetLoader(m, Compared(loaders[m], v, w))
             \/ SetLoader(m, Retried(loaders[m], v, w)) \/ SetLoader(m, Opening(loaders[m], v, w))
             \/ SetLoader(m, Reading(loaders[m], v, w)) \/ SetLoader(m, Bound(loaders[m], v, w))
      PROVE  LoadGoes(m)
  <2>1. /\ Moved(loaders[m], v).pc = v /\ Rooted(loaders[m], v, w).pc = v /\ Informed(loaders[m], v, w).pc = v
        /\ Compared(loaders[m], v, w).pc = v /\ Retried(loaders[m], v, w).pc = v /\ Opening(loaders[m], v, w).pc = v
        /\ Reading(loaders[m], v, w).pc = v /\ Bound(loaders[m], v, w).pc = v
    BY <1>5, LoadChanges DEF Becomes
  <2> QED BY <1>1, <1>5, <2>1
<1>6. ASSUME NEW v \in Reached, NEW w, loaders[m].pc \in Reached,
             SetLoader(m, Moved(loaders[m], v)) \/ SetLoader(m, Viewing(loaders[m], v, w))
      PROVE  LoadGoes(m)
  <2>1. IsLoad(loaders[m])
    BY <1>4, <1>6 DEF Reached
  <2>2. /\ Moved(loaders[m], v).pc = v /\ Viewing(loaders[m], v, w).pc = v
        /\ Moved(loaders[m], v).snapshot = loaders[m].snapshot
        /\ Viewing(loaders[m], v, w).snapshot = loaders[m].snapshot
    BY <2>1, LoadChanges DEF Becomes, SameGrant
  <2> QED BY <1>6, <2>2 DEF LoadGoes, Goes
<1>7. ASSUME SetLoader(m, Moved(loaders[m], "finish")), loaders[m].pc \in {"checkpoint", "swap"},
             checkpoint' = nextCheckpoint(loaders[m].snapshot)
      PROVE  LoadGoes(m)
  <2>1. IsLoad(loaders[m])
    BY <1>4, <1>7
  <2>2. Moved(loaders[m], "finish").pc \in Reached /\ Moved(loaders[m], "finish").snapshot = loaders[m].snapshot
    BY <2>1, LoadChanges DEF Becomes, SameGrant, Reached
  <2> QED BY <1>7, <2>2 DEF LoadGoes, Goes
<1>8. CASE readRootsBefore(m)
  <2>1. DenyLoad(m) \/ SetLoader(m, Rooted(loaders[m], "snapshot", ActiveRoots))
    BY <1>8 DEF readRootsBefore, Rooted
  <2>2. IsLoad(loaders[m]) /\ "snapshot" \notin Reached \cup {"granted"}
    BY <1>4, <1>8 DEF readRootsBefore, LoaderAt, Reached
  <2> QED BY <1>2, <1>5, <2>1, <2>2
<1>9. CASE readSnapshot(m)
  <2>1. DenyLoad(m) \/ SetLoader(m, Informed(loaders[m], "checkpoint", Last(published).snapshot))
    BY <1>9 DEF readSnapshot, Informed
  <2>2. IsLoad(loaders[m]) /\ "checkpoint" \notin Reached \cup {"granted"}
    BY <1>4, <1>9 DEF readSnapshot, LoaderAt, Reached
  <2> QED BY <1>2, <1>5, <2>1, <2>2
<1>10. CASE readCheckpoint(m)
  <2>1. \/ DenyLoad(m) \/ SetLoader(m, Compared(loaders[m], "swap", checkpoint))
        \/ SetLoader(m, Moved(loaders[m], "finish")) /\ checkpoint' = nextCheckpoint(loaders[m].snapshot)
    BY <1>10 DEF readCheckpoint, MoveLoader, Moved, Compared, sameCheckpoint
  <2>2. IsLoad(loaders[m]) /\ loaders[m].pc = "checkpoint" /\ "swap" \notin Reached \cup {"granted"}
    BY <1>4, <1>10 DEF readCheckpoint, LoaderAt, Reached
  <2> QED BY <1>2, <1>5, <1>7, <2>1, <2>2
<1>11. CASE compareAndSwap(m)
  <2>1. \/ DenyLoad(m) \/ SetLoader(m, Retried(loaders[m], "checkpoint", 2))
        \/ SetLoader(m, Moved(loaders[m], "finish")) /\ checkpoint' = nextCheckpoint(loaders[m].snapshot)
    BY <1>11 DEF compareAndSwap, Moved, Retried
  <2>2. IsLoad(loaders[m]) /\ loaders[m].pc = "swap" /\ "checkpoint" \notin Reached \cup {"granted"}
    BY <1>4, <1>11 DEF compareAndSwap, LoaderAt, Reached
  <2> QED BY <1>2, <1>5, <1>7, <2>1, <2>2
<1>12. CASE finishRead(m)
  <2>1. loaders[m].pc \in Reached /\ (DenyLoad(m) \/ SetLoader(m, Moved(loaders[m], "recheck")))
    BY <1>12 DEF finishRead, MoveLoader, Moved, LoaderAt, Reached
  <2> QED BY <1>2, <1>6, <2>1 DEF Reached
<1>13. CASE beginRecheck(m)
  <2> DEFINE view == [roots |-> CurrentRoots, published |-> Len(published)]
  <2>1. loaders[m].pc \in Reached /\ SetLoader(m, Viewing(loaders[m], "locking", view))
    BY <1>13 DEF beginRecheck, Viewing, LoaderAt, Reached
  <2> HIDE DEF view
  <2> QED BY <1>6, <2>1 DEF Reached
<1>14. CASE recheck(m) /\ ~DenyLoad(m)
  <2>1. /\ loaders[m].pc = "locking" /\ SetLoader(m, Moved(loaders[m], "granted"))
        /\ RootsInView(m) = loaders[m].roots /\ LatestInView(m) = loaders[m].snapshot
    BY <1>14 DEF recheck, MoveLoader, Moved, LoaderAt
  <2>2. Moved(loaders[m], "granted").pc = "granted"
    BY <1>4, <2>1, LoadChanges DEF Becomes
  <2> QED BY <2>1, <2>2 DEF LoadGoes, Goes
<1>15. CASE finishLoad(m) \/ abortLoad(m) \/ retainModule(m) \/ \E intact \in BOOLEAN : verifySocketDirectory(m, intact)
  <2>1. DenyLoad(m) \/ \E v \in {"verified", "opened", "loaded"} : SetLoader(m, Moved(loaders[m], v))
    BY <1>15 DEF finishLoad, abortLoad, retainModule, verifySocketDirectory, MoveLoader, Moved
  <2>2. IsLoad(loaders[m]) /\ \A v \in {"verified", "opened", "loaded"} : v \notin Reached \cup {"granted"}
    BY <1>4, <1>15 DEF finishLoad, abortLoad, retainModule, verifySocketDirectory, LoaderAt, Reached
  <2> QED BY <1>2, <1>5, <2>1, <2>2
<1>16. CASE openModule(m)
  <2>1. DenyLoad(m) \/ SetLoader(m, Opening(loaders[m], "open", disk[loaders[m].kind]))
    BY <1>16 DEF openModule, Opening
  <2>2. IsLoad(loaders[m]) /\ "open" \notin Reached \cup {"granted"}
    BY <1>4, <1>16 DEF openModule, LoaderAt, Reached
  <2> QED BY <1>2, <1>5, <2>1, <2>2
<1>17. CASE digestModule(m)
  <2>1. \/ DenyLoad(m)
        \/ SetLoader(m, Bound(loaders[m], "opened", retained[loaders[m].kind]))
        \/ SetLoader(m, Reading(loaders[m], "digested", bytes[loaders[m].file]))
    BY <1>17 DEF digestModule, Bound, Reading
  <2>2. IsLoad(loaders[m]) /\ {"opened", "digested"} \cap (Reached \cup {"granted"}) = {}
    BY <1>4, <1>17 DEF digestModule, LoaderAt, Reached
  <2> QED BY <1>2, <1>5, <2>1, <2>2
<1>18. ASSUME NEW dlopens \in BOOLEAN, mapModule(m, dlopens) PROVE LoadGoes(m)
  <2>1. DenyLoad(m) \/ \E w : SetLoader(m, Bound(loaders[m], "mapped", w))
    BY <1>18 DEF mapModule, Maps, Bound
  <2>2. IsLoad(loaders[m]) /\ "mapped" \notin Reached \cup {"granted"}
    BY <1>4, <1>18 DEF mapModule, Maps, LoaderAt, Reached
  <2> QED BY <1>2, <1>5, <2>1, <2>2
<1> QED BY <1>2, <1>3, <1>8, <1>9, <1>10, <1>11, <1>12, <1>13, <1>14, <1>15, <1>16, <1>17, <1>18

\* The steps that leave the loads and the checkpoint alone.
LEMMA WorldStays ==
    ASSUME \/ ModuleTick \/ UNCHANGED moduleVars \/ Issuing
           \/ \E p \in Callers, r \in RootSigners :
                Len(registry[r]) < MaxRootVersions /\ \E root \in RootRequests(r) : provision(p, root)
           \/ \E kind \in Kinds, file \in Files : replaceFile(kind, file)
           \/ \E file \in Files, image \in Images : writeFile(file, image)
    PROVE  UNCHANGED <<checkpoint, loaders>>
<1>1. ASSUME NEW i \in Issuers, IssuanceGoesOn(i) PROVE UNCHANGED <<checkpoint, loaders>>
  BY <1>1, IssuanceStays DEF store
<1>2. ASSUME NEW i \in Issuers, append(i) PROVE UNCHANGED <<checkpoint, loaders>>
  BY <1>2 DEF append
<1>3. CASE Issuing
  BY <1>1, <1>2, <1>3 DEF Issuing, IssuanceGoesOn
<1> QED BY <1>3 DEF ModuleTick, moduleVars, provision, replaceFile, writeFile, store

\* A load that changes in a step goes on, or is lost in a restart.
LEMMA LoadsGo ==
    ASSUME ModuleSafety, [ModuleNext]_moduleVars, NEW l \in Loaders, loaders'[l] # loaders[l]
    PROVE  loaders'[l].pc = "denied" \/ Goes(l, loaders'[l])
<1>1. CASE restart
  <2>1. loaders'[l] = IF loaders[l].pc \in {"idle", "denied"} THEN loaders[l] ELSE [pc |-> "denied"]
    BY <1>1 DEF restart
  <2> QED BY <2>1
<1>2. CASE Loading
  <2>1. PICK m \in Loaders : LoadGoes(m)
    BY <1>2, LoadBecomes DEF Loading
  <2>2. PICK x : SetLoader(m, x) /\ Goes(m, x)
    BY <2>1 DEF LoadGoes
  <2>3. \A k \in Loaders : loaders'[k] = IF k = m THEN x ELSE loaders[k]
    BY <2>2 DEF SetLoader, ModuleSafety, ModuleShape
  <2> QED BY <2>2, <2>3
<1>3. restart \/ Loading
  BY WorldStays DEF ModuleNext
<1> QED BY <1>1, <1>2, <1>3

\* Only a swap moves the checkpoint, and to the snapshot it has compared.
LEMMA OnlySwapsMove ==
    ASSUME ModuleSafety, [ModuleNext]_moduleVars, checkpoint' # checkpoint
    PROVE  \E l \in Loaders : /\ loaders[l].pc = "swap" /\ checkpoint = loaders[l].seen
                              /\ checkpoint' = nextCheckpoint(loaders[l].snapshot)
<1>1. ~restart
  BY DEF restart, store
<1>2. Loading
  BY <1>1, WorldStays DEF ModuleNext
<1>3. \A m \in Loaders : DenyLoad(m) => checkpoint' = checkpoint
  BY DEF DenyLoad
<1>4. ASSUME NEW m \in Loaders, NEW v, MoveLoader(m, v) PROVE checkpoint' = checkpoint
  BY <1>4 DEF MoveLoader
<1>5. \A m \in Loaders : readRootsBefore(m) \/ readSnapshot(m) \/ readCheckpoint(m) \/ finishRead(m)
        \/ beginRecheck(m) \/ recheck(m) => checkpoint' = checkpoint
  BY <1>3, <1>4 DEF load, readRootsBefore, readSnapshot, readCheckpoint, finishRead, beginRecheck, recheck
<1>6. \A m \in Loaders : openModule(m) \/ digestModule(m) \/ retainModule(m) \/ finishLoad(m) \/ abortLoad(m)
        => checkpoint' = checkpoint
  BY <1>3, <1>4 DEF openModule, digestModule, retainModule, finishLoad, abortLoad
<1>7. \A m \in Loaders : (\E dlopens \in BOOLEAN : mapModule(m, dlopens)) \/ (\E kind \in Kinds : load(m, kind))
        \/ (\E intact \in BOOLEAN : verifySocketDirectory(m, intact)) => checkpoint' = checkpoint
  BY <1>3, <1>4 DEF mapModule, Maps, load, verifySocketDirectory
<1>8. PICK m \in Loaders : compareAndSwap(m)
  BY <1>2, <1>5, <1>6, <1>7 DEF Loading
<1> QED BY <1>3, <1>8 DEF compareAndSwap, LoaderAt

\* The rows that are published stay.
LEMMA PublishedGrows ==
    ASSUME ModuleSafety, [ModuleNext]_moduleVars
    PROVE  Grows(published, published')
<1>1. published' = published => Grows(published, published')
  BY DEF Grows
<1>2. ASSUME NEW i \in Issuers, append(i) PROVE Grows(published, published')
  <2>1. \/ published' = published
        \/ \E row : published' = Append(published, row)
    BY <1>2 DEF append
  <2> QED BY <1>1, <2>1, AppendSequence DEF ModuleSafety, ModuleShape, Grows
<1>3. ASSUME NEW i \in Issuers, IssuanceGoesOn(i) PROVE published' = published
  BY <1>3, IssuanceStays DEF store
<1>4. CASE Issuing
  BY <1>1, <1>2, <1>3, <1>4 DEF Issuing, IssuanceGoesOn
<1>5. CASE Loading
  <2>1. PICK m \in Loaders : LoadGoes(m)
    BY <1>5, LoadBecomes DEF Loading
  <2> QED BY <1>1, <2>1 DEF LoadGoes, SetLoader
<1>6. CASE ~Issuing /\ ~Loading
  BY <1>1, <1>6 DEF ModuleNext, ModuleTick, moduleVars, restart, provision, replaceFile, writeFile, store
<1> QED BY <1>4, <1>5, <1>6

-----------------------------------------------------------------------------
(* The requests of the issuers, and the checkpoint. *)

IsIssuance(x) ==
    \E T : x \in [pc : T, request : T, roots : T, principal : T, approval : T, signature : T]

\* An issuance has a request, a row has a snapshot.
RequestsAreThere ==
    /\ DOMAIN issuers = Issuers
    /\ \A i \in Issuers : issuers[i].pc # "idle" => IsIssuance(issuers[i]) /\ issuers[i].request # None
    /\ \A j \in DOMAIN published : published[j].snapshot # None

WithApproval(x, v, w) == [x EXCEPT !.pc = v, !.approval = w]
WithSignature(x, v, w) == [x EXCEPT !.pc = v, !.signature = w]

LEMMA IssuanceChanges ==
    ASSUME NEW x, IsIssuance(x), NEW v, NEW w
    PROVE  \A y \in {Moved(x, v), Rooted(x, v, w), WithApproval(x, v, w), WithSignature(x, v, w)} :
             IsIssuance(y) /\ y.request = x.request
<1>1. PICK T : x \in [pc : T, request : T, roots : T, principal : T, approval : T, signature : T]
  BY DEF IsIssuance
<1> DEFINE S == T \cup {v, w}
           R == [pc : S, request : S, roots : S, principal : S, approval : S, signature : S]
<1>2. x \in R
  BY <1>1
<1>3. \A y \in R : IsIssuance(y)
  BY DEF IsIssuance
<1>4. /\ Moved(x, v) \in R /\ Moved(x, v).request = x.request
      /\ Rooted(x, v, w) \in R /\ Rooted(x, v, w).request = x.request
  BY <1>2 DEF Moved, Rooted
<1>5. /\ WithApproval(x, v, w) \in R /\ WithApproval(x, v, w).request = x.request
      /\ WithSignature(x, v, w) \in R /\ WithSignature(x, v, w).request = x.request
  BY <1>2 DEF WithApproval, WithSignature
<1> HIDE DEF R
<1> QED BY <1>3, <1>4, <1>5

\* A step of an issuance keeps its request, or ends it.
LEMMA IssuerMoves ==
    ASSUME RequestsAreThere, NEW i \in Issuers, NEW x, issuers' = [issuers EXCEPT ![i] = x], published' = published,
           x.pc # "idle" => IsIssuance(x) /\ x.request # None
    PROVE  RequestsAreThere'
<1>1. \A k \in Issuers : issuers'[k] = IF k = i THEN x ELSE issuers[k]
  BY DEF RequestsAreThere
<1> QED BY <1>1 DEF RequestsAreThere

LEMMA IssuerProgress ==
    ASSUME RequestsAreThere, NEW i \in Issuers, issuers[i].pc # "idle", NEW v, NEW w, published' = published,
           \/ issuers' = [issuers EXCEPT ![i] = [@ EXCEPT !.pc = v]]
           \/ issuers' = [issuers EXCEPT ![i].pc = v, ![i].roots = w]
           \/ issuers' = [issuers EXCEPT ![i].pc = v, ![i].approval = w]
           \/ issuers' = [issuers EXCEPT ![i].pc = v, ![i].signature = w]
           \/ issuers' = [issuers EXCEPT ![i] = Idle]
    PROVE  RequestsAreThere'
<1>1. DOMAIN issuers = Issuers /\ IsIssuance(issuers[i]) /\ issuers[i].request # None
  BY DEF RequestsAreThere
<1>2. CASE issuers' = [issuers EXCEPT ![i] = Idle]
  <2>1. Idle.pc = "idle"
    BY DEF Idle
  <2> QED BY <1>2, <2>1, IssuerMoves
<1>3. ASSUME NEW y \in {Moved(issuers[i], v), Rooted(issuers[i], v, w),
                        WithApproval(issuers[i], v, w), WithSignature(issuers[i], v, w)},
             issuers' = [issuers EXCEPT ![i] = y]
      PROVE  RequestsAreThere'
  <2>1. IsIssuance(y) /\ y.request = issuers[i].request
    BY <1>1, <1>3, IssuanceChanges
  <2> QED BY <1>1, <1>3, <2>1, IssuerMoves
<1>4. CASE issuers' = [issuers EXCEPT ![i] = [@ EXCEPT !.pc = v]]
  <2>1. issuers' = [issuers EXCEPT ![i] = Moved(issuers[i], v)]
    BY <1>1, <1>4 DEF Moved
  <2> QED BY <1>3, <2>1
<1>5. CASE issuers' = [issuers EXCEPT ![i].pc = v, ![i].roots = w]
  <2>1. issuers' = [issuers EXCEPT ![i] = Rooted(issuers[i], v, w)]
    BY <1>1, <1>5 DEF Rooted
  <2> QED BY <1>3, <2>1
<1>6. CASE issuers' = [issuers EXCEPT ![i].pc = v, ![i].approval = w]
  <2>1. issuers' = [issuers EXCEPT ![i] = WithApproval(issuers[i], v, w)]
    BY <1>1, <1>6 DEF WithApproval
  <2> QED BY <1>3, <2>1
<1>7. CASE issuers' = [issuers EXCEPT ![i].pc = v, ![i].signature = w]
  <2>1. issuers' = [issuers EXCEPT ![i] = WithSignature(issuers[i], v, w)]
    BY <1>1, <1>7 DEF WithSignature
  <2> QED BY <1>3, <2>1
<1> QED BY <1>2, <1>4, <1>5, <1>6, <1>7

LEMMA IssuingKeepsRequests ==
    ASSUME NoneIsNoRecord, RequestsAreThere, NEW i \in Issuers, IssuanceGoesOn(i)
    PROVE  RequestsAreThere'
<1>1. published' = published
  BY IssuanceStays DEF store
<1>2. ASSUME NEW p, NEW id, NEW place, NEW r, NEW g, issue(i, p, id, place, r, g) PROVE RequestsAreThere'
  <2> DEFINE s == [id |-> id, version |-> place.version, prev |-> place.prev, signer |-> r, issuedAt |-> now,
                   until |-> now + SnapshotLife, grants |-> g]
             x == [pc |-> "roots", request |-> s, roots |-> {}, principal |-> p, approval |-> None, signature |-> None]
  <2>1. issuers' = [issuers EXCEPT ![i] = x]
    BY <1>2 DEF issue
  <2>2. s # None
    BY DEF NoneIsNoRecord
  <2> HIDE DEF s
  <2>3. x.request = s
    OBVIOUS
  <2>4. IsIssuance(x)
    <3> DEFINE T == {"roots", s, {}, p, None}
    <3>1. x \in [pc : T, request : T, roots : T, principal : T, approval : T, signature : T]
      OBVIOUS
    <3> QED BY <3>1 DEF IsIssuance
  <2> HIDE DEF x
  <2> QED BY <1>1, <2>1, <2>2, <2>3, <2>4, IssuerMoves
<1>3. ASSUME issuers[i].pc # "idle", NEW pc, MoveIssuer(i, pc) PROVE RequestsAreThere'
  <2>1. \/ issuers' = [issuers EXCEPT ![i] = Idle]
        \/ issuers' = [issuers EXCEPT ![i] = [@ EXCEPT !.pc = pc]]
    BY <1>3 DEF MoveIssuer
  <2> QED BY <1>1, <1>3, <2>1, IssuerProgress
<1>4. issuers[i].pc # "idle" /\ Refused(i) => RequestsAreThere'
  BY <1>3 DEF Refused
<1>5. CASE readRoots(i)
  <2>1. issuers[i].pc # "idle" /\ (Refused(i) \/ issuers' = [issuers EXCEPT ![i].pc = "authorize", ![i].roots = ActiveRoots])
    BY <1>5 DEF readRoots, IssuerAt
  <2> QED BY <1>1, <1>4, <2>1, IssuerProgress
<1>6. CASE authorize(i)
  <2> DEFINE a == [from |-> now, until |-> now + ApprovalLife, by |-> issuers[i].principal]
  <2>1. issuers[i].pc # "idle" /\ (Refused(i) \/ issuers' = [issuers EXCEPT ![i].pc = "approved", ![i].approval = a])
    BY <1>6 DEF authorize, IssuerAt
  <2> QED BY <1>1, <1>4, <2>1, IssuerProgress
<1>7. CASE controllerSign(i) \/ publish(i) \/ abortIssue(i)
  BY <1>3, <1>4, <1>7 DEF controllerSign, publish, abortIssue, IssuerAt
<1>8. ASSUME NEW answer, sign(i, answer) PROVE RequestsAreThere'
  <2>1. /\ issuers[i].pc # "idle"
        /\ Refused(i) \/ issuers' = [issuers EXCEPT ![i].pc = "signed", ![i].signature = answer.signature]
    BY <1>8 DEF sign, IssuerAt
  <2> QED BY <1>1, <1>4, <2>1, IssuerProgress
<1> QED BY <1>2, <1>5, <1>6, <1>7, <1>8 DEF IssuanceGoesOn

LEMMA RequestsStay ==
    ASSUME NoneIsNoRecord, ModuleSafety, RequestsAreThere, [ModuleNext]_moduleVars
    PROVE  RequestsAreThere'
<1>1. CASE UNCHANGED <<issuers, published>>
  BY <1>1 DEF RequestsAreThere
<1>2. CASE restart
  BY <1>2 DEF restart, RequestsAreThere, Idle, store
<1>3. ASSUME NEW i \in Issuers, IssuanceGoesOn(i) PROVE RequestsAreThere'
  BY <1>3, IssuingKeepsRequests
<1>4. ASSUME NEW i \in Issuers, append(i) PROVE RequestsAreThere'
  <2> DEFINE row == [snapshot |-> issuers[i].request, evidence |-> issuers[i].approval]
  <2>1. issuers[i].pc = "append" /\ issuers' = [issuers EXCEPT ![i] = Idle]
    BY <1>4 DEF append, IssuerAt
  <2>2. published' = published \/ published' = Append(published, row)
    BY <1>4 DEF append
  <2>3. row.snapshot # None
    BY <2>1 DEF RequestsAreThere
  <2> HIDE DEF row
  <2>4. IsSequence(published)
    BY DEF ModuleSafety, ModuleShape
  <2>5. \A j \in DOMAIN published' : published'[j].snapshot # None
    <3>1. CASE published' = published
      BY <3>1 DEF RequestsAreThere
    <3>2. CASE published' = Append(published, row)
      BY <2>3, <2>4, <3>2, AppendSequence DEF RequestsAreThere
    <3> QED BY <2>2, <3>1, <3>2
  <2> QED BY <2>1, <2>5 DEF RequestsAreThere, Idle
<1>5. CASE Issuing
  BY <1>3, <1>4, <1>5 DEF Issuing, IssuanceGoesOn
<1>6. CASE Loading
  <2>1. PICK m \in Loaders : LoadGoes(m)
    BY <1>6, LoadBecomes DEF Loading
  <2>2. UNCHANGED <<issuers, published>>
    BY <2>1 DEF LoadGoes, SetLoader
  <2> QED BY <1>1, <2>2
<1>7. CASE ~Issuing /\ ~Loading /\ ~restart
  <2>1. UNCHANGED <<issuers, published>>
    BY <1>7 DEF ModuleNext, ModuleTick, replaceFile, writeFile, moduleVars, provision, store
  <2> QED BY <1>1, <2>1
<1> QED BY <1>2, <1>5, <1>6, <1>7

\* Where the checkpoint goes.
LEMMA CheckpointMoves ==
    ASSUME ModuleSafety, RequestsAreThere, [ModuleNext]_moduleVars, checkpoint' # checkpoint
    PROVE  /\ checkpoint'.snapshot.version = (IF checkpoint = None THEN 1 ELSE checkpoint.snapshot.version + 1)
           /\ checkpoint'.snapshot = published[checkpoint'.snapshot.version].snapshot
           /\ checkpoint'.snapshot.version \in DOMAIN published
           /\ checkpoint # None => GrantsAdvance(checkpoint.grants, checkpoint'.grants)
<1>1. PICK l \in Loaders : /\ loaders[l].pc = "swap" /\ checkpoint = loaders[l].seen
                           /\ checkpoint' = nextCheckpoint(loaders[l].snapshot)
  BY OnlySwapsMove
<1> DEFINE s == loaders[l].snapshot
<1>2. checkpoint'.snapshot = s /\ checkpoint'.grants = s.grants
  BY <1>1 DEF nextCheckpoint
<1>3. IsRow(s, published) /\ Successor(checkpoint, s)
  BY <1>1 DEF ModuleSafety, LoadsAreSound, LoadIsSound
<1>4. PICK j \in DOMAIN published : published[j].snapshot = s
  BY <1>3 DEF IsRow
<1>5. /\ s.version = j /\ s.prev = IF j = 1 THEN None ELSE published[j - 1].snapshot
  BY <1>4 DEF ModuleSafety, VersionsHaveNoGaps, SnapshotsAreChained
<1>6. CASE checkpoint = None
  <2>1. s.prev = None
    BY <1>3, <1>6 DEF Successor
  <2>2. j = 1
    <3> SUFFICES ASSUME j # 1 PROVE FALSE
      OBVIOUS
    <3>1. PICK T : published \in Seq(T)
      BY DEF ModuleSafety, ModuleShape, IsSequence
    <3>2. j - 1 \in DOMAIN published
      BY <1>4, <3>1
    <3> QED BY <1>5, <2>1, <3>2 DEF RequestsAreThere
  <2> QED BY <1>2, <1>4, <1>5, <1>6, <2>2
<1>7. CASE checkpoint # None
  BY <1>2, <1>3, <1>4, <1>5, <1>7 DEF Successor
<1> QED BY <1>6, <1>7

\* The checkpoint is a published snapshot, and has reached that of every load
\* behind it.
CheckpointIsReached ==
    /\ checkpoint # None => IsRow(checkpoint.snapshot, published)
    /\ \A l \in Loaders : loaders[l].pc \in Reached =>
         checkpoint # None /\ loaders[l].snapshot.version <= checkpoint.snapshot.version

LEMMA RowsAreNumbered ==
    ASSUME ModuleSafety, NEW s, IsRow(s, published)
    PROVE  s.version \in Nat
<1>1. PICK T : published \in Seq(T)
  BY DEF ModuleSafety, ModuleShape, IsSequence
<1>2. PICK j \in DOMAIN published : published[j].snapshot = s
  BY DEF IsRow
<1>3. j \in Nat
  BY <1>1, <1>2
<1> QED BY <1>2, <1>3 DEF ModuleSafety, VersionsHaveNoGaps

LEMMA CheckpointStaysReached ==
    ASSUME NoneIsNoRecord, ModuleSafety, RequestsAreThere, CheckpointIsReached, [ModuleNext]_moduleVars
    PROVE  CheckpointIsReached'
<1>1. Grows(published, published')
  BY PublishedGrows
<1>2. \A s : IsRow(s, published) => IsRow(s, published')
  BY <1>1 DEF IsRow, Grows
<1>3. checkpoint' # checkpoint =>
        /\ checkpoint'.snapshot.version = (IF checkpoint = None THEN 1 ELSE checkpoint.snapshot.version + 1)
        /\ IsRow(checkpoint'.snapshot, published) /\ checkpoint' # None
  <2> SUFFICES ASSUME checkpoint' # checkpoint
               PROVE  /\ checkpoint'.snapshot.version = (IF checkpoint = None THEN 1 ELSE checkpoint.snapshot.version + 1)
                      /\ IsRow(checkpoint'.snapshot, published) /\ checkpoint' # None
    OBVIOUS
  <2>1. /\ checkpoint'.snapshot.version = (IF checkpoint = None THEN 1 ELSE checkpoint.snapshot.version + 1)
        /\ checkpoint'.snapshot = published[checkpoint'.snapshot.version].snapshot
        /\ checkpoint'.snapshot.version \in DOMAIN published
    BY CheckpointMoves
  <2>2. checkpoint' # None
    BY OnlySwapsMove DEF nextCheckpoint, NoneIsNoRecord
  <2> QED BY <2>1, <2>2 DEF IsRow
<1>4. checkpoint' # None => IsRow(checkpoint'.snapshot, published')
  BY <1>2, <1>3 DEF CheckpointIsReached
<1>5. ASSUME checkpoint # None
      PROVE  checkpoint' # None /\ checkpoint.snapshot.version <= checkpoint'.snapshot.version
  <2>1. checkpoint.snapshot.version \in Nat
    BY <1>5, RowsAreNumbered DEF CheckpointIsReached
  <2> QED BY <1>3, <1>5, <2>1
<1>6. ASSUME NEW l \in Loaders, loaders'[l].pc \in Reached
      PROVE  checkpoint' # None /\ loaders'[l].snapshot.version <= checkpoint'.snapshot.version
  <2>1. CASE loaders[l].pc \in Reached /\ loaders'[l].snapshot = loaders[l].snapshot
    <3>1. checkpoint # None /\ loaders[l].snapshot.version <= checkpoint.snapshot.version
      BY <2>1 DEF CheckpointIsReached
    <3>2. IsRow(loaders[l].snapshot, published)
      BY <2>1 DEF ModuleSafety, LoadsAreSound, LoadIsSound, Reached
    <3>3. loaders[l].snapshot.version \in Nat /\ checkpoint.snapshot.version \in Nat
      BY <3>1, <3>2, RowsAreNumbered DEF CheckpointIsReached
    <3>4. checkpoint' # None /\ checkpoint.snapshot.version <= checkpoint'.snapshot.version
      BY <1>5, <3>1
    <3>5. checkpoint'.snapshot.version \in Nat
      BY <1>3, <3>1, <3>3, <3>4
    <3> QED BY <2>1, <3>1, <3>3, <3>4, <3>5
  <2>2. CASE /\ loaders[l].pc \in {"checkpoint", "swap"} /\ loaders'[l].snapshot = loaders[l].snapshot
             /\ checkpoint' = nextCheckpoint(loaders[l].snapshot)
    <3>1. IsRow(loaders[l].snapshot, published)
      BY <2>2 DEF ModuleSafety, LoadsAreSound, LoadIsSound
    <3>2. loaders[l].snapshot.version \in Nat
      BY <3>1, RowsAreNumbered
    <3>3. checkpoint' # None /\ checkpoint'.snapshot = loaders[l].snapshot
      BY <2>2 DEF nextCheckpoint, NoneIsNoRecord
    <3> QED BY <2>2, <3>2, <3>3
  <2>3. CASE loaders'[l] = loaders[l]
    BY <1>6, <2>1, <2>3
  <2>4. CASE loaders'[l] # loaders[l]
    <3>1. loaders'[l].pc = "denied" \/ Goes(l, loaders'[l])
      BY <2>4, LoadsGo
    <3> QED BY <1>6, <2>1, <2>2, <3>1 DEF Goes, Reached
  <2> QED BY <2>3, <2>4
<1> QED BY <1>4, <1>6 DEF CheckpointIsReached

\* The checkpoint, the requests and the loads together.
LEMMA CheckpointsAreReached ==
    ASSUME NoneIsNoRecord
    PROVE  ModuleSpec => [](ModuleSafety /\ RequestsAreThere /\ CheckpointIsReached)
<1>1. ModuleInit => RequestsAreThere /\ CheckpointIsReached
  BY EmptySequence DEF ModuleInit, RequestsAreThere, CheckpointIsReached, Reached, Idle
<1>2. ModuleSafety /\ RequestsAreThere /\ CheckpointIsReached /\ [ModuleNext]_moduleVars
        => ModuleSafety' /\ RequestsAreThere' /\ CheckpointIsReached'
  BY ModuleNextSafety, RequestsStay, CheckpointStaysReached
<1> QED BY ModuleInitSafety, <1>1, <1>2, PTL DEF ModuleSpec

\* However many readers there are, and whatever is published, rotated or revoked
\* meanwhile: a grant is handed out only of the snapshot that was the latest when
\* the last transaction began, of a root that it saw and that has not ended by the
\* clock now, and behind the checkpoint
\* (PostgresRetainedNativeModuleAuthorizationTrustComposition.read).
THEOREM GrantsAreCurrent ==
    ASSUME NoneIsNoRecord
    PROVE  ModuleSpec => [][GrantIsCurrent]_moduleVars
<1>1. ASSUME ModuleSafety, CheckpointIsReached, [ModuleNext]_moduleVars PROVE GrantIsCurrent
  <2> SUFFICES ASSUME NEW l \in Loaders, Granted(l)
               PROVE  /\ loaders[l].snapshot = published[loaders[l].view.published].snapshot
                      /\ \E root \in loaders[l].view.roots : root.signer = loaders[l].snapshot.signer /\ LiveRoot(root)
                      /\ checkpoint # None /\ checkpoint.snapshot.version >= loaders[l].snapshot.version
    BY DEF GrantIsCurrent
  <2>1. loaders'[l] # loaders[l] /\ loaders'[l].pc = "granted"
    BY DEF Granted
  <2>2. Goes(l, loaders'[l])
    BY <1>1, <2>1, LoadsGo
  <2>3. /\ loaders[l].pc = "locking"
        /\ RootsInView(l) = loaders[l].roots /\ LatestInView(l) = loaders[l].snapshot
    BY <2>1, <2>2 DEF Goes, Reached
  <2>4. \E root \in loaders[l].roots : root.signer = loaders[l].snapshot.signer
    BY <1>1, <2>3 DEF ModuleSafety, LoadsAreSound, LoadIsSound
  <2>5. \E root \in loaders[l].view.roots : root.signer = loaders[l].snapshot.signer /\ LiveRoot(root)
    BY <2>3, <2>4 DEF RootsInView
  <2>6. checkpoint # None /\ checkpoint.snapshot.version >= loaders[l].snapshot.version
    <3>1. checkpoint # None /\ loaders[l].snapshot.version <= checkpoint.snapshot.version
      BY <1>1, <2>3 DEF CheckpointIsReached, Reached
    <3>2. IsRow(loaders[l].snapshot, published)
      BY <1>1, <2>3 DEF ModuleSafety, LoadsAreSound, LoadIsSound
    <3>3. loaders[l].snapshot.version \in Nat /\ checkpoint.snapshot.version \in Nat
      BY <1>1, <3>1, <3>2, RowsAreNumbered DEF CheckpointIsReached
    <3> QED BY <3>1, <3>3
  <2> QED BY <2>3, <2>5, <2>6 DEF LatestInView
<1> QED BY <1>1, CheckpointsAreReached, PTL DEF ModuleSpec

\* Whatever readers race and however often one is overtaken: the checkpoint
\* only moves to the next published snapshot, and no grant that keeps its id
\* goes back (#advanceCheckpoint, compareAndSwap).
THEOREM CheckpointsAdvance ==
    ASSUME NoneIsNoRecord
    PROVE  ModuleSpec => [][CheckpointAdvances]_moduleVars
<1>1. ModuleSafety /\ RequestsAreThere /\ [ModuleNext]_moduleVars => CheckpointAdvances
  BY CheckpointMoves DEF CheckpointAdvances
<1> QED BY <1>1, CheckpointsAreReached, PTL DEF ModuleSpec

(***************************************************************************)
(* Supervision.                                                            *)
(***************************************************************************)

\* A call of prepare, a plan and a call of execute, whatever is in their fields.
IsCall(x) ==
    \E T : x \in [pc : T, manifest : T, verifier : T, decision : T, handle : T, stat : T, evidence : T]
IsPlan(p) ==
    \E T : p \in [plan : T, request : T, manifest : T, decision : T, evidence : T, binding : T, expiresAt : T]
IsExecution(e) == \E T : e \in [pc : T, plan : T, revoked : T, handoff : T]

Holding == {"open", "digest", "recheck", "date", "admit"}
Preparing == {"trust", "decision"} \cup Holding

SeenHolds(seen, executable) == seen = [identity |-> executable.identity, content |-> executable.sha256]

EvidenceHolds(e) == e.observedAt \in Nat /\ e.expiresAt \in Nat /\ SeenHolds(e.seen, e.executable)

\* The descriptor of a call, against the inodes: what was digested has not
\* been written while the time of its last change is the one first seen.
DescriptorHolds(x, table) ==
    /\ x.handle \in Inodes /\ x.handle = x.manifest.executable.identity
    /\ x.stat \in Nat /\ x.stat <= table[x.handle].changedAt
    /\ x.pc = "recheck" /\ table[x.handle].changedAt = x.stat =>
         table[x.handle].content = x.manifest.executable.sha256

CallHolds(x, table) ==
    x.pc \in Preparing =>
        /\ IsCall(x)
        /\ x.pc \in Holding => x.decision \in LaunchDecisions
        /\ x.pc \in {"digest", "recheck"} => DescriptorHolds(x, table)
        /\ x.pc = "date" => SeenHolds(x.evidence, x.manifest.executable)
        /\ x.pc = "admit" => EvidenceHolds(x.evidence)

PlanHolds(p) ==
    /\ IsPlan(p)
    /\ p.decision \in LaunchDecisions /\ EvidenceHolds(p.evidence)
    /\ p.expiresAt \in Nat /\ p.expiresAt <= p.decision.authorization.until

\* A call or its plan holds a decision, since when, and until when.
Holds(x) == x.pc = "prepared" \/ x.pc \in Holding
DecisionOf(x, p) == IF x.pc = "prepared" THEN p.decision ELSE x.decision
NonceOf(x, p) == DecisionOf(x, p).nonce
UntilOf(x, p) == DecisionOf(x, p).authorization.until
SinceOf(x, p, t) ==
    IF x.pc = "prepared" THEN p.evidence.observedAt ELSE IF x.pc = "admit" THEN x.evidence.observedAt ELSE t

\* The nonce of a decision stays consumed while its authorization lasts.
NonceIsKept(x, p, t, keys) ==
    Holds(x) /\ t < UntilOf(x, p) =>
        [key |-> <<"nonce", NonceOf(x, p)>>, expiresAt |-> UntilOf(x, p)] \in keys

\* One of two holders of a nonce began when the other's authorization was over.
Apart(x, p, y, q, t) ==
    Holds(x) /\ Holds(y) /\ NonceOf(x, p) = NonceOf(y, q) =>
        UntilOf(x, p) <= SinceOf(y, q, t) \/ UntilOf(y, q) <= SinceOf(x, p, t)

NoncesAreApart ==
    /\ \A c \in Calls : NonceIsKept(calls[c], plans[c], now, consumed)
    /\ \A c, d \in Calls : c # d => Apart(calls[c], plans[c], calls[d], plans[d], now)

WorldHolds ==
    /\ now \in Nat /\ source \in {"absent", "deny", "configured"}
    /\ link \in Inodes /\ inodes \in [Inodes -> [content : Contents, changedAt : Nat]]
    /\ trust \in [TrustedSigners -> [from : {0}, until : {Horizon + 1}, revokedAt : Nat \cup {None}]]
    /\ \A s \in TrustedSigners : trust[s].revokedAt # None => trust[s].revokedAt \in Nat /\ trust[s].revokedAt <= now

CallsHold ==
    /\ DOMAIN calls = Calls /\ DOMAIN plans = Calls
    /\ \A c \in Calls :
        /\ CallHolds(calls[c], inodes)
        /\ IF calls[c].pc = "prepared" THEN PlanHolds(plans[c]) ELSE plans[c] = None

Handing(e) == e.pc = "launching" /\ e.handoff = "ACTIVE"

\* What an execution was given: the plan it names, and those revoked before it.
ExecutionHolds(e) ==
    e.pc \in {"trust", "launching"} =>
        /\ IsExecution(e)
        /\ e.plan \in Calls /\ calls[e.plan].pc = "prepared"
        /\ e.revoked \subseteq {s \in TrustedSigners : trust[s].revokedAt # None}
        /\ e.pc = "launching" => /\ plans[e.plan].plan = "CONSUMED"
                                 /\ plans[e.plan].decision.authorization.signer \notin e.revoked

LaunchHolds(l) ==
    /\ l.plan \in Calls /\ calls[l.plan].pc = "prepared" /\ plans[l.plan].plan = "CONSUMED"
    /\ l.at < plans[l.plan].expiresAt
    /\ plans[l.plan].decision.authorization.signer \notin l.revoked

LaunchesAreTaken ==
    /\ DOMAIN executions = Executors
    /\ \A x \in Executors : ExecutionHolds(executions[x])
    /\ \A l \in launches : LaunchHolds(l)
    /\ \A x, y \in Executors :
        x # y /\ Handing(executions[x]) /\ Handing(executions[y]) => executions[x].plan # executions[y].plan
    /\ \A x \in Executors, l \in launches : Handing(executions[x]) => l.plan # executions[x].plan
    /\ \A k, l \in launches : k # l => k.plan # l.plan

LaunchSafety == WorldHolds /\ CallsHold /\ NoncesAreApart /\ LaunchesAreTaken

LEMMA SupervisionInitSafety == SupervisionInit => LaunchSafety
<1> SUFFICES ASSUME SupervisionInit PROVE LaunchSafety
  OBVIOUS
<1> USE DEF SupervisionInit
<1>1. WorldHolds
  <2>1. inodes \in [Inodes -> [content : Contents, changedAt : Nat]]
    OBVIOUS
  <2>2. \A s \in TrustedSigners : trust[s] \in [from : {0}, until : {Horizon + 1}, revokedAt : Nat \cup {None}] /\ trust[s].revokedAt = None
    OBVIOUS
  <2>3. trust \in [TrustedSigners -> [from : {0}, until : {Horizon + 1}, revokedAt : Nat \cup {None}]]
    BY <2>2
  <2> QED BY <2>1, <2>2, <2>3 DEF WorldHolds
<1>2. CallsHold
  BY DEF CallsHold, CallHolds, PlanHolds, Preparing, Holding
<1>3. NoncesAreApart
  BY DEF NoncesAreApart, NonceIsKept, Apart, Holds, Holding
<1>4. LaunchesAreTaken
  BY DEF LaunchesAreTaken, ExecutionHolds, Handing
<1> QED BY <1>1, <1>2, <1>3, <1>4 DEF LaunchSafety

-----------------------------------------------------------------------------
(* What a call of prepare holds, and what it keeps. *)

\* What a call or its plan holds, it held before.
Keeps(x, p, y, q, t) ==
    Holds(y) => Holds(x) /\ DecisionOf(y, q) = DecisionOf(x, p) /\ SinceOf(y, q, t) = SinceOf(x, p, t)

LEMMA NoncesKeep ==
    ASSUME NoncesAreApart, now' = now, consumed' = consumed,
           \A c \in Calls : Keeps(calls[c], plans[c], calls'[c], plans'[c], now)
    PROVE  NoncesAreApart'
<1>1. ASSUME NEW c \in Calls PROVE NonceIsKept(calls[c], plans[c], now, consumed)'
  BY <1>1 DEF NoncesAreApart, NonceIsKept, Keeps, NonceOf, UntilOf
<1>2. ASSUME NEW c \in Calls, NEW d \in Calls, c # d PROVE Apart(calls[c], plans[c], calls[d], plans[d], now)'
  <2>1. Apart(calls[c], plans[c], calls[d], plans[d], now)
    BY <1>2 DEF NoncesAreApart
  <2>2. Keeps(calls[c], plans[c], calls'[c], plans'[c], now) /\ Keeps(calls[d], plans[d], calls'[d], plans'[d], now)
    OBVIOUS
  <2> QED BY <2>1, <2>2 DEF Apart, Keeps, NonceOf, UntilOf
<1> QED BY <1>1, <1>2 DEF NoncesAreApart

LEMMA LaunchesKeep ==
    ASSUME LaunchesAreTaken, executions' = executions, launches' = launches,
           \A c \in Calls : calls[c].pc = "prepared" => calls'[c].pc = "prepared" /\ plans'[c] = plans[c],
           \A s \in TrustedSigners : trust[s].revokedAt # None => trust'[s].revokedAt # None
    PROVE  LaunchesAreTaken'
<1>1. ASSUME NEW x \in Executors PROVE ExecutionHolds(executions[x])'
  BY <1>1 DEF LaunchesAreTaken, ExecutionHolds
<1>2. ASSUME NEW l \in launches PROVE LaunchHolds(l)'
  BY <1>2 DEF LaunchesAreTaken, LaunchHolds
<1> QED BY <1>1, <1>2 DEF LaunchesAreTaken

\* A step of the call c of prepare, and of nothing else.
Prepares(c, new) ==
    /\ calls' = [calls EXCEPT ![c] = new]
    /\ UNCHANGED <<world, plans, executions, launches>>

LEMMA PrepareShape ==
    ASSUME LaunchSafety, NEW c \in Calls, NEW new, Prepares(c, new), calls[c].pc # "prepared",
           new.pc # "prepared", CallHolds(new, inodes)
    PROVE  /\ WorldHolds' /\ CallsHold' /\ LaunchesAreTaken' /\ plans[c] = None
           /\ calls'[c] = new /\ \A d \in Calls \ {c} : calls'[d] = calls[d]
<1> USE DEF LaunchSafety
<1>1. DOMAIN calls = Calls
  BY DEF CallsHold
<1>2. calls'[c] = new /\ DOMAIN calls' = Calls /\ \A d \in Calls \ {c} : calls'[d] = calls[d]
  BY <1>1 DEF Prepares
<1>3. UNCHANGED <<now, source, trust, inodes, link, plans, executions, launches>>
  BY DEF Prepares, world, files
<1>4. WorldHolds'
  BY <1>3 DEF WorldHolds
<1>5. plans[c] = None
  BY DEF CallsHold
<1>6. CallsHold'
  BY <1>2, <1>3, <1>5 DEF CallsHold
<1>7. ASSUME NEW d \in Calls, calls[d].pc = "prepared" PROVE calls'[d].pc = "prepared" /\ plans'[d] = plans[d]
  BY <1>2, <1>3, <1>7
<1>8. LaunchesAreTaken'
  BY <1>3, <1>7, LaunchesKeep
<1> QED BY <1>2, <1>4, <1>5, <1>6, <1>8

LEMMA PrepareKeeps ==
    ASSUME LaunchSafety, NEW c \in Calls, NEW new, Prepares(c, new), consumed' = consumed,
           calls[c].pc # "prepared", new.pc # "prepared", CallHolds(new, inodes), Keeps(calls[c], None, new, None, now)
    PROVE  LaunchSafety'
<1>1. /\ WorldHolds' /\ CallsHold' /\ LaunchesAreTaken' /\ plans[c] = None
      /\ calls'[c] = new /\ \A d \in Calls \ {c} : calls'[d] = calls[d]
  BY PrepareShape
<1>2. now' = now /\ plans' = plans
  BY DEF Prepares, world
<1>3. ASSUME NEW d \in Calls PROVE Keeps(calls[d], plans[d], calls'[d], plans'[d], now)
  <2>1. CASE d = c
    BY <1>1, <1>2, <2>1
  <2>2. CASE d # c
    BY <1>1, <1>2, <2>2 DEF Keeps
  <2> QED BY <2>1, <2>2
<1>4. NoncesAreApart'
  BY <1>2, <1>3, NoncesKeep DEF LaunchSafety
<1> QED BY <1>1, <1>4 DEF LaunchSafety

LEMMA DeniedHolds ==
    /\ CallHolds([pc |-> "denied"], inodes)
    /\ \A x : Keeps(x, None, [pc |-> "denied"], None, now)
    /\ [pc |-> "denied"].pc # "prepared" /\ ~Holds([pc |-> "denied"])
BY DEF CallHolds, Keeps, Holds, Holding, Preparing

LEMMA DeniedKeeps ==
    ASSUME LaunchSafety, NEW c \in Calls, Denied(c), calls[c].pc # "prepared",
           UNCHANGED <<world, consumed, plans, executions, launches>>
    PROVE  LaunchSafety'
<1>1. Prepares(c, [pc |-> "denied"])
  BY DEF Denied, Prepares
<1> QED BY <1>1, DeniedHolds, PrepareKeeps

\* A call with what a step of prepare adds to it.
WithVerifier(x, verifier) == [x EXCEPT !.pc = "decision", !.verifier = verifier]
WithDecision(x, d) == [x EXCEPT !.pc = "open", !.decision = d]
WithHandle(x, i, stat) == [x EXCEPT !.pc = "digest", !.handle = i, !.stat = stat]
WithDigest(x) == [x EXCEPT !.pc = "recheck"]
WithSeen(x, e) == [x EXCEPT !.pc = "date", !.evidence = e]
WithEvidence(x, e) == [x EXCEPT !.pc = "admit", !.evidence = e]

LEMMA CallFields ==
    ASSUME NEW x, IsCall(x), NEW v, NEW w
    PROVE  /\ IsCall(WithVerifier(x, v)) /\ WithVerifier(x, v).pc = "decision"
           /\ IsCall(WithDecision(x, v)) /\ WithDecision(x, v).pc = "open" /\ WithDecision(x, v).decision = v
           /\ IsCall(WithHandle(x, v, w)) /\ WithHandle(x, v, w).pc = "digest"
           /\ WithHandle(x, v, w).handle = v /\ WithHandle(x, v, w).stat = w
           /\ WithHandle(x, v, w).manifest = x.manifest /\ WithHandle(x, v, w).decision = x.decision
           /\ IsCall(WithDigest(x)) /\ WithDigest(x).pc = "recheck"
           /\ WithDigest(x).handle = x.handle /\ WithDigest(x).stat = x.stat
           /\ WithDigest(x).manifest = x.manifest /\ WithDigest(x).decision = x.decision
           /\ IsCall(WithSeen(x, v)) /\ WithSeen(x, v).pc = "date" /\ WithSeen(x, v).evidence = v
           /\ WithSeen(x, v).manifest = x.manifest /\ WithSeen(x, v).decision = x.decision
           /\ IsCall(WithEvidence(x, v)) /\ WithEvidence(x, v).pc = "admit"
           /\ WithEvidence(x, v).evidence = v /\ WithEvidence(x, v).decision = x.decision
<1>1. PICK T : x \in [pc : T, manifest : T, verifier : T, decision : T, handle : T, stat : T, evidence : T]
  BY DEF IsCall
<1> DEFINE S == T \cup {v, w, "decision", "open", "digest", "recheck", "date", "admit"}
           R == [pc : S, manifest : S, verifier : S, decision : S, handle : S, stat : S, evidence : S]
<1>2. x \in R
  BY <1>1
<1>3. WithVerifier(x, v) \in R /\ WithVerifier(x, v).pc = "decision"
  BY <1>2 DEF WithVerifier
<1>4. WithDecision(x, v) \in R /\ WithDecision(x, v).pc = "open" /\ WithDecision(x, v).decision = v
  BY <1>2 DEF WithDecision
<1>5. /\ WithHandle(x, v, w) \in R /\ WithHandle(x, v, w).pc = "digest"
      /\ WithHandle(x, v, w).handle = v /\ WithHandle(x, v, w).stat = w
      /\ WithHandle(x, v, w).manifest = x.manifest /\ WithHandle(x, v, w).decision = x.decision
  BY <1>2 DEF WithHandle
<1>6. /\ WithDigest(x) \in R /\ WithDigest(x).pc = "recheck"
      /\ WithDigest(x).handle = x.handle /\ WithDigest(x).stat = x.stat
      /\ WithDigest(x).manifest = x.manifest /\ WithDigest(x).decision = x.decision
  BY <1>2 DEF WithDigest
<1>7. /\ WithEvidence(x, v) \in R /\ WithEvidence(x, v).pc = "admit"
      /\ WithEvidence(x, v).evidence = v /\ WithEvidence(x, v).decision = x.decision
  BY <1>2 DEF WithEvidence
<1>8. /\ WithSeen(x, v) \in R /\ WithSeen(x, v).pc = "date" /\ WithSeen(x, v).evidence = v
      /\ WithSeen(x, v).manifest = x.manifest /\ WithSeen(x, v).decision = x.decision
  BY <1>2 DEF WithSeen
<1>9. \A y \in R : IsCall(y)
  BY DEF IsCall
<1> QED BY <1>3, <1>4, <1>5, <1>6, <1>7, <1>8, <1>9

LEMMA PrepareBegins ==
    ASSUME LaunchSafety, NEW c \in Calls, NEW m, prepare(c, m)
    PROVE  LaunchSafety'
<1> DEFINE new == [pc |-> "trust", manifest |-> m, verifier |-> None, decision |-> None, handle |-> None,
                   stat |-> None, evidence |-> None]
<1>1. Prepares(c, new) /\ consumed' = consumed /\ calls[c].pc # "prepared"
  BY DEF prepare, Prepares
<1>2. IsCall(new)
  <2>1. new \in [pc : {"trust", m, None}, manifest : {"trust", m, None}, verifier : {"trust", m, None},
                 decision : {"trust", m, None}, handle : {"trust", m, None}, stat : {"trust", m, None},
                 evidence : {"trust", m, None}]
    OBVIOUS
  <2> QED BY <2>1 DEF IsCall
<1>3. new.pc = "trust"
  OBVIOUS
<1> HIDE DEF new
<1>4. CallHolds(new, inodes) /\ Keeps(calls[c], None, new, None, now)
  BY <1>2, <1>3 DEF CallHolds, Keeps, Holds, Holding
<1> QED BY <1>1, <1>3, <1>4, PrepareKeeps

LEMMA TrustKeeps ==
    ASSUME LaunchSafety, NEW c \in Calls, NEW fails \in BOOLEAN, readTrust(c, fails)
    PROVE  LaunchSafety'
<1>1. PICK verifier : \/ Denied(c)
                      \/ calls' = [calls EXCEPT ![c].pc = "decision", ![c].verifier = verifier]
  BY DEF readTrust
<1>2. calls[c].pc = "trust" /\ UNCHANGED <<world, consumed, plans, executions, launches>>
  BY DEF readTrust
<1>3. CASE Denied(c)
  BY <1>2, <1>3, DeniedKeeps
<1>4. CASE calls' = [calls EXCEPT ![c].pc = "decision", ![c].verifier = verifier]
  <2> DEFINE new == WithVerifier(calls[c], verifier)
  <2>1. DOMAIN calls = Calls /\ IsCall(calls[c])
    BY <1>2 DEF LaunchSafety, CallsHold, CallHolds, Preparing
  <2>2. Prepares(c, new)
    BY <1>2, <1>4, <2>1 DEF WithVerifier, Prepares
  <2>3. IsCall(new) /\ new.pc = "decision"
    BY <2>1, CallFields
  <2> HIDE DEF new
  <2>4. CallHolds(new, inodes) /\ Keeps(calls[c], None, new, None, now)
    BY <2>3 DEF CallHolds, Keeps, Holds, Holding
  <2> QED BY <1>2, <2>2, <2>3, <2>4, PrepareKeeps
<1> QED BY <1>1, <1>3, <1>4

LEMMA OpenKeeps ==
    ASSUME LaunchSafety, NEW c \in Calls, openExecutable(c)
    PROVE  LaunchSafety'
<1>1. calls[c].pc = "open" /\ UNCHANGED <<world, consumed, plans, executions, launches>>
  BY DEF openExecutable
<1>2. CASE Denied(c)
  BY <1>1, <1>2, DeniedKeeps
<1>3. CASE ~Denied(c)
  <2> DEFINE new == WithHandle(calls[c], link, inodes[link].changedAt)
  <2>1. /\ link = calls[c].manifest.executable.identity
        /\ calls' = [calls EXCEPT ![c].pc = "digest", ![c].handle = link, ![c].stat = inodes[link].changedAt]
    BY <1>3 DEF openExecutable, linuxIdentity
  <2>2. DOMAIN calls = Calls /\ IsCall(calls[c]) /\ calls[c].decision \in LaunchDecisions
    BY <1>1 DEF LaunchSafety, CallsHold, CallHolds, Preparing, Holding
  <2>3. Prepares(c, new)
    BY <1>1, <2>1, <2>2 DEF WithHandle, Prepares
  <2>4. /\ IsCall(new) /\ new.pc = "digest" /\ new.handle = link /\ new.stat = inodes[link].changedAt
        /\ new.manifest = calls[c].manifest /\ new.decision = calls[c].decision
    BY <2>2, CallFields
  <2> HIDE DEF new
  <2>5. inodes[link].changedAt \in Nat /\ link \in Inodes
    BY DEF LaunchSafety, WorldHolds
  <2>6. DescriptorHolds(new, inodes)
    BY <2>1, <2>4, <2>5 DEF DescriptorHolds
  <2>7. CallHolds(new, inodes) /\ Keeps(calls[c], None, new, None, now)
    BY <1>1, <2>2, <2>4, <2>6 DEF CallHolds, Keeps, Holds, Holding, DecisionOf, SinceOf
  <2> QED BY <1>1, <2>3, <2>4, <2>7, PrepareKeeps
<1> QED BY <1>2, <1>3

LEMMA DigestKeeps ==
    ASSUME LaunchSafety, NEW c \in Calls, digestOpenedFile(c)
    PROVE  LaunchSafety'
<1>1. calls[c].pc = "digest" /\ UNCHANGED <<world, consumed, plans, executions, launches>>
  BY DEF digestOpenedFile
<1>2. CASE Denied(c)
  BY <1>1, <1>2, DeniedKeeps
<1>3. CASE ~Denied(c)
  <2> DEFINE new == WithDigest(calls[c])
  <2>1. /\ inodes[calls[c].handle].content = calls[c].manifest.executable.sha256
        /\ calls' = [calls EXCEPT ![c].pc = "recheck"]
    BY <1>3 DEF digestOpenedFile
  <2>2. /\ DOMAIN calls = Calls /\ IsCall(calls[c]) /\ calls[c].decision \in LaunchDecisions
        /\ DescriptorHolds(calls[c], inodes)
    BY <1>1 DEF LaunchSafety, CallsHold, CallHolds, Preparing, Holding
  <2>3. Prepares(c, new)
    BY <1>1, <2>1, <2>2 DEF WithDigest, Prepares
  <2>4. /\ IsCall(new) /\ new.pc = "recheck" /\ new.handle = calls[c].handle /\ new.stat = calls[c].stat
        /\ new.manifest = calls[c].manifest /\ new.decision = calls[c].decision
    BY <2>2, CallFields
  <2> HIDE DEF new
  <2>5. DescriptorHolds(new, inodes)
    BY <2>1, <2>2, <2>4 DEF DescriptorHolds
  <2>6. CallHolds(new, inodes) /\ Keeps(calls[c], None, new, None, now)
    BY <1>1, <2>2, <2>4, <2>5 DEF CallHolds, Keeps, Holds, Holding, DecisionOf, SinceOf
  <2> QED BY <1>1, <2>3, <2>4, <2>6, PrepareKeeps
<1> QED BY <1>2, <1>3

\* What is seen of an unchanged file is what the manifest says.
LEMMA RecheckKeeps ==
    ASSUME LaunchSafety, NEW c \in Calls, recheckExecutable(c)
    PROVE  LaunchSafety'
<1> DEFINE m == calls[c].manifest
           seen == [identity |-> link, content |-> inodes[link].content]
           new == WithSeen(calls[c], seen)
<1>1. calls[c].pc = "recheck" /\ UNCHANGED <<world, consumed, plans, executions, launches>>
  BY DEF recheckExecutable
<1>2. CASE Denied(c)
  BY <1>1, <1>2, DeniedKeeps
<1>3. CASE ~Denied(c)
  <2>1. SameFile(calls[c]) /\ calls' = [calls EXCEPT ![c].pc = "date", ![c].evidence = seen]
    BY <1>3 DEF recheckExecutable
  <2>2. /\ DOMAIN calls = Calls /\ IsCall(calls[c]) /\ calls[c].decision \in LaunchDecisions
        /\ DescriptorHolds(calls[c], inodes)
    BY <1>1 DEF LaunchSafety, CallsHold, CallHolds, Preparing, Holding
  <2>3. link = m.executable.identity /\ inodes[link].content = m.executable.sha256
    BY <1>1, <2>1, <2>2 DEF SameFile, DescriptorHolds
  <2>4. SeenHolds(seen, m.executable)
    BY <2>3 DEF SeenHolds
  <2> HIDE DEF seen
  <2>5. Prepares(c, new)
    BY <1>1, <2>1, <2>2 DEF WithSeen, Prepares
  <2>6. /\ IsCall(new) /\ new.pc = "date" /\ new.evidence = seen /\ new.manifest = m
        /\ new.decision = calls[c].decision
    BY <2>2, CallFields
  <2> HIDE DEF new
  <2>7. CallHolds(new, inodes) /\ Keeps(calls[c], None, new, None, now)
    BY <1>1, <2>2, <2>4, <2>6 DEF CallHolds, Keeps, Holds, Holding, DecisionOf, SinceOf
  <2> QED BY <1>1, <2>5, <2>6, <2>7, PrepareKeeps
<1> QED BY <1>2, <1>3

LEMMA DateKeeps ==
    ASSUME LaunchSafety, NEW c \in Calls, dateEvidence(c)
    PROVE  LaunchSafety'
<1> DEFINE a == calls[c].decision.authorization
           m == calls[c].manifest
           evidence == [manifest |-> m, executable |-> m.executable, authorization |-> a,
                        observedAt |-> now, expiresAt |-> Lesser(now + EvidenceLifetime, a.until),
                        seen |-> calls[c].evidence]
           new == WithEvidence(calls[c], evidence)
<1>1. calls[c].pc = "date" /\ UNCHANGED <<world, consumed, plans, executions, launches>>
  BY DEF dateEvidence
<1>2. CASE Denied(c)
  BY <1>1, <1>2, DeniedKeeps
<1>3. CASE ~Denied(c)
  <2>1. calls' = [calls EXCEPT ![c].pc = "admit", ![c].evidence = evidence]
    BY <1>3 DEF dateEvidence
  <2>2. /\ DOMAIN calls = Calls /\ IsCall(calls[c]) /\ calls[c].decision \in LaunchDecisions
        /\ SeenHolds(calls[c].evidence, m.executable)
    BY <1>1 DEF LaunchSafety, CallsHold, CallHolds, Preparing, Holding
  <2>3. a.until \in Nat /\ now \in Nat /\ EvidenceLifetime \in Nat
    BY <2>2, SignersAssumption, LimitsAssumption DEF LaunchSafety, WorldHolds
  <2>4. /\ evidence.observedAt = now /\ evidence.expiresAt \in Nat /\ evidence.executable = m.executable
        /\ evidence.seen = calls[c].evidence
    BY <2>3 DEF Lesser
  <2> HIDE DEF evidence
  <2>5. EvidenceHolds(evidence)
    BY <2>2, <2>3, <2>4 DEF EvidenceHolds
  <2>6. Prepares(c, new)
    BY <1>1, <2>1, <2>2 DEF WithEvidence, Prepares
  <2>7. /\ IsCall(new) /\ new.pc = "admit" /\ new.evidence = evidence /\ new.decision = calls[c].decision
    BY <2>2, CallFields
  <2> HIDE DEF new
  <2>8. CallHolds(new, inodes) /\ Keeps(calls[c], None, new, None, now)
    BY <1>1, <2>2, <2>4, <2>5, <2>7 DEF CallHolds, Keeps, Holds, Holding, DecisionOf, SinceOf
  <2> QED BY <1>1, <2>6, <2>7, <2>8, PrepareKeeps
<1> QED BY <1>2, <1>3

\* A key that has not expired is not forgotten.
LEMMA KeptWhileCurrent ==
    ASSUME NEW x, NEW p, NEW keys, NonceIsKept(x, p, now, consumed), Unexpired \subseteq keys
    PROVE  NonceIsKept(x, p, now, keys)
<1> SUFFICES ASSUME Holds(x), now < UntilOf(x, p)
             PROVE  [key |-> <<"nonce", NonceOf(x, p)>>, expiresAt |-> UntilOf(x, p)] \in keys
  BY DEF NonceIsKept
<1> DEFINE k == [key |-> <<"nonce", NonceOf(x, p)>>, expiresAt |-> UntilOf(x, p)]
<1>1. k \in consumed /\ k.expiresAt > now
  <2>1. k \in consumed
    BY DEF NonceIsKept
  <2>2. k.expiresAt = UntilOf(x, p)
    OBVIOUS
  <2> QED BY <2>1, <2>2
<1>2. k \in Unexpired
  BY <1>1 DEF Unexpired
<1> QED BY <1>2

\* No call holds the nonce of a decision whose keys are fresh, unless its
\* authorization is over.
LEMMA FreshIsApart ==
    ASSUME NEW x, NEW p, NEW d, NonceIsKept(x, p, now, consumed), Holds(x), NonceOf(x, p) = d.nonce,
           Keys(d) \cap {k.key : k \in Unexpired} = {}
    PROVE  ~(now < UntilOf(x, p))
<1> SUFFICES ASSUME now < UntilOf(x, p) PROVE FALSE
  OBVIOUS
<1> DEFINE k == [key |-> <<"nonce", NonceOf(x, p)>>, expiresAt |-> UntilOf(x, p)]
<1>1. k \in Unexpired /\ k.key = <<"nonce", d.nonce>>
  <2>1. k \in consumed
    BY DEF NonceIsKept
  <2>2. k.expiresAt = UntilOf(x, p) /\ k.key = <<"nonce", d.nonce>>
    OBVIOUS
  <2> QED BY <2>1, <2>2 DEF Unexpired
<1>2. <<"nonce", d.nonce>> \in Keys(d)
  BY DEF Keys
<1> QED BY <1>1, <1>2

\* Decisions have ends, and what holds one began at some time.
LEMMA HoldersAreDated ==
    ASSUME WorldHolds, CallsHold, NEW c \in Calls, Holds(calls[c])
    PROVE  UntilOf(calls[c], plans[c]) \in Nat /\ SinceOf(calls[c], plans[c], now) \in Nat
<1>1. DecisionOf(calls[c], plans[c]) \in LaunchDecisions
  BY DEF CallsHold, CallHolds, PlanHolds, Holds, DecisionOf, Preparing
<1>2. UntilOf(calls[c], plans[c]) \in Nat
  BY <1>1, SignersAssumption DEF UntilOf
<1>3. SinceOf(calls[c], plans[c], now) \in Nat
  BY DEF CallsHold, CallHolds, PlanHolds, EvidenceHolds, Holds, SinceOf, Preparing, Holding, WorldHolds
<1> QED BY <1>2, <1>3

LEMMA DecideKeeps ==
    ASSUME LaunchSafety, NEW c \in Calls, NEW d \in LaunchDecisions, decide(c, d)
    PROVE  LaunchSafety'
<1> DEFINE fresh == Keys(d) \cap {k.key : k \in Unexpired} = {}
<1>1. calls[c].pc = "decision" /\ UNCHANGED <<world, plans, executions, launches>>
  BY DEF decide
<1>2. now' = now /\ plans' = plans
  BY <1>1 DEF world
<1>3. CASE consumed' = consumed /\ Denied(c)
  BY <1>1, <1>3, DeniedKeeps
<1>4. CASE Unexpired \subseteq consumed' /\ Denied(c)
  <2>1. Prepares(c, [pc |-> "denied"])
    BY <1>1, <1>4 DEF Denied, Prepares
  <2>2. /\ WorldHolds' /\ CallsHold' /\ LaunchesAreTaken' /\ plans[c] = None
        /\ calls'[c] = [pc |-> "denied"] /\ \A b \in Calls \ {c} : calls'[b] = calls[b]
    BY <1>1, <2>1, DeniedHolds, PrepareShape
  <2>3. ~Holds(calls'[c])
    BY <1>2, <2>2, DeniedHolds
  <2>4. ASSUME NEW b \in Calls PROVE NonceIsKept(calls[b], plans[b], now, consumed)'
    <3>1. CASE b = c
      BY <2>3, <3>1 DEF NonceIsKept
    <3>2. CASE b # c
      <4>1. NonceIsKept(calls[b], plans[b], now, consumed')
        BY <1>4, KeptWhileCurrent DEF LaunchSafety, NoncesAreApart
      <4> QED BY <1>2, <2>2, <3>2, <4>1
    <3> QED BY <3>1, <3>2
  <2>5. ASSUME NEW a \in Calls, NEW b \in Calls, a # b PROVE Apart(calls[a], plans[a], calls[b], plans[b], now)'
    <3>1. CASE a = c \/ b = c
      BY <2>3, <3>1 DEF Apart
    <3>2. CASE a # c /\ b # c
      <4>1. Apart(calls[a], plans[a], calls[b], plans[b], now)
        BY <2>5 DEF LaunchSafety, NoncesAreApart
      <4> QED BY <1>2, <2>2, <3>2, <4>1
    <3> QED BY <3>1, <3>2
  <2>6. NoncesAreApart'
    BY <2>4, <2>5 DEF NoncesAreApart
  <2> QED BY <2>2, <2>6 DEF LaunchSafety
<1>5. CASE /\ fresh /\ calls' = [calls EXCEPT ![c].pc = "open", ![c].decision = d]
           /\ consumed' = Unexpired \cup {[key |-> k, expiresAt |-> d.authorization.until] : k \in Keys(d)}
  <2> DEFINE new == WithDecision(calls[c], d)
  <2>1. DOMAIN calls = Calls /\ IsCall(calls[c])
    BY <1>1 DEF LaunchSafety, CallsHold, CallHolds, Preparing
  <2>2. Prepares(c, new)
    BY <1>1, <1>5, <2>1 DEF WithDecision, Prepares
  <2>3. IsCall(new) /\ new.pc = "open" /\ new.decision = d
    BY <2>1, CallFields
  <2> HIDE DEF new
  <2>4. CallHolds(new, inodes)
    BY <2>3 DEF CallHolds
  <2>5. /\ WorldHolds' /\ CallsHold' /\ LaunchesAreTaken' /\ plans[c] = None
        /\ calls'[c] = new /\ \A b \in Calls \ {c} : calls'[b] = calls[b]
    BY <1>1, <2>2, <2>3, <2>4, PrepareShape
  <2>6. /\ NonceOf(calls'[c], plans'[c]) = d.nonce /\ UntilOf(calls'[c], plans'[c]) = d.authorization.until
        /\ SinceOf(calls'[c], plans'[c], now) = now
    BY <1>2, <2>3, <2>5 DEF NonceOf, UntilOf, DecisionOf, SinceOf
  <2>7. ASSUME NEW b \in Calls PROVE NonceIsKept(calls[b], plans[b], now, consumed)'
    <3>1. CASE b = c
      <4>1. <<"nonce", d.nonce>> \in Keys(d)
        BY DEF Keys
      <4>2. [key |-> <<"nonce", d.nonce>>, expiresAt |-> d.authorization.until] \in consumed'
        BY <1>5, <4>1
      <4> QED BY <2>6, <3>1, <4>2 DEF NonceIsKept
    <3>2. CASE b # c
      <4>1. NonceIsKept(calls[b], plans[b], now, consumed')
        BY <1>5, KeptWhileCurrent DEF LaunchSafety, NoncesAreApart
      <4> QED BY <1>2, <2>5, <3>2, <4>1
    <3> QED BY <3>1, <3>2
  <2>8. ASSUME NEW b \in Calls, b # c, Holds(calls[b]), NonceOf(calls[b], plans[b]) = d.nonce
        PROVE  UntilOf(calls[b], plans[b]) <= now
    <3>1. NonceIsKept(calls[b], plans[b], now, consumed)
      BY DEF LaunchSafety, NoncesAreApart
    <3>2. ~(now < UntilOf(calls[b], plans[b]))
      BY <1>5, <2>8, <3>1, FreshIsApart
    <3>3. UntilOf(calls[b], plans[b]) \in Nat /\ now \in Nat
      BY <2>8, HoldersAreDated DEF LaunchSafety, WorldHolds
    <3> QED BY <3>2, <3>3
  <2>9. ASSUME NEW a \in Calls, NEW b \in Calls, a # b PROVE Apart(calls[a], plans[a], calls[b], plans[b], now)'
    <3>1. CASE a = c
      <4>1. calls'[b] = calls[b] /\ plans'[b] = plans[b]
        BY <1>2, <2>5, <2>9, <3>1
      <4> QED BY <1>2, <2>6, <2>8, <2>9, <3>1, <4>1 DEF Apart
    <3>2. CASE b = c
      <4>1. calls'[a] = calls[a] /\ plans'[a] = plans[a]
        BY <1>2, <2>5, <2>9, <3>2
      <4> QED BY <1>2, <2>6, <2>8, <2>9, <3>2, <4>1 DEF Apart
    <3>3. CASE a # c /\ b # c
      <4>1. Apart(calls[a], plans[a], calls[b], plans[b], now)
        BY <2>9 DEF LaunchSafety, NoncesAreApart
      <4> QED BY <1>2, <2>5, <3>3, <4>1
    <3> QED BY <3>1, <3>2, <3>3
  <2>10. NoncesAreApart'
    BY <2>7, <2>9 DEF NoncesAreApart
  <2> QED BY <2>5, <2>10 DEF LaunchSafety
<1>6. PICK good \in BOOLEAN : (good <=> validateAuthorizationDecision(d, calls[c].manifest, calls[c].verifier))
  OBVIOUS
<1>7. \/ Denied(c) /\ consumed' = consumed
      \/ consumeAuthorizationDecision(d) /\ Denied(c)
      \/ consumeAuthorizationDecision(d) /\ fresh /\ calls' = [calls EXCEPT ![c].pc = "open", ![c].decision = d]
  BY <1>6 DEF decide
<1> QED BY <1>3, <1>4, <1>5, <1>7 DEF consumeAuthorizationDecision

\* The record of a plan: its fields.
PlanOf(call, binding) ==
    [plan |-> "PENDING", request |-> "PENDING", manifest |-> call.manifest, decision |-> call.decision,
     evidence |-> call.evidence, binding |-> binding,
     expiresAt |-> Lesser(call.decision.authorization.until, call.evidence.expiresAt)]

LEMMA PlanFields ==
    ASSUME NEW x, NEW b
    PROVE  /\ IsPlan(PlanOf(x, b)) /\ PlanOf(x, b).decision = x.decision /\ PlanOf(x, b).evidence = x.evidence
           /\ PlanOf(x, b).expiresAt = Lesser(x.decision.authorization.until, x.evidence.expiresAt)
<1> DEFINE e == Lesser(x.decision.authorization.until, x.evidence.expiresAt)
           T == {"PENDING", x.manifest, x.decision, x.evidence, b, e}
<1>1. PlanOf(x, b) \in [plan : T, request : T, manifest : T, decision : T, evidence : T, binding : T, expiresAt : T]
  BY DEF PlanOf
<1>2. IsPlan(PlanOf(x, b))
  BY <1>1 DEF IsPlan
<1> QED BY <1>2 DEF PlanOf

LEMMA AdmitKeeps ==
    ASSUME LaunchSafety, NEW c \in Calls, admit(c)
    PROVE  LaunchSafety'
<1> DEFINE x == calls[c]
           new == PlanOf(x, processBinding(x.decision, x.manifest, x.evidence))
<1>1. x.pc = "admit" /\ UNCHANGED <<world, consumed, executions, launches>>
  BY DEF admit
<1>2. CASE Denied(c) /\ plans' = plans
  BY <1>1, <1>2, DeniedKeeps
<1>3. CASE plans' = [plans EXCEPT ![c] = new] /\ calls' = [calls EXCEPT ![c] = [pc |-> "prepared"]]
  <2>1. /\ DOMAIN calls = Calls /\ DOMAIN plans = Calls /\ plans[c] = None
        /\ x.decision \in LaunchDecisions /\ EvidenceHolds(x.evidence)
    BY <1>1 DEF LaunchSafety, CallsHold, CallHolds, Preparing, Holding
  <2>2. /\ IsPlan(new) /\ new.decision = x.decision /\ new.evidence = x.evidence
        /\ new.expiresAt = Lesser(x.decision.authorization.until, x.evidence.expiresAt)
    BY PlanFields
  <2> HIDE DEF new
  <2>3. x.decision.authorization.until \in Nat /\ x.evidence.expiresAt \in Nat
    BY <2>1, SignersAssumption DEF EvidenceHolds
  <2>4. PlanHolds(new)
    BY <2>1, <2>2, <2>3 DEF PlanHolds, Lesser
  <2>5. /\ plans'[c] = new /\ calls'[c] = [pc |-> "prepared"] /\ DOMAIN calls' = Calls /\ DOMAIN plans' = Calls
        /\ \A d \in Calls \ {c} : calls'[d] = calls[d] /\ plans'[d] = plans[d]
    BY <1>3, <2>1
  <2>6. UNCHANGED <<now, source, trust, inodes, link>>
    BY <1>1 DEF world, files
  <2>7. WorldHolds'
    BY <2>6 DEF WorldHolds, LaunchSafety
  <2>8. CallsHold'
    <3> SUFFICES ASSUME NEW d \in Calls
                 PROVE  /\ CallHolds(calls[d], inodes)'
                        /\ IF calls'[d].pc = "prepared" THEN PlanHolds(plans[d])' ELSE plans'[d] = None
      BY <2>5 DEF CallsHold
    <3>1. CASE d = c
      <4>1. calls'[c].pc = "prepared"
        BY <2>5
      <4> QED BY <2>4, <2>5, <3>1, <4>1 DEF CallHolds, Preparing, Holding
    <3>2. CASE d # c
      BY <2>5, <2>6, <3>2 DEF LaunchSafety, CallsHold
    <3> QED BY <3>1, <3>2
  <2>9. ASSUME NEW d \in Calls PROVE Keeps(calls[d], plans[d], calls'[d], plans'[d], now)
    <3>1. CASE d = c
      <4>1. calls'[c].pc = "prepared"
        BY <2>5
      <4> QED BY <1>1, <2>1, <2>2, <2>5, <3>1, <4>1 DEF Keeps, Holds, Holding, DecisionOf, SinceOf
    <3>2. CASE d # c
      BY <2>5, <3>2 DEF Keeps
    <3> QED BY <3>1, <3>2
  <2>10. NoncesAreApart'
    BY <1>1, <2>6, <2>9, NoncesKeep DEF LaunchSafety
  <2>11. ASSUME NEW d \in Calls, calls[d].pc = "prepared" PROVE calls'[d].pc = "prepared" /\ plans'[d] = plans[d]
    BY <1>1, <2>5, <2>11
  <2>12. LaunchesAreTaken'
    BY <1>1, <2>6, <2>11, LaunchesKeep DEF LaunchSafety
  <2> QED BY <2>7, <2>8, <2>10, <2>12 DEF LaunchSafety
<1>4. PICK good \in BOOLEAN :
        (good <=> /\ validateSupervisorAdmission(x.manifest, x.evidence, x.verifier)
                  /\ x.evidence.authorization = x.decision.authorization
                  /\ validateRuntimeProcessLaunchRequestShape(x.manifest, processBinding(x.decision, x.manifest, x.evidence)))
  OBVIOUS
<1> QED BY <1>2, <1>3, <1>4 DEF admit, PlanOf

-----------------------------------------------------------------------------
(* Executions. *)

\* A plan with both its states consumed.
Spent(p) == [p EXCEPT !.plan = "CONSUMED", !.request = "CONSUMED"]

LEMMA SpentFields ==
    ASSUME NEW p, IsPlan(p)
    PROVE  /\ IsPlan(Spent(p)) /\ Spent(p).plan = "CONSUMED" /\ Spent(p).decision = p.decision
           /\ Spent(p).evidence = p.evidence /\ Spent(p).expiresAt = p.expiresAt
<1>1. PICK T : p \in [plan : T, request : T, manifest : T, decision : T, evidence : T, binding : T, expiresAt : T]
  BY DEF IsPlan
<1> DEFINE S == T \cup {"CONSUMED"}
           R == [plan : S, request : S, manifest : S, decision : S, evidence : S, binding : S, expiresAt : S]
<1>2. p \in R
  BY <1>1
<1>3. Spent(p) \in R
  BY <1>2 DEF Spent
<1> QED BY <1>2, <1>3 DEF Spent, IsPlan

\* Plans keep what they say; their state only becomes CONSUMED.
PlansKeep ==
    /\ DOMAIN plans' = Calls
    /\ \A c \in Calls :
        \/ plans'[c] = plans[c]
        \/ calls[c].pc = "prepared" /\ plans'[c] = Spent(plans[c])

LEMMA SpendKeeps ==
    ASSUME CallsHold, NEW c \in Calls, calls[c].pc = "prepared", plans' = Spend(c)
    PROVE  PlansKeep /\ plans'[c] = Spent(plans[c]) /\ \A d \in Calls \ {c} : plans'[d] = plans[d]
<1>1. DOMAIN plans = Calls
  BY DEF CallsHold
<1>2. plans' = [plans EXCEPT ![c] = Spent(plans[c])]
  BY <1>1 DEF Spend, Spent
<1> QED BY <1>1, <1>2 DEF PlansKeep

\* Spending a plan changes nothing that calls, nonces or launches rest on.
LEMMA PlansKeepCalls ==
    ASSUME LaunchSafety, PlansKeep, UNCHANGED <<world, consumed, calls>>
    PROVE  /\ WorldHolds' /\ CallsHold' /\ NoncesAreApart'
           /\ \A c \in Calls : calls[c].pc = "prepared" =>
                /\ plans'[c].decision = plans[c].decision /\ plans'[c].expiresAt = plans[c].expiresAt
                /\ plans[c].plan = "CONSUMED" => plans'[c].plan = "CONSUMED"
<1>1. UNCHANGED <<now, source, trust, inodes, link>>
  BY DEF world, files
<1>2. WorldHolds'
  BY <1>1 DEF WorldHolds, LaunchSafety
<1>3. ASSUME NEW c \in Calls, calls[c].pc = "prepared"
      PROVE  /\ PlanHolds(plans[c])' /\ plans'[c].decision = plans[c].decision /\ plans'[c].evidence = plans[c].evidence
             /\ plans'[c].expiresAt = plans[c].expiresAt /\ (plans[c].plan = "CONSUMED" => plans'[c].plan = "CONSUMED")
  <2>1. PlanHolds(plans[c]) /\ IsPlan(plans[c])
    BY <1>3 DEF LaunchSafety, CallsHold, PlanHolds
  <2>2. CASE plans'[c] = plans[c]
    BY <2>1, <2>2
  <2>3. CASE plans'[c] = Spent(plans[c])
    BY <2>1, <2>3, SpentFields DEF PlanHolds
  <2> QED BY <2>2, <2>3 DEF PlansKeep
<1>4. ASSUME NEW c \in Calls, calls[c].pc # "prepared" PROVE plans'[c] = plans[c]
  BY <1>4 DEF PlansKeep
<1>5. CallsHold'
  BY <1>1, <1>3, <1>4 DEF LaunchSafety, CallsHold, PlansKeep
<1>6. ASSUME NEW c \in Calls PROVE Keeps(calls[c], plans[c], calls'[c], plans'[c], now)
  BY <1>3 DEF Keeps, Holds, DecisionOf, SinceOf
<1>7. NoncesAreApart'
  BY <1>1, <1>6, NoncesKeep DEF LaunchSafety
<1> QED BY <1>2, <1>3, <1>5, <1>7

\* The same, for the executions and launches that are not touched.
LEMMA PlansKeepLaunches ==
    ASSUME LaunchSafety, PlansKeep, UNCHANGED <<world, consumed, calls>>
    PROVE  /\ \A e : ExecutionHolds(e) => ExecutionHolds(e)'
           /\ \A l : LaunchHolds(l) => LaunchHolds(l)'
<1>1. trust' = trust /\ calls' = calls
  BY DEF world
<1>2. \A c \in Calls : calls[c].pc = "prepared" =>
        /\ plans'[c].decision = plans[c].decision /\ plans'[c].expiresAt = plans[c].expiresAt
        /\ plans[c].plan = "CONSUMED" => plans'[c].plan = "CONSUMED"
  BY PlansKeepCalls
<1>3. ASSUME NEW e, ExecutionHolds(e) PROVE ExecutionHolds(e)'
  BY <1>1, <1>2, <1>3 DEF ExecutionHolds
<1>4. ASSUME NEW l, LaunchHolds(l) PROVE LaunchHolds(l)'
  BY <1>1, <1>2, <1>4 DEF LaunchHolds
<1> QED BY <1>3, <1>4

\* A step of execution x, that leaves what is launched alone.
LEMMA ExecutionStep ==
    ASSUME LaunchSafety, NEW x \in Executors, NEW new, executions' = [executions EXCEPT ![x] = new],
           PlansKeep, UNCHANGED <<world, consumed, calls, launches>>, ExecutionHolds(new)',
           Handing(new) => /\ \A y \in Executors \ {x} : Handing(executions[y]) => executions[y].plan # new.plan
                           /\ \A l \in launches : l.plan # new.plan
    PROVE  LaunchSafety'
<1>1. WorldHolds' /\ CallsHold' /\ NoncesAreApart'
  BY PlansKeepCalls
<1>2. DOMAIN executions = Executors
  BY DEF LaunchSafety, LaunchesAreTaken
<1>3. /\ executions'[x] = new /\ DOMAIN executions' = Executors
      /\ \A y \in Executors \ {x} : executions'[y] = executions[y]
  BY <1>2
<1>4. \A y \in Executors : ExecutionHolds(executions[y])'
  <2> SUFFICES ASSUME NEW y \in Executors PROVE ExecutionHolds(executions[y])'
    OBVIOUS
  <2>1. CASE y = x
    <3>1. ExecutionHolds(executions[x])' <=> ExecutionHolds(new)'
      BY <1>3 DEF ExecutionHolds
    <3> QED BY <2>1, <3>1
  <2>2. CASE y # x
    <3>1. ExecutionHolds(executions[y])
      BY DEF LaunchSafety, LaunchesAreTaken
    <3>2. \A e : ExecutionHolds(e) => ExecutionHolds(e)'
      BY PlansKeepLaunches
    <3>3. executions'[y] = executions[y]
      BY <1>3, <2>2
    <3> QED BY <3>1, <3>2, <3>3 DEF ExecutionHolds
  <2> QED BY <2>1, <2>2
<1>5. \A l \in launches' : LaunchHolds(l)'
  BY PlansKeepLaunches DEF LaunchSafety, LaunchesAreTaken
<1>6. ASSUME NEW y \in Executors, NEW z \in Executors, y # z, Handing(executions'[y]), Handing(executions'[z])
      PROVE  executions'[y].plan # executions'[z].plan
  <2>1. CASE y = x
    BY <1>3, <1>6, <2>1
  <2>2. CASE z = x
    BY <1>3, <1>6, <2>2
  <2>3. CASE y # x /\ z # x
    BY <1>3, <1>6, <2>3 DEF LaunchSafety, LaunchesAreTaken
  <2> QED BY <2>1, <2>2, <2>3
<1>7. ASSUME NEW y \in Executors, NEW l \in launches', Handing(executions'[y]) PROVE l.plan # executions'[y].plan
  <2>1. CASE y = x
    BY <1>3, <1>7, <2>1
  <2>2. CASE y # x
    BY <1>3, <1>7, <2>2 DEF LaunchSafety, LaunchesAreTaken
  <2> QED BY <2>1, <2>2
<1>8. \A k, l \in launches' : k # l => k.plan # l.plan
  BY DEF LaunchSafety, LaunchesAreTaken
<1>9. \A y, z \in Executors : (y # z /\ Handing(executions[y]) /\ Handing(executions[z]) => executions[y].plan # executions[z].plan)'
  BY <1>6 DEF Handing
<1>10. \A y \in Executors, l \in launches' : (Handing(executions[y]))' => l.plan # executions'[y].plan
  BY <1>7 DEF Handing
<1>11. LaunchesAreTaken'
  BY <1>3, <1>4, <1>5, <1>8, <1>9, <1>10 DEF LaunchesAreTaken
<1> QED BY <1>1, <1>11 DEF LaunchSafety

LEMMA NoPlanMoves ==
    ASSUME LaunchSafety, plans' = plans
    PROVE  PlansKeep
BY DEF LaunchSafety, CallsHold, PlansKeep

\* An execution that stays or falls back hands nothing over.
LEMMA ExecutionStays ==
    ASSUME LaunchSafety, PlansKeep, UNCHANGED <<world, consumed, calls, launches, executions>>
    PROVE  LaunchSafety'
<1>1. WorldHolds' /\ CallsHold' /\ NoncesAreApart'
  BY PlansKeepCalls
<1>2. \A l \in launches' : LaunchHolds(l)'
  BY PlansKeepLaunches DEF LaunchSafety, LaunchesAreTaken
<1>3. ASSUME NEW y \in Executors PROVE ExecutionHolds(executions[y])'
  <2>1. ExecutionHolds(executions[y])
    BY DEF LaunchSafety, LaunchesAreTaken
  <2>2. \A e : ExecutionHolds(e) => ExecutionHolds(e)'
    BY PlansKeepLaunches
  <2> QED BY <2>1, <2>2 DEF ExecutionHolds
<1>4. LaunchesAreTaken'
  BY <1>2, <1>3 DEF LaunchSafety, LaunchesAreTaken, Handing
<1> QED BY <1>1, <1>4 DEF LaunchSafety

LEMMA ExecutionEnds ==
    ASSUME LaunchSafety, NEW x \in Executors, NEW pc \in {"idle", "done"},
           executions' = [executions EXCEPT ![x] = [pc |-> pc]],
           PlansKeep, UNCHANGED <<world, consumed, calls, launches>>
    PROVE  LaunchSafety'
<1> DEFINE new == [pc |-> pc]
<1>1. new.pc = pc
  OBVIOUS
<1> HIDE DEF new
<1>2. ExecutionHolds(new)' /\ ~Handing(new)
  BY <1>1 DEF ExecutionHolds, Handing
<1> QED BY <1>2, ExecutionStep DEF new

LEMMA ExecuteKeeps ==
    ASSUME LaunchSafety, NEW x \in Executors, NEW c \in Calls, execute(x, c)
    PROVE  LaunchSafety'
<1>1. calls[c].pc = "prepared" /\ UNCHANGED <<world, consumed, calls, launches>>
  BY DEF execute, LaunchSafety, CallsHold
<1>2. CASE plans' = Spend(c) /\ executions' = executions
  <2>1. PlansKeep
    BY <1>1, <1>2, SpendKeeps DEF LaunchSafety
  <2> QED BY <1>1, <1>2, <2>1, ExecutionStays
<1>3. CASE /\ plans' = plans
           /\ executions' = [executions EXCEPT ![x] = [pc |-> "trust", plan |-> c, revoked |-> Revoked, handoff |-> None]]
  <2>1. PlansKeep
    BY <1>3, NoPlanMoves
  <2> PICK new : new = [pc |-> "trust", plan |-> c, revoked |-> Revoked, handoff |-> None]
    OBVIOUS
  <2>2. new.pc = "trust" /\ new.plan = c /\ new.revoked = Revoked
    OBVIOUS
  <2>3. IsExecution(new)
    <3>1. new \in [pc : {"trust", c, Revoked, None}, plan : {"trust", c, Revoked, None},
                   revoked : {"trust", c, Revoked, None}, handoff : {"trust", c, Revoked, None}]
      OBVIOUS
    <3> QED BY <3>1 DEF IsExecution
  <2>4. ExecutionHolds(new)'
    BY <1>1, <2>2, <2>3 DEF ExecutionHolds, Revoked, world
  <2>5. ~Handing(new)
    BY <2>2 DEF Handing
  <2> QED BY <1>1, <1>3, <2>1, <2>4, <2>5, ExecutionStep
<1> QED BY <1>2, <1>3 DEF execute

\* Whoever was revoked is not vouched for by trust that is read afterwards.
LEMMA VerifiedIsNotRevoked ==
    ASSUME WorldHolds, NEW testOnly, NEW a, freshAuthorizationVerifier(testOnly) # None,
           verify(freshAuthorizationVerifier(testOnly), a)
    PROVE  a.signer \notin {s \in TrustedSigners : trust[s].revokedAt # None}
<1> DEFINE v == freshAuthorizationVerifier(testOnly)
<1>1. SUFFICES ASSUME a.signer \in TrustedSigners, trust[a.signer].revokedAt # None PROVE FALSE
  OBVIOUS
<1>2. a.signer # "test"
  BY <1>1, SignersAssumption
<1>3. PICK good \in BOOLEAN : (good <=> \A s \in TrustedSigners : parseTrustRecord(trust[s]))
  OBVIOUS
<1>4. v = [kind |-> "test"] \/ v = [kind |-> "snapshot", records |-> trust] \/ v = None \/ source \notin {"absent", "deny", "configured"}
  BY <1>3 DEF freshAuthorizationVerifier
<1>5. CASE v = [kind |-> "test"]
  <2>1. v.kind = "test"
    BY <1>5
  <2> QED BY <1>2, <2>1 DEF verify, verifyTestOnlyLinuxExecutableAuthorization
<1>6. CASE v = [kind |-> "snapshot", records |-> trust]
  <2>1. v.kind # "test" /\ v.records = trust
    BY <1>6
  <2>2. verifyBounded(trust, a)
    BY <2>1 DEF verify
  <2>3. now < trust[a.signer].revokedAt
    BY <1>1, <2>2 DEF verifyBounded
  <2>4. now \in Nat /\ trust[a.signer].revokedAt \in Nat /\ trust[a.signer].revokedAt <= now
    BY <1>1 DEF WorldHolds
  <2> QED BY <2>3, <2>4
<1>7. source \in {"absent", "deny", "configured"}
  BY DEF WorldHolds
<1> QED BY <1>4, <1>5, <1>6, <1>7

\* An execution that hands over its plan, and one whose handoff is taken.
HandedOver(e) == [e EXCEPT !.pc = "launching", !.handoff = "ACTIVE"]
Taken(e) == [e EXCEPT !.handoff = "CONSUMED"]

LEMMA ExecutionFields ==
    ASSUME NEW e, IsExecution(e)
    PROVE  /\ IsExecution(HandedOver(e)) /\ HandedOver(e).pc = "launching" /\ HandedOver(e).plan = e.plan
           /\ HandedOver(e).revoked = e.revoked
           /\ IsExecution(Taken(e)) /\ Taken(e).handoff = "CONSUMED" /\ Taken(e).pc = e.pc /\ Taken(e).plan = e.plan
           /\ Taken(e).revoked = e.revoked
<1>1. PICK T : e \in [pc : T, plan : T, revoked : T, handoff : T]
  BY DEF IsExecution
<1> DEFINE S == T \cup {"launching", "ACTIVE", "CONSUMED"}
           R == [pc : S, plan : S, revoked : S, handoff : S]
<1>2. e \in R
  BY <1>1
<1>3. HandedOver(e) \in R /\ Taken(e) \in R
  BY <1>2 DEF HandedOver, Taken
<1>4. IsExecution(HandedOver(e)) /\ IsExecution(Taken(e))
  BY <1>3 DEF IsExecution
<1> QED BY <1>2, <1>4 DEF HandedOver, Taken

LEMMA ActivateKeeps ==
    ASSUME LaunchSafety, NEW x \in Executors, NEW fails \in BOOLEAN, activate(x, fails)
    PROVE  LaunchSafety'
<1> DEFINE c == executions[x].plan
           p == plans[c]
           verifier == freshAuthorizationVerifier(p.manifest.testOnly)
<1>1. executions[x].pc = "trust" /\ UNCHANGED <<world, consumed, calls, launches>>
  BY DEF activate
<1>2. ExecutionHolds(executions[x]) /\ IsExecution(executions[x]) /\ c \in Calls /\ calls[c].pc = "prepared"
  BY <1>1 DEF LaunchSafety, LaunchesAreTaken, ExecutionHolds
<1>3. CASE /\ executions' = [executions EXCEPT ![x] = [pc |-> "idle"]]
           /\ plans' = plans \/ plans' = Spend(c)
  <2>1. PlansKeep
    BY <1>2, <1>3, NoPlanMoves, SpendKeeps DEF LaunchSafety
  <2> QED BY <1>1, <1>3, <2>1, ExecutionEnds
<1>4. CASE /\ verifier # None /\ activateTrustedSupervisorLaunchPlan(p, verifier)
           /\ plans' = Spend(c)
           /\ executions' = [executions EXCEPT ![x].pc = "launching", ![x].handoff = "ACTIVE"]
  <2>1. DOMAIN executions = Executors
    BY DEF LaunchSafety, LaunchesAreTaken
  <2> PICK new : new = HandedOver(executions[x])
    OBVIOUS
  <2>2. executions' = [executions EXCEPT ![x] = new]
    BY <1>4, <2>1 DEF HandedOver
  <2>3. IsExecution(new) /\ new.pc = "launching" /\ new.plan = c /\ new.revoked = executions[x].revoked
    BY <1>2, ExecutionFields
  <2>4. PlansKeep /\ plans'[c] = Spent(p) /\ IsPlan(p)
    BY <1>2, <1>4, SpendKeeps DEF LaunchSafety, CallsHold, PlanHolds
  <2>5. plans'[c].plan = "CONSUMED" /\ plans'[c].decision = p.decision
    BY <2>4, SpentFields
  <2>6. p.plan = "PENDING" /\ verify(verifier, p.decision.authorization)
    BY <1>4 DEF activateTrustedSupervisorLaunchPlan, PlanPending, Revalidated, validateAuthorizationDecision
  <2>7. p.decision.authorization.signer \notin executions[x].revoked
    <3>1. p.decision.authorization.signer \notin {s \in TrustedSigners : trust[s].revokedAt # None}
      BY <1>4, <2>6, VerifiedIsNotRevoked DEF LaunchSafety
    <3> QED BY <1>1, <1>2, <3>1 DEF ExecutionHolds
  <2>8. trust' = trust /\ calls' = calls
    BY <1>1 DEF world
  <2>9. ExecutionHolds(new)'
    <3>1. new.revoked \subseteq {s \in TrustedSigners : trust'[s].revokedAt # None}
      BY <1>1, <1>2, <2>3, <2>8 DEF ExecutionHolds
    <3>2. new.plan \in Calls /\ calls'[new.plan].pc = "prepared"
      BY <1>2, <2>3, <2>8
    <3>3. plans'[new.plan].plan = "CONSUMED" /\ plans'[new.plan].decision.authorization.signer \notin new.revoked
      BY <2>3, <2>5, <2>7
    <3> QED BY <2>3, <3>1, <3>2, <3>3 DEF ExecutionHolds
  <2>10. ASSUME NEW y \in Executors, Handing(executions[y]) PROVE executions[y].plan # new.plan
    BY <2>3, <2>6, <2>10 DEF LaunchSafety, LaunchesAreTaken, ExecutionHolds, Handing
  <2>11. ASSUME NEW l \in launches PROVE l.plan # new.plan
    BY <2>3, <2>6 DEF LaunchSafety, LaunchesAreTaken, LaunchHolds
  <2> QED BY <1>1, <2>2, <2>4, <2>9, <2>10, <2>11, ExecutionStep
<1>5. PICK good \in BOOLEAN : (good <=> activateTrustedSupervisorLaunchPlan(p, verifier))
  OBVIOUS
<1> QED BY <1>3, <1>4, <1>5 DEF activate

LEMMA HandoffKeeps ==
    ASSUME LaunchSafety, NEW x \in Executors, consumeNativeLaunchHandoff(x)
    PROVE  LaunchSafety'
<1> DEFINE c == executions[x].plan
<1>1. executions[x].pc = "launching" /\ UNCHANGED <<world, consumed, calls, plans>>
  BY DEF consumeNativeLaunchHandoff
<1>2. /\ ExecutionHolds(executions[x]) /\ IsExecution(executions[x]) /\ c \in Calls /\ calls[c].pc = "prepared"
      /\ plans[c].plan = "CONSUMED" /\ plans[c].decision.authorization.signer \notin executions[x].revoked
      /\ DOMAIN executions = Executors
  BY <1>1 DEF LaunchSafety, LaunchesAreTaken, ExecutionHolds
<1> PICK new : new = Taken(executions[x])
  OBVIOUS
<1>3. executions' = [executions EXCEPT ![x] = new]
  BY <1>2 DEF consumeNativeLaunchHandoff, Taken
<1>4. /\ IsExecution(new) /\ new.handoff = "CONSUMED" /\ new.pc = "launching" /\ new.plan = c
      /\ new.revoked = executions[x].revoked
  BY <1>1, <1>2, ExecutionFields
<1>5. PlansKeep
  BY <1>1, NoPlanMoves
<1>6. trust' = trust /\ calls' = calls /\ plans' = plans /\ now' = now
  BY <1>1 DEF world
<1>7. ExecutionHolds(new)' /\ ~Handing(new)
  BY <1>1, <1>2, <1>4, <1>6 DEF ExecutionHolds, Handing
<1>8. CASE launches' = launches
  BY <1>1, <1>3, <1>5, <1>7, <1>8, ExecutionStep
<1>9. CASE /\ executions[x].handoff = "ACTIVE" /\ now < plans[c].expiresAt
           /\ launches' = launches \cup {[by |-> x, plan |-> c, at |-> now, revoked |-> executions[x].revoked]}
  <2> PICK taken : taken = [by |-> x, plan |-> c, at |-> now, revoked |-> executions[x].revoked]
    OBVIOUS
  <2>1. launches' = launches \cup {taken} /\ taken.plan = c /\ taken.at = now /\ taken.revoked = executions[x].revoked
    BY <1>9
  <2>2. WorldHolds' /\ CallsHold' /\ NoncesAreApart'
    BY <1>1, <1>5, PlansKeepCalls
  <2>3. LaunchHolds(taken)'
    BY <1>2, <1>6, <1>9, <2>1 DEF LaunchHolds
  <2>4. /\ executions'[x] = new /\ DOMAIN executions' = Executors
        /\ \A y \in Executors \ {x} : executions'[y] = executions[y]
    BY <1>2, <1>3
  <2>5. ASSUME NEW y \in Executors, Handing(executions'[y])
        PROVE  y # x /\ executions'[y] = executions[y] /\ executions[y].plan # c
    <3>1. y # x
      BY <1>7, <2>4, <2>5
    <3>2. Handing(executions[x]) /\ Handing(executions[y]) /\ executions'[y] = executions[y]
      BY <1>1, <1>9, <2>4, <2>5, <3>1 DEF Handing
    <3> QED BY <3>1, <3>2 DEF LaunchSafety, LaunchesAreTaken
  <2>6. ASSUME NEW l \in launches PROVE l.plan # c
    <3>1. Handing(executions[x])
      BY <1>1, <1>9 DEF Handing
    <3> QED BY <3>1 DEF LaunchSafety, LaunchesAreTaken
  <2>7. ASSUME NEW y \in Executors PROVE ExecutionHolds(executions[y])'
    <3>1. CASE y = x
      BY <1>7, <2>4, <3>1 DEF ExecutionHolds
    <3>2. CASE y # x
      BY <1>6, <2>4, <3>2 DEF LaunchSafety, LaunchesAreTaken, ExecutionHolds
    <3> QED BY <3>1, <3>2
  <2>8. ASSUME NEW l \in launches' PROVE LaunchHolds(l)'
    <3>1. CASE l = taken
      BY <2>3, <3>1
    <3>2. CASE l \in launches
      BY <1>6, <3>2 DEF LaunchSafety, LaunchesAreTaken, LaunchHolds
    <3> QED BY <2>1, <3>1, <3>2
  <2>9. \A y, z \in Executors : (y # z /\ Handing(executions[y]) /\ Handing(executions[z]) => executions[y].plan # executions[z].plan)'
    BY <2>5 DEF LaunchSafety, LaunchesAreTaken, Handing
  <2>10. \A y \in Executors, l \in launches' : (Handing(executions[y]))' => l.plan # executions'[y].plan
    BY <2>1, <2>5 DEF LaunchSafety, LaunchesAreTaken, Handing
  <2>11. \A k, l \in launches' : k # l => k.plan # l.plan
    BY <2>1, <2>6 DEF LaunchSafety, LaunchesAreTaken
  <2>12. LaunchesAreTaken'
    BY <2>4, <2>7, <2>8, <2>9, <2>10, <2>11 DEF LaunchesAreTaken
  <2> QED BY <2>2, <2>12 DEF LaunchSafety
<1> QED BY <1>8, <1>9 DEF consumeNativeLaunchHandoff

LEMMA LaunchEndKeeps ==
    ASSUME LaunchSafety, NEW x \in Executors, finishLaunch(x)
    PROVE  LaunchSafety'
<1>1. PlansKeep
  BY NoPlanMoves DEF finishLaunch
<1> QED BY <1>1, ExecutionEnds DEF finishLaunch

-----------------------------------------------------------------------------
(* The world. *)

LEMMA TickKeeps ==
    ASSUME LaunchSafety, SupervisionTick
    PROVE  LaunchSafety'
<1>1. /\ now' = now + 1 /\ now \in Nat
      /\ UNCHANGED <<source, trust, inodes, link, consumed, calls, plans, executions, launches>>
  BY DEF SupervisionTick, files, LaunchSafety, WorldHolds
<1>2. WorldHolds'
  <2>1. ASSUME NEW s \in TrustedSigners, trust[s].revokedAt # None
        PROVE  trust[s].revokedAt \in Nat /\ trust[s].revokedAt <= now + 1
    BY <1>1, <2>1 DEF LaunchSafety, WorldHolds
  <2> QED BY <1>1, <2>1 DEF LaunchSafety, WorldHolds
<1>3. CallsHold' /\ LaunchesAreTaken'
  <2>1. CallsHold'
    BY <1>1 DEF LaunchSafety, CallsHold
  <2>2. LaunchesAreTaken'
    BY <1>1, LaunchesKeep DEF LaunchSafety
  <2> QED BY <2>1, <2>2
<1>4. ASSUME NEW c \in Calls PROVE NonceIsKept(calls[c], plans[c], now, consumed)'
  <2>1. NonceIsKept(calls[c], plans[c], now, consumed)
    BY DEF LaunchSafety, NoncesAreApart
  <2>2. Holds(calls[c]) => UntilOf(calls[c], plans[c]) \in Nat
    BY HoldersAreDated DEF LaunchSafety
  <2>3. Holds(calls[c]) /\ now + 1 < UntilOf(calls[c], plans[c]) => now < UntilOf(calls[c], plans[c])
    BY <1>1, <2>2
  <2> QED BY <1>1, <2>1, <2>3 DEF NonceIsKept
<1>5. ASSUME NEW c \in Calls, Holds(calls[c])
      PROVE  /\ UntilOf(calls[c], plans[c]) \in Nat
             /\ SinceOf(calls[c], plans[c], now) \in Nat /\ SinceOf(calls[c], plans[c], now + 1) \in Nat
             /\ SinceOf(calls[c], plans[c], now) <= SinceOf(calls[c], plans[c], now + 1)
  <2>1. UntilOf(calls[c], plans[c]) \in Nat /\ SinceOf(calls[c], plans[c], now) \in Nat
    BY <1>5, HoldersAreDated DEF LaunchSafety
  <2>2. \/ SinceOf(calls[c], plans[c], now + 1) = SinceOf(calls[c], plans[c], now)
        \/ SinceOf(calls[c], plans[c], now + 1) = now + 1 /\ SinceOf(calls[c], plans[c], now) = now
    BY DEF SinceOf
  <2> QED BY <1>1, <2>1, <2>2
<1>6. ASSUME NEW c \in Calls, NEW d \in Calls, c # d PROVE Apart(calls[c], plans[c], calls[d], plans[d], now)'
  <2>1. Apart(calls[c], plans[c], calls[d], plans[d], now)
    BY <1>6 DEF LaunchSafety, NoncesAreApart
  <2>2. Apart(calls[c], plans[c], calls[d], plans[d], now + 1)
    BY <1>5, <2>1 DEF Apart
  <2> QED BY <1>1, <2>2
<1>7. NoncesAreApart'
  BY <1>4, <1>6 DEF NoncesAreApart
<1> QED BY <1>2, <1>3, <1>7 DEF LaunchSafety

LEMMA RevokeKeeps ==
    ASSUME LaunchSafety, NEW s \in TrustedSigners, Revoke(s)
    PROVE  LaunchSafety'
<1> DEFINE Record == [from : {0}, until : {Horizon + 1}, revokedAt : Nat \cup {None}]
<1>1. /\ trust[s].revokedAt = None /\ trust' = [trust EXCEPT ![s].revokedAt = now] /\ now \in Nat
      /\ UNCHANGED <<now, source, inodes, link, consumed, calls, plans, executions, launches>>
  BY DEF Revoke, files, LaunchSafety, WorldHolds
<1>2. trust \in [TrustedSigners -> Record]
  BY DEF LaunchSafety, WorldHolds
<1>3. /\ trust' \in [TrustedSigners -> Record] /\ trust'[s].revokedAt = now
      /\ \A r \in TrustedSigners \ {s} : trust'[r] = trust[r]
  BY <1>1, <1>2
<1>4. ASSUME NEW r \in TrustedSigners, trust'[r].revokedAt # None
      PROVE  trust'[r].revokedAt \in Nat /\ trust'[r].revokedAt <= now
  <2>1. CASE r = s
    BY <1>1, <1>3, <2>1
  <2>2. CASE r # s
    BY <1>3, <1>4, <2>2 DEF LaunchSafety, WorldHolds
  <2> QED BY <2>1, <2>2
<1>5. WorldHolds'
  BY <1>1, <1>3, <1>4 DEF LaunchSafety, WorldHolds
<1>6. CallsHold' /\ NoncesAreApart'
  <2>1. CallsHold'
    BY <1>1 DEF LaunchSafety, CallsHold
  <2>2. NoncesAreApart'
    BY <1>1 DEF LaunchSafety, NoncesAreApart
  <2> QED BY <2>1, <2>2
<1>7. ASSUME NEW r \in TrustedSigners, trust[r].revokedAt # None PROVE trust'[r].revokedAt # None
  BY <1>1, <1>3, <1>7
<1>8. LaunchesAreTaken'
  BY <1>1, <1>7, LaunchesKeep DEF LaunchSafety
<1> QED BY <1>5, <1>6, <1>8 DEF LaunchSafety

\* A file that is written or put in place of another shows a later change.
LEMMA FilesKeep ==
    ASSUME LaunchSafety, NEW i \in Inodes, (\E content \in Contents : Write(i, content)) \/ Replace(i)
    PROVE  LaunchSafety'
<1> DEFINE Inode == [content : Contents, changedAt : Nat]
<1>1. UNCHANGED <<now, source, trust, consumed, calls, plans, executions, launches>> /\ link' \in Inodes
  BY DEF Write, Replace, LaunchSafety, WorldHolds
<1>2. inodes \in [Inodes -> Inode]
  BY DEF LaunchSafety, WorldHolds
<1>3. /\ inodes' \in [Inodes -> Inode] /\ inodes'[i].changedAt = inodes[i].changedAt + 1
      /\ \A j \in Inodes \ {i} : inodes'[j] = inodes[j]
  <2>1. CASE Replace(i)
    BY <1>2, <2>1 DEF Replace
  <2>2. ASSUME NEW content \in Contents, Write(i, content)
        PROVE  /\ inodes' \in [Inodes -> Inode] /\ inodes'[i].changedAt = inodes[i].changedAt + 1
               /\ \A j \in Inodes \ {i} : inodes'[j] = inodes[j]
    <3>1. inodes' = [inodes EXCEPT ![i] = [content |-> content, changedAt |-> inodes[i].changedAt + 1]]
      BY <2>2 DEF Write
    <3>2. inodes[i].changedAt \in Nat
      BY <1>2
    <3>3. [content |-> content, changedAt |-> inodes[i].changedAt + 1] \in Inode
      BY <3>2
    <3> QED BY <1>2, <3>1, <3>3
  <2> QED BY <2>1, <2>2
<1>4. WorldHolds'
  BY <1>1, <1>3 DEF LaunchSafety, WorldHolds
<1>5. ASSUME NEW x, DescriptorHolds(x, inodes) PROVE DescriptorHolds(x, inodes')
  <2>1. x.handle \in Inodes /\ inodes[x.handle].changedAt \in Nat
    BY <1>2, <1>5 DEF DescriptorHolds
  <2>2. inodes'[x.handle] = inodes[x.handle] \/ inodes'[x.handle].changedAt = inodes[x.handle].changedAt + 1
    BY <1>3, <2>1
  <2> QED BY <1>5, <2>1, <2>2 DEF DescriptorHolds
<1>6. ASSUME NEW x, CallHolds(x, inodes) PROVE CallHolds(x, inodes')
  BY <1>5, <1>6 DEF CallHolds
<1>7. CallsHold' /\ NoncesAreApart' /\ LaunchesAreTaken'
  <2>1. CallsHold'
    BY <1>1, <1>6 DEF LaunchSafety, CallsHold
  <2>2. NoncesAreApart'
    BY <1>1 DEF LaunchSafety, NoncesAreApart
  <2>3. LaunchesAreTaken'
    BY <1>1, LaunchesKeep DEF LaunchSafety
  <2> QED BY <2>1, <2>2, <2>3
<1> QED BY <1>4, <1>7 DEF LaunchSafety

LEMMA ProcessKeeps ==
    ASSUME LaunchSafety,
           \/ UNCHANGED supervisionVars
           \/ \E c \in Calls : \E next, binding : assertSupervisorProcessTransition(c, next, binding)
    PROVE  LaunchSafety'
<1>1. UNCHANGED <<world, consumed, calls, plans, executions, launches>>
  BY DEF supervisionVars, world, files, assertSupervisorProcessTransition
<1> QED BY <1>1, NoPlanMoves, ExecutionStays

LEMMA SupervisionNextSafety ==
    ASSUME LaunchSafety, [SupervisionNext]_supervisionVars
    PROVE  LaunchSafety'
<1>1. CASE UNCHANGED supervisionVars
  BY <1>1, ProcessKeeps
<1>2. ASSUME NEW c \in Calls,
             \/ \E m \in Manifests : prepare(c, m)
             \/ \E fails \in BOOLEAN : readTrust(c, fails)
             \/ \E d \in LaunchDecisions : decide(c, d)
             \/ openExecutable(c) \/ digestOpenedFile(c) \/ recheckExecutable(c) \/ dateEvidence(c) \/ admit(c)
      PROVE  LaunchSafety'
  BY <1>2, PrepareBegins, TrustKeeps, DecideKeeps, OpenKeeps, DigestKeeps, RecheckKeeps, DateKeeps, AdmitKeeps
<1>3. ASSUME NEW c \in Calls, NEW x \in Executors, execute(x, c) PROVE LaunchSafety'
  BY <1>3, ExecuteKeeps
<1>4. ASSUME NEW c \in Calls, NEW next, NEW other,
             assertSupervisorProcessTransition(c, next, plans[other].binding)
      PROVE  LaunchSafety'
  BY <1>4, ProcessKeeps
<1>5. ASSUME NEW x \in Executors,
             (\E fails \in BOOLEAN : activate(x, fails)) \/ consumeNativeLaunchHandoff(x) \/ finishLaunch(x)
      PROVE  LaunchSafety'
  BY <1>5, ActivateKeeps, HandoffKeeps, LaunchEndKeeps
<1>6. CASE SupervisionTick
  BY <1>6, TickKeeps
<1>7. ASSUME NEW s \in TrustedSigners, Revoke(s) PROVE LaunchSafety'
  BY <1>7, RevokeKeeps
<1>8. ASSUME NEW i \in Inodes, Replace(i) \/ \E content \in Contents : Write(i, content) PROVE LaunchSafety'
  BY <1>8, FilesKeep
<1> QED BY <1>1, <1>2, <1>3, <1>4, <1>5, <1>6, <1>7, <1>8 DEF SupervisionNext

\* The nonce of a decision stays consumed while its authorization lasts, a
\* descriptor stays what was digested while its time of change stands, and a
\* plan is handed over by one execution (#consumeAuthorizationDecision,
\* LinuxExecutableEvidenceReader.read, execute).
THEOREM LaunchesAreSound == SupervisionSpec => []LaunchSafety
<1>1. LaunchSafety /\ [SupervisionNext]_supervisionVars => LaunchSafety'
  BY SupervisionNextSafety
<1> QED BY SupervisionInitSafety, <1>1, PTL DEF SupervisionSpec

\* Whatever number of calls prepare and execute at once, however the file is
\* written or replaced and whoever is revoked in between: a plan is launched
\* at most once, before it expires and on the word of no signer revoked before
\* the execution began, no nonce is launched twice while its authorization
\* lasts, and what a plan attests was true (#consumeNativeLaunchHandoff).
THEOREM LaunchesStayAuthorized == SupervisionSpec => []LaunchesAreAuthorized
<1>1. LaunchSafety => LaunchesAreAuthorized
  <2> SUFFICES ASSUME LaunchSafety PROVE LaunchesAreAuthorized
    OBVIOUS
  <2>1. ASSUME NEW l \in launches
        PROVE  /\ l.plan \in Calls /\ calls[l.plan].pc = "prepared" /\ PlanHolds(plans[l.plan])
               /\ l.at < plans[l.plan].expiresAt /\ plans[l.plan].decision.authorization.signer \notin l.revoked
    BY <2>1 DEF LaunchSafety, LaunchesAreTaken, LaunchHolds, CallsHold
  <2>2. ASSUME NEW l \in launches, NEW k \in launches \ {l}
        PROVE  /\ k.plan # l.plan
               /\ plans[k.plan].decision.nonce = plans[l.plan].decision.nonce =>
                    \/ plans[k.plan].evidence.observedAt >= plans[l.plan].decision.authorization.until
                    \/ plans[l.plan].evidence.observedAt >= plans[k.plan].decision.authorization.until
    <3>1. k.plan # l.plan
      BY DEF LaunchSafety, LaunchesAreTaken
    <3>2. Apart(calls[k.plan], plans[k.plan], calls[l.plan], plans[l.plan], now)
      BY <2>1, <3>1 DEF LaunchSafety, NoncesAreApart
    <3>3. calls[k.plan].pc = "prepared" /\ calls[l.plan].pc = "prepared"
      BY <2>1
    <3>4. /\ plans[k.plan].evidence.observedAt \in Nat /\ plans[l.plan].evidence.observedAt \in Nat
          /\ plans[k.plan].decision.authorization.until \in Nat /\ plans[l.plan].decision.authorization.until \in Nat
      BY <2>1, SignersAssumption DEF PlanHolds, EvidenceHolds, SeenHolds
    <3> QED BY <3>1, <3>2, <3>3, <3>4 DEF Apart, Holds, NonceOf, UntilOf, SinceOf, DecisionOf
  <2>3. LaunchesAreSingle
    BY <2>1, <2>2 DEF LaunchesAreSingle, PlanHolds
  <2>4. EvidenceIsTrue
    <3> SUFFICES ASSUME NEW c \in Calls, plans[c] # None
                 PROVE  plans[c].evidence.seen = [identity |-> plans[c].evidence.executable.identity,
                                                  content |-> plans[c].evidence.executable.sha256]
      BY DEF EvidenceIsTrue, LaunchSafety, CallsHold
    <3> QED BY DEF LaunchSafety, CallsHold, PlanHolds, EvidenceHolds, SeenHolds
  <2> QED BY <2>3, <2>4 DEF LaunchesAreAuthorized
<1> QED BY <1>1, LaunchesAreSound, PTL

-----------------------------------------------------------------------------
(* Provisioning: what every bundle the topology gate returns can be relied  *)
(* on for, whatever the other attempts, the operator and the clock do.      *)

\* What a node and an attempt consist of.
PhaseSet == {"root", "parents", "client", "listener"}
IsNode(n) == \E T : n \in [kind : T, entries : T, bytes : T, stamp : T, by : T, removedBy : T]
Fields ==
    {"gate", "pc", "phase", "step", "fd", "made", "request", "grant", "evidence", "adopted", "caller", "aborted", "startedAt",
     "gateLast", "last", "until", "completedAt"}
IsAttempt(x) ==
    /\ \E T : x \in [Fields -> T]
    /\ \E T : x.fd \in [Slots -> T]
    /\ \E T : x.evidence \in [PhaseSet -> T]

IsDisk(tree) == (\E S : tree \in Seq(S)) /\ \A i \in DOMAIN tree : IsNode(tree[i])

\* Nodes are only added, and stay whose they were.
OnlyAdds(old, new) ==
    /\ IsDisk(new) /\ Len(old) <= Len(new)
    /\ \A i \in 1 .. Len(old) : new[i].by = old[i].by

LEMMA DisksAreSequences ==
    ASSUME NEW tree, IsDisk(tree)
    PROVE  Len(tree) \in Nat /\ DOMAIN tree = 1 .. Len(tree)
BY DEF IsDisk

LEMMA KeepingIsTransitive ==
    ASSUME NEW a, NEW b, NEW c, IsDisk(a), OnlyAdds(a, b), OnlyAdds(b, c)
    PROVE  OnlyAdds(a, c)
<1>1. Len(a) \in Nat /\ Len(b) \in Nat /\ Len(c) \in Nat
  BY DisksAreSequences DEF OnlyAdds
<1> QED BY <1>1 DEF OnlyAdds

LEMMA NodeIsReplaced ==
    ASSUME NEW tree, IsDisk(tree), NEW d, NEW n, d \in DOMAIN tree => IsNode(n) /\ n.by = tree[d].by
    PROVE  OnlyAdds(tree, [tree EXCEPT ![d] = n]) /\ Len([tree EXCEPT ![d] = n]) = Len(tree)
<1>1. PICK S : tree \in Seq(S)
  BY DEF IsDisk
<1>2. PICK e : e = [tree EXCEPT ![d] = n]
  OBVIOUS
<1>3. Len(tree) \in Nat /\ DOMAIN tree = 1 .. Len(tree) /\ tree \in [1 .. Len(tree) -> S]
  BY <1>1
<1>4. e \in [1 .. Len(tree) -> S \cup {n}]
  BY <1>2, <1>3
<1>5. e \in Seq(S \cup {n})
  BY <1>3, <1>4, SeqDef
<1>6. Len(e) = Len(tree) /\ DOMAIN e = 1 .. Len(tree)
  BY <1>3, <1>4, <1>5
<1>7. \A i \in 1 .. Len(tree) : IsNode(e[i]) /\ e[i].by = tree[i].by
  BY <1>2, <1>3 DEF IsDisk
<1>8. IsDisk(e)
  BY <1>5, <1>6, <1>7 DEF IsDisk
<1> QED BY <1>2, <1>3, <1>6, <1>7, <1>8 DEF OnlyAdds

LEMMA NodeIsAppended ==
    ASSUME NEW tree, IsDisk(tree), NEW n, IsNode(n)
    PROVE  /\ OnlyAdds(tree, Append(tree, n)) /\ Len(Append(tree, n)) = Len(tree) + 1
           /\ Append(tree, n)[Len(tree) + 1] = n
<1>1. PICK S : tree \in Seq(S)
  BY DEF IsDisk
<1>2. tree \in Seq(S \cup {n}) /\ n \in S \cup {n}
  BY <1>1, SeqDef
<1>3. PICK e : e = Append(tree, n)
  OBVIOUS
<1>4. /\ e \in Seq(S \cup {n}) /\ Len(e) = Len(tree) + 1 /\ e[Len(tree) + 1] = n /\ Len(tree) \in Nat
      /\ \A i \in 1 .. Len(tree) : e[i] = tree[i]
  BY <1>2, <1>3
<1>5. DOMAIN e = 1 .. Len(tree) + 1 /\ DOMAIN tree = 1 .. Len(tree)
  BY <1>1, <1>4
<1>6. \A i \in 1 .. Len(tree) + 1 : IsNode(e[i])
  BY <1>4, <1>5 DEF IsDisk
<1>7. IsDisk(e)
  BY <1>4, <1>5, <1>6 DEF IsDisk
<1> QED BY <1>3, <1>4, <1>7 DEF OnlyAdds

\* The fields of a node that change, and not its creator.
LEMMA NodeFields ==
    ASSUME NEW n, IsNode(n), NEW v
    PROVE  /\ IsNode([n EXCEPT !.entries = v]) /\ [n EXCEPT !.entries = v].by = n.by
           /\ IsNode([n EXCEPT !.stamp = v]) /\ [n EXCEPT !.stamp = v].by = n.by
           /\ IsNode([n EXCEPT !.bytes = v]) /\ [n EXCEPT !.bytes = v].by = n.by
           /\ IsNode([n EXCEPT !.removedBy = v]) /\ [n EXCEPT !.removedBy = v].by = n.by
           /\ IsNode([n EXCEPT !.kind = v]) /\ [n EXCEPT !.kind = v].by = n.by
<1>1. PICK T : n \in [kind : T, entries : T, bytes : T, stamp : T, by : T, removedBy : T]
  BY DEF IsNode
<1>2. PICK U : U = T \cup {v}
  OBVIOUS
<1>3. v \in U /\ n \in [kind : U, entries : U, bytes : U, stamp : U, by : U, removedBy : U]
  BY <1>1, <1>2
<1>4. \E X : [n EXCEPT !.entries = v] \in [kind : X, entries : X, bytes : X, stamp : X, by : X, removedBy : X]
  BY <1>3
<1>5. \E X : [n EXCEPT !.stamp = v] \in [kind : X, entries : X, bytes : X, stamp : X, by : X, removedBy : X]
  BY <1>3
<1>6. \E X : [n EXCEPT !.bytes = v] \in [kind : X, entries : X, bytes : X, stamp : X, by : X, removedBy : X]
  BY <1>3
<1>7. \E X : [n EXCEPT !.removedBy = v] \in [kind : X, entries : X, bytes : X, stamp : X, by : X, removedBy : X]
  BY <1>3
<1>8. \E X : [n EXCEPT !.kind = v] \in [kind : X, entries : X, bytes : X, stamp : X, by : X, removedBy : X]
  BY <1>3
<1> QED BY <1>3, <1>4, <1>5, <1>6, <1>7, <1>8 DEF IsNode

\* mkdirSync and openSync with O_CREAT.
LEMMA AddedKeeps ==
    ASSUME IsDisk(nodes), NEW d, NEW name, NEW n, IsNode(n)
    PROVE  /\ OnlyAdds(nodes, Added(d, name, n)) /\ Len(Added(d, name, n)) = Len(nodes) + 1
           /\ Added(d, name, n)[Len(nodes) + 1].by = n.by
<1>1. PICK e : e = Append(nodes, n)
  OBVIOUS
<1>2. OnlyAdds(nodes, e) /\ Len(e) = Len(nodes) + 1 /\ e[Len(nodes) + 1] = n
  BY <1>1, NodeIsAppended
<1>3. IsDisk(e) /\ Len(nodes) \in Nat /\ DOMAIN e = 1 .. Len(nodes) + 1
  BY <1>2, DisksAreSequences DEF OnlyAdds
<1>4. PICK v : v = [e[d].entries EXCEPT ![name] = Len(nodes) + 1]
  OBVIOUS
<1>5. PICK m : m = [e[d] EXCEPT !.entries = v]
  OBVIOUS
<1>6. PICK k : k = [m EXCEPT !.stamp = e[d].stamp + 1]
  OBVIOUS
<1>7. d \in DOMAIN e => IsNode(m) /\ m.by = e[d].by
  BY <1>3, <1>5, NodeFields DEF IsDisk
<1>8. d \in DOMAIN e => IsNode(k) /\ k.by = e[d].by
  BY <1>6, <1>7, NodeFields
<1>9. d \in DOMAIN e => m.stamp = e[d].stamp
  BY <1>3, <1>5 DEF IsDisk, IsNode
<1>10. Added(d, name, n) = [e EXCEPT ![d] = k]
  BY <1>1, <1>4, <1>5, <1>6, <1>9 DEF Added
<1>11. OnlyAdds(e, Added(d, name, n)) /\ Len(Added(d, name, n)) = Len(e)
  <2>1. OnlyAdds(e, [e EXCEPT ![d] = k]) /\ Len([e EXCEPT ![d] = k]) = Len(e)
    BY <1>3, <1>8, NodeIsReplaced
  <2> QED BY <1>10, <2>1
<1>12. OnlyAdds(nodes, Added(d, name, n))
  BY <1>2, <1>11, KeepingIsTransitive
<1> QED BY <1>2, <1>3, <1>11, <1>12 DEF OnlyAdds

\* rmdirSync, unlinkSync, and an entry that is moved away.
LEMMA EntryIsRemoved ==
    ASSUME NEW tree, IsDisk(tree), NEW d, NEW name
    PROVE  OnlyAdds(tree, [tree EXCEPT ![d].entries[name] = None, ![d].stamp = @ + 1])
<1>1. PICK v : v = [tree[d].entries EXCEPT ![name] = None]
  OBVIOUS
<1>2. PICK m : m = [tree[d] EXCEPT !.entries = v]
  OBVIOUS
<1>3. PICK k : k = [m EXCEPT !.stamp = tree[d].stamp + 1]
  OBVIOUS
<1>4. d \in DOMAIN tree => IsNode(m) /\ m.by = tree[d].by /\ m.stamp = tree[d].stamp
  BY <1>2, NodeFields DEF IsDisk, IsNode
<1>5. d \in DOMAIN tree => IsNode(k) /\ k.by = tree[d].by
  BY <1>3, <1>4, NodeFields
<1>6. [tree EXCEPT ![d].entries[name] = None, ![d].stamp = @ + 1] = [tree EXCEPT ![d] = k]
  BY <1>1, <1>2, <1>3, <1>4
<1> QED BY <1>5, <1>6, NodeIsReplaced

LEMMA RemovedKeeps ==
    ASSUME IsDisk(nodes), NEW d, NEW name, NEW by
    PROVE  OnlyAdds(nodes, Removed(d, name, by))
<1>1. PICK i : i = nodes[d].entries[name]
  OBVIOUS
<1>2. PICK e : e = [nodes EXCEPT ![d].entries[name] = None, ![d].stamp = @ + 1]
  OBVIOUS
<1>3. OnlyAdds(nodes, e) /\ IsDisk(e)
  <2>1. OnlyAdds(nodes, [nodes EXCEPT ![d].entries[name] = None, ![d].stamp = @ + 1])
    BY EntryIsRemoved
  <2> QED BY <1>2, <2>1 DEF OnlyAdds
<1>4. PICK m : m = [e[i] EXCEPT !.removedBy = by]
  OBVIOUS
<1>5. PICK f : f = [e EXCEPT ![i] = m]
  OBVIOUS
<1>6. i \in DOMAIN e => IsNode(m) /\ m.by = e[i].by
  BY <1>3, <1>4, NodeFields DEF IsDisk
<1>7. OnlyAdds(e, f) /\ IsDisk(f)
  <2>1. OnlyAdds(e, [e EXCEPT ![i] = m])
    BY <1>3, <1>6, NodeIsReplaced
  <2> QED BY <1>5, <2>1 DEF OnlyAdds
<1>8. PICK kind : kind = IF f[i].kind = "directory" THEN "gone" ELSE f[i].kind
  OBVIOUS
<1>9. PICK k : k = [f[i] EXCEPT !.kind = kind]
  OBVIOUS
<1>10. i \in DOMAIN f => IsNode(k) /\ k.by = f[i].by
  BY <1>7, <1>9, NodeFields DEF IsDisk
<1>11. OnlyAdds(f, [f EXCEPT ![i] = k])
  BY <1>7, <1>10, NodeIsReplaced
<1>12. Removed(d, name, by) = [f EXCEPT ![i] = k]
  BY <1>1, <1>2, <1>4, <1>5, <1>8, <1>9 DEF Removed
<1>13. OnlyAdds(nodes, f)
  BY <1>3, <1>7, KeepingIsTransitive
<1> QED BY <1>11, <1>12, <1>13, KeepingIsTransitive

\* A file is written.
LEMMA WrittenKeeps ==
    ASSUME NEW tree, IsDisk(tree), NEW i, NEW content
    PROVE  /\ OnlyAdds(tree, [tree EXCEPT ![i].bytes = content])
           /\ OnlyAdds(tree, [tree EXCEPT ![i].bytes = content, ![i].stamp = @ + 1])
<1>1. PICK m : m = [tree[i] EXCEPT !.bytes = content]
  OBVIOUS
<1>2. PICK k : k = [m EXCEPT !.stamp = tree[i].stamp + 1]
  OBVIOUS
<1>3. i \in DOMAIN tree => IsNode(m) /\ m.by = tree[i].by /\ m.stamp = tree[i].stamp
  BY <1>1, NodeFields DEF IsDisk, IsNode
<1>4. i \in DOMAIN tree => IsNode(k) /\ k.by = tree[i].by
  BY <1>2, <1>3, NodeFields
<1>5. [tree EXCEPT ![i].bytes = content] = [tree EXCEPT ![i] = m]
  BY <1>1
<1>6. [tree EXCEPT ![i].bytes = content, ![i].stamp = @ + 1] = [tree EXCEPT ![i] = k]
  BY <1>1, <1>2, <1>3
<1> QED BY <1>3, <1>4, <1>5, <1>6, NodeIsReplaced

LEMMA SameDiskKeeps ==
    ASSUME NEW tree, IsDisk(tree)
    PROVE  OnlyAdds(tree, tree)
BY DisksAreSequences DEF OnlyAdds

ModuleKinds == {"client", "listener"}
Operations == {"open", "enter", "make", "create", "write", "read", "again", "absent"}

\* A module is created, written, compared and read, and never just found.
IsHostStep(do) ==
    /\ do.op \in Operations
    /\ do.op = "enter" => do.key # "source"
    /\ do.key \in ModuleKinds => do.op \in {"create", "write", "read", "again"}

LEMMA HostsCreateModules ==
    ASSUME NEW phase \in PhaseSet
    PROVE  /\ Len(Host(phase)) \in Nat /\ 1 <= Len(Host(phase))
           /\ \A n \in 1 .. Len(Host(phase)) : IsHostStep(Host(phase)[n])
<1>1. CASE phase = "root"
  <2>1. Host(phase) = RuntimeRootHost
    BY <1>1 DEF Host
  <2>2. Len(RuntimeRootHost) = 5 /\ \A n \in 1 .. 5 : IsHostStep(RuntimeRootHost[n])
    BY DEF RuntimeRootHost, Do, IsHostStep, Operations, ModuleKinds
  <2> QED BY <2>1, <2>2
<1>2. CASE phase = "parents"
  <2>1. Host(phase) = ParentDirectoryHost
    BY <1>2 DEF Host
  <2>2. Len(ParentDirectoryHost) = 11 /\ \A n \in 1 .. 11 : IsHostStep(ParentDirectoryHost[n])
    BY DEF ParentDirectoryHost, Do, IsHostStep, Operations, ModuleKinds
  <2> QED BY <2>1, <2>2
<1>3. CASE phase \in ModuleKinds
  <2>1. Host(phase) = PathHost(phase)
    BY <1>3 DEF Host, ModuleKinds
  <2>2. PICK s : s = <<Do("enter", "run", "supervisor"), Do("again", None, "native"), Do("again", None, "run"),
                       Do("again", None, phase), Do("again", None, "supervisor"), Do("absent", None, "socket"),
                       Do("read", None, phase)>>
    OBVIOUS
  <2>3. PICK S : s \in Seq(S) /\ CopyModule(phase) \in Seq(S)
    <3>1. PICK S : S = {s[n] : n \in 1 .. 7} \cup {CopyModule(phase)[n] : n \in 1 .. 6}
      OBVIOUS
    <3>2. s \in Seq(S)
      BY <2>2, <3>1
    <3>3. CopyModule(phase) \in Seq(S)
      BY <3>1 DEF CopyModule
    <3> QED BY <3>2, <3>3
  <2>4. Len(s) = 7 /\ \A n \in 1 .. 7 : IsHostStep(s[n])
    BY <1>3, <2>2 DEF Do, IsHostStep, Operations, ModuleKinds
  <2>5. Len(CopyModule(phase)) = 6 /\ \A n \in 1 .. 6 : IsHostStep(CopyModule(phase)[n])
    BY <1>3 DEF CopyModule, Do, IsHostStep, Operations, ModuleKinds
  <2>6. PICK c : c = CopyModule(phase)
    OBVIOUS
  <2>7. PathHost(phase) = c \o s
    BY <2>2, <2>6 DEF PathHost
  <2>8. PICK t : t = c \o s
    OBVIOUS
  <2>9. c \in Seq(S) /\ s \in Seq(S) /\ Len(c) = 6 /\ Len(s) = 7
    BY <2>3, <2>4, <2>5, <2>6
  <2>10. Len(t) = 13 /\ \A n \in 1 .. 13 : t[n] = IF n <= 6 THEN c[n] ELSE s[n - 6]
    <3>1. c \in Seq(S) /\ s \in Seq(S)
      BY <2>9
    <3>2. /\ Len(c \o s) = Len(c) + Len(s)
          /\ \A n \in 1 .. Len(c) + Len(s) : (c \o s)[n] = IF n <= Len(c) THEN c[n] ELSE s[n - Len(c)]
      BY <3>1, ConcatProperties
    <3>3. /\ Len(t) = Len(c) + Len(s)
          /\ \A n \in 1 .. Len(c) + Len(s) : t[n] = IF n <= Len(c) THEN c[n] ELSE s[n - Len(c)]
      BY <2>8, <3>2, Zenon
    <3>4. Len(c) = 6 /\ Len(s) = 7
      BY <2>9
    <3> HIDE <2>2, <2>6, <2>8
    <3> QED BY <3>3, <3>4
  <2>11. ASSUME NEW n \in 1 .. 13 PROVE IsHostStep(t[n])
    <3>1. CASE n <= 6
      <4>1. n \in 1 .. 6 /\ t[n] = c[n]
        BY <2>10, <3>1
      <4> QED BY <2>5, <2>6, <4>1
    <3>2. CASE ~(n <= 6)
      <4>1. n - 6 \in 1 .. 7 /\ t[n] = s[n - 6]
        BY <2>10, <3>2
      <4> QED BY <2>4, <4>1
    <3> QED BY <3>1, <3>2
  <2>12. Host(phase) = t
    BY <2>1, <2>7, <2>8, Zenon
  <2>13. Len(t) \in Nat /\ 1 <= Len(t) /\ \A n \in 1 .. Len(t) : IsHostStep(t[n])
    <3>1. Len(t) = 13
      BY <2>10
    <3> HIDE <2>2, <2>6, <2>8
    <3> QED BY <2>11, <3>1
  <2> QED BY <2>12, <2>13, Zenon
<1> QED BY <1>1, <1>2, <1>3 DEF PhaseSet, ModuleKinds

LEMMA NewNodes ==
    ASSUME NEW a, NEW content
    PROVE  /\ IsNode(Directory(a)) /\ Directory(a).by = a
           /\ IsNode(File(a, content)) /\ File(a, content).by = a
<1>1. IsNode(Directory(a)) /\ Directory(a).by = a
  <2>1. PICK T : T = {"directory", NoEntries, None, 0, a}
    OBVIOUS
  <2>2. Directory(a) \in [kind : T, entries : T, bytes : T, stamp : T, by : T, removedBy : T]
    BY <2>1 DEF Directory
  <2> QED BY <2>2 DEF IsNode, Directory
<1>2. PICK m : m = [Directory(a) EXCEPT !.kind = "file"]
  OBVIOUS
<1>3. IsNode(m) /\ m.by = a
  BY <1>1, <1>2, NodeFields
<1>4. IsNode([m EXCEPT !.bytes = content]) /\ [m EXCEPT !.bytes = content].by = a
  BY <1>3, NodeFields
<1>5. File(a, content) = [m EXCEPT !.bytes = content]
  BY <1>2 DEF File
<1> QED BY <1>1, <1>4, <1>5

\* A step of a host creates at most one node, and a module's descriptor is of the
\* file the attempt created.
LEMMA HostStepKeeps ==
    ASSUME IsDisk(nodes), NEW a, NEW do, IsHostStep(do), NEW r, r = Operate(a, do)
    PROVE  /\ OnlyAdds(nodes, r.nodes) /\ r.ok \in BOOLEAN
           /\ do.key \in ModuleKinds /\ r.fd # None =>
                \/ r.fd = attempts[a].fd[do.key]
                \/ r.fd = Len(nodes) + 1 /\ Len(r.nodes) = Len(nodes) + 1 /\ r.nodes[Len(nodes) + 1].by = a
<1>1. OnlyAdds(nodes, nodes)
  BY SameDiskKeeps
<1>2. CASE r = Failure
  BY <1>1, <1>2 DEF Failure
<1>3. CASE \E i : r = Success(i, nodes, FALSE) /\ (do.key \in ModuleKinds => i \in {None, attempts[a].fd[do.key]})
  BY <1>1, <1>3 DEF Success
<1>4. CASE do.op \in {"open", "enter"}
  <2>1. do.key \notin ModuleKinds
    BY <1>4 DEF IsHostStep
  <2>2. PICK at : at = IF do.dir = None THEN Resolve(PathIn(a, do.key)) ELSE nodes[attempts[a].fd[do.dir]].entries[NameOf(a, do.key)]
    OBVIOUS
  <2>3. r = Failure \/ r = Success(at, nodes, FALSE)
    <3>1. CASE do.key = "source" /\ do.op = "open"
      BY <2>2, <3>1 DEF Operate
    <3>2. CASE do.key # "source"
      BY <1>4, <2>2, <3>2 DEF Operate
    <3> QED BY <1>4, <3>1, <3>2 DEF IsHostStep
  <2> QED BY <1>2, <1>3, <2>1, <2>3
<1>5. CASE do.op \in {"make", "create"}
  <2>1. PICK d, name : d = attempts[a].fd[do.dir] /\ name = NameOf(a, do.key)
    OBVIOUS
  <2>2. CASE ~Creatable(d, name)
    <3>1. r = Failure
      BY <1>5, <2>1, <2>2 DEF Operate
    <3> QED BY <1>2, <3>1
  <2>3. CASE Creatable(d, name) /\ do.op = "make"
    <3>1. r = Success(None, Added(d, name, Directory(a)), TRUE)
      BY <2>1, <2>3 DEF Operate
    <3>2. OnlyAdds(nodes, Added(d, name, Directory(a)))
      BY AddedKeeps, NewNodes
    <3> QED BY <3>1, <3>2 DEF Success
  <2>4. CASE Creatable(d, name) /\ do.op = "create"
    <3>1. r = Success(Len(nodes) + 1, Added(d, name, File(a, None)), TRUE)
      BY <2>1, <2>4 DEF Operate
    <3>2. PICK f : f = File(a, None)
      OBVIOUS
    <3>3. IsNode(f) /\ f.by = a
      BY <3>2, NewNodes
    <3>4. /\ OnlyAdds(nodes, Added(d, name, f)) /\ Len(Added(d, name, f)) = Len(nodes) + 1
          /\ Added(d, name, f)[Len(nodes) + 1].by = f.by
      BY <3>3, AddedKeeps
    <3> QED BY <3>1, <3>2, <3>3, <3>4 DEF Success
  <2> QED BY <1>5, <2>2, <2>3, <2>4
<1>6. CASE do.op = "write"
  <2>1. r = Success(attempts[a].fd[do.key], [nodes EXCEPT ![attempts[a].fd[do.key]].bytes = Sha(a)], FALSE)
    BY <1>6 DEF Operate
  <2>2. OnlyAdds(nodes, [nodes EXCEPT ![attempts[a].fd[do.key]].bytes = Sha(a)])
    BY WrittenKeeps
  <2> QED BY <2>1, <2>2 DEF Success
<1>7. CASE do.op = "read"
  <2>1. r = Failure \/ r = Success(attempts[a].fd[do.key], nodes, FALSE)
    BY <1>7 DEF Operate
  <2> QED BY <1>2, <1>3, <2>1
<1>8. CASE do.op \in {"again", "absent"}
  <2>1. r = Failure \/ r = Success(attempts[a].fd[do.key], nodes, FALSE) \/ r = Success(None, nodes, FALSE)
    BY <1>8 DEF Operate, sameIdentity
  <2> QED BY <1>2, <1>3, <2>1
<1> QED BY <1>4, <1>5, <1>6, <1>7, <1>8 DEF IsHostStep, Operations

\* A node that attempt a created.
Own(tree, a, i) == i \in 1 .. Len(tree) /\ tree[i].by = a

\* Both observations have arrived, and the gate knows until when they last.
GateIsSound(seen, x) ==
    /\ x.startedAt \in Nat /\ x.until \in Nat
    /\ \A r \in Roles :
         /\ seen[r] # None /\ seen[r].state # "opened"
         /\ seen[r].until \in Nat /\ x.until <= seen[r].until

\* All phases have been passed, and their grants were fresh at the end.
DoneIsSound(tree, a, x) ==
    /\ \A k \in ModuleKinds : Own(tree, a, x.evidence[k].ids[k])
    /\ \A n \in 1..4 : x.evidence[Phases[n]].from <= x.last /\ x.last < x.evidence[Phases[n]].until

Hosting == {"host", "look", "remove"}

AttemptIsSound(tree, seen, a, x) ==
    /\ IsAttempt(x) /\ x.aborted \in BOOLEAN /\ x.gate \in {"idle", "attesting", "provisioning", "returned", "rejected"}
    /\ x.gate \in {"idle", "attesting"} => x.pc = "idle"
    /\ x.gate = "rejected" => x.aborted /\ x.pc \notin Hosting
    /\ x.pc \notin {"idle", "failed"} => x.phase \in PhaseSet
    /\ x.pc = "host" => x.step \in 1 .. Len(Host(x.phase))
    /\ \A k \in ModuleKinds : x.fd[k] # None => Own(tree, a, x.fd[k])
    /\ x.phase = "listener" /\ x.pc \notin {"idle", "failed"} => Own(tree, a, x.evidence["client"].ids["client"])
    /\ x.pc = "done" => DoneIsSound(tree, a, x)
    /\ x.gate = "attesting" => x.startedAt \in Nat
    /\ x.gate \in {"provisioning", "returned"} => GateIsSound(seen, x)
    /\ x.gate = "returned" =>
         /\ x.pc = "done" /\ x.completedAt \in Nat
         /\ x.completedAt < x.until /\ x.completedAt - x.startedAt <= GateTimeout

ObservationsAreSound ==
    /\ \E T : observations \in [Attempts -> [Roles -> T]]
    /\ \A a \in Attempts, r \in Roles :
         observations[a][r] # None /\ observations[a][r].state = "visible" => observations[a][r].until \in Nat

ProvisionSafety ==
    /\ now \in Nat /\ IsDisk(nodes) /\ ObservationsAreSound
    /\ \E T : attempts \in [Attempts -> T]
    /\ \A a \in Attempts : AttemptIsSound(nodes, observations[a], a, attempts[a])

LEMMA AttemptsStay ==
    ASSUME NEW tree, NEW new, IsDisk(tree), OnlyAdds(tree, new), NEW seen, NEW a, NEW x, AttemptIsSound(tree, seen, a, x)
    PROVE  AttemptIsSound(new, seen, a, x)
<1>1. ASSUME NEW i, Own(tree, a, i) PROVE Own(new, a, i)
  <2>1. Len(tree) \in Nat /\ Len(new) \in Nat
    BY DisksAreSequences DEF OnlyAdds
  <2> QED BY <1>1, <2>1 DEF Own, OnlyAdds
<1>2. DoneIsSound(tree, a, x) => DoneIsSound(new, a, x)
  BY <1>1 DEF DoneIsSound
<1>3. \A k \in ModuleKinds : x.fd[k] # None => Own(new, a, x.fd[k])
  BY <1>1 DEF AttemptIsSound
<1> QED BY <1>1, <1>2, <1>3 DEF AttemptIsSound

\* One attempt moves.
LEMMA AttemptMoves ==
    ASSUME ProvisionSafety, OnlyAdds(nodes, nodes'), NEW a \in Attempts, NEW x, attempts' = [attempts EXCEPT ![a] = x],
           AttemptIsSound(nodes', observations[a], a, x), UNCHANGED <<observations, now>>
    PROVE  ProvisionSafety'
<1>1. PICK T : attempts \in [Attempts -> T]
  BY DEF ProvisionSafety
<1>2. attempts' \in [Attempts -> T \cup {x}] /\ attempts'[a] = x /\ \A b \in Attempts \ {a} : attempts'[b] = attempts[b]
  BY <1>1
<1>3. ASSUME NEW b \in Attempts \ {a} PROVE AttemptIsSound(nodes', observations'[b], b, attempts'[b])
  <2>1. AttemptIsSound(nodes, observations[b], b, attempts[b]) /\ IsDisk(nodes)
    BY DEF ProvisionSafety
  <2>2. AttemptIsSound(nodes', observations[b], b, attempts[b])
    BY <2>1, AttemptsStay
  <2> QED BY <1>2, <2>2
<1>4. AttemptIsSound(nodes', observations'[a], a, attempts'[a])
  BY <1>2
<1>5. ObservationsAreSound'
  BY DEF ProvisionSafety, ObservationsAreSound
<1>6. IsDisk(nodes')
  BY DEF OnlyAdds
<1> QED BY <1>2, <1>3, <1>4, <1>5, <1>6 DEF ProvisionSafety

\* An attempt moves and leaves the disk alone.
LEMMA QuietMove ==
    ASSUME ProvisionSafety, NEW a \in Attempts, NEW x, Set(a, x), AttemptIsSound(nodes, observations[a], a, x), UNCHANGED <<nodes, observations, now>>
    PROVE  ProvisionSafety'
<1>1. IsDisk(nodes) /\ OnlyAdds(nodes, nodes')
  BY SameDiskKeeps DEF ProvisionSafety
<1>2. AttemptIsSound(nodes', observations[a], a, x)
  BY <1>1, AttemptsStay
<1> QED BY <1>1, <1>2, AttemptMoves DEF Set

\* The gate rejects.
LEMMA RejectionIsSound ==
    ASSUME NEW tree, NEW seen, NEW a, NEW x, AttemptIsSound(tree, seen, a, x), x.pc \notin Hosting,
           NEW y, y = [x EXCEPT !.gate = "rejected", !.aborted = TRUE]
    PROVE  AttemptIsSound(tree, seen, a, y)
<1>1. /\ IsAttempt(y) /\ y.gate = "rejected" /\ y.aborted = TRUE /\ y.pc = x.pc /\ y.phase = x.phase /\ y.fd = x.fd
      /\ y.evidence = x.evidence /\ y.last = x.last
  <2>1. PICK T : x \in [Fields -> T]
    BY DEF AttemptIsSound, IsAttempt
  <2>2. y \in [Fields -> T \cup {"rejected", TRUE}]
    BY <2>1 DEF Fields
  <2>3. y.gate = "rejected" /\ y.aborted = TRUE /\ y.pc = x.pc /\ y.phase = x.phase /\ y.fd = x.fd /\ y.evidence = x.evidence /\ y.last = x.last
    BY <2>1 DEF Fields
  <2> QED BY <2>2, <2>3 DEF AttemptIsSound, IsAttempt
<1> QED BY <1>1 DEF AttemptIsSound, DoneIsSound, Hosting

\* The controller denies.
LEMMA FailureIsSound ==
    ASSUME NEW tree, NEW seen, NEW a, NEW x, IsAttempt(x)
    PROVE  AttemptIsSound(tree, seen, a, Failed(x))
<1>1. PICK y : y = Failed(x)
  OBVIOUS
<1>2. PICK T : x \in [Fields -> T]
  BY DEF IsAttempt
<1>3. NewAttempt.fd = [k \in Slots |-> None] /\ NewAttempt.evidence = [p \in PhaseSet |-> None]
  BY DEF NewAttempt, PhaseSet
<1>4. /\ y.pc = "failed" /\ y.gate = "rejected" /\ y.aborted = TRUE
      /\ y.fd = NewAttempt.fd /\ y.evidence = NewAttempt.evidence
  BY <1>1, <1>2 DEF Failed, Fields
<1>5. \E U : y \in [Fields -> U]
  <2>1. PICK U : U = T \cup {"failed", "rejected", TRUE, NewAttempt.fd, {}, 0, None, NewAttempt.evidence}
    OBVIOUS
  <2>2. y \in [Fields -> U]
    BY <1>1, <1>2, <2>1 DEF Failed
  <2> QED BY <2>2
<1>6. IsAttempt(y) /\ \A k \in ModuleKinds : y.fd[k] = None
  <2>1. y.fd \in [Slots -> {None}] /\ y.evidence \in [PhaseSet -> {None}]
    BY <1>3, <1>4
  <2>2. \A k \in ModuleKinds : y.fd[k] = None
    BY <2>1 DEF ModuleKinds, Slots
  <2> QED BY <1>5, <2>1, <2>2 DEF IsAttempt
<1> QED BY <1>1, <1>4, <1>6 DEF AttemptIsSound, Hosting

\* The controller calls the next phase.
LEMMA PhaseIsCalled ==
    ASSUME ProvisionSafety, NEW a \in Attempts, NEW x, NEW phase \in PhaseSet, CallPhase(a, x, phase),
           UNCHANGED <<nodes, observations, now>>,
           IsAttempt(x), x.aborted \in BOOLEAN, x.gate = "provisioning", GateIsSound(observations[a], x),
           phase = "listener" => Own(nodes, a, x.evidence["client"].ids["client"])
    PROVE  ProvisionSafety'
<1>1. CASE Fail(a, x)
  BY <1>1, FailureIsSound, QuietMove DEF Fail
<1>2. PICK q : q = RequestOf(a, phase, x.evidence)
  OBVIOUS
<1>3. CASE ~x.aborted /\ Set(a, [x EXCEPT !.pc = "authorizing", !.phase = phase, !.request = q, !.grant = None,
                                          !.fd = [k \in Slots |-> None], !.made = {}, !.step = 0])
  <2>1. PICK fd : fd = [k \in Slots |-> None]
    OBVIOUS
  <2>2. PICK y : y = [x EXCEPT !.pc = "authorizing", !.phase = phase, !.request = q, !.grant = None,
                               !.fd = fd, !.made = {}, !.step = 0]
    OBVIOUS
  <2>3. PICK T : x \in [Fields -> T]
    BY DEF IsAttempt
  <2>4. \E U : y \in [Fields -> U]
    <3>1. PICK U : U = T \cup {"authorizing", phase, q, None, fd, {}, 0}
      OBVIOUS
    <3>2. y \in [Fields -> U]
      BY <2>2, <2>3, <3>1
    <3> QED BY <3>2
  <2>5. /\ y.pc = "authorizing" /\ y.phase = phase /\ y.fd = fd /\ y.gate = x.gate /\ y.aborted = x.aborted
        /\ y.evidence = x.evidence /\ y.startedAt = x.startedAt /\ y.until = x.until
    BY <2>2, <2>3 DEF Fields
  <2>6. fd \in [Slots -> {None}] /\ \A k \in ModuleKinds : fd[k] = None
    BY <2>1 DEF Slots, ModuleKinds
  <2>7. IsAttempt(y)
    BY <2>4, <2>5, <2>6 DEF IsAttempt
  <2>8. GateIsSound(observations[a], y)
    BY <2>5 DEF GateIsSound
  <2>9. y.aborted \in BOOLEAN
    BY <2>5
  <2>10. AttemptIsSound(nodes, observations[a], a, y)
    BY <2>5, <2>6, <2>7, <2>8, <2>9 DEF AttemptIsSound, Hosting
  <2> QED BY <1>3, <2>1, <2>2, <2>10, QuietMove
<1> QED BY <1>1, <1>2, <1>3 DEF CallPhase

LEMMA AttemptIsKnown ==
    ASSUME ProvisionSafety, NEW a \in Attempts
    PROVE  AttemptIsSound(nodes, observations[a], a, attempts[a]) /\ IsAttempt(attempts[a]) /\ \E T : attempts[a] \in [Fields -> T]
BY DEF ProvisionSafety, AttemptIsSound, IsAttempt

LEMMA AttemptBegins ==
    ASSUME ProvisionSafety, NEW a \in Attempts, begin(a)
    PROVE  ProvisionSafety'
<1>1. PICK x : x = attempts[a]
  OBVIOUS
<1>2. AttemptIsSound(nodes, observations[a], a, x) /\ x.gate = "idle" /\ x.pc = "idle" /\ now \in Nat
  BY <1>1, AttemptIsKnown DEF begin, AttemptIsSound, ProvisionSafety
<1>3. CASE Reject(a)
  <2>1. PICK y : y = [x EXCEPT !.gate = "rejected", !.aborted = TRUE]
    OBVIOUS
  <2>2. AttemptIsSound(nodes, observations[a], a, y)
    BY <1>2, <2>1, RejectionIsSound DEF Hosting
  <2> QED BY <1>1, <1>3, <2>1, <2>2, QuietMove DEF Reject, begin
<1>4. CASE Set(a, [x EXCEPT !.gate = "attesting", !.startedAt = now, !.gateLast = now])
  <2>1. PICK y : y = [x EXCEPT !.gate = "attesting", !.startedAt = now, !.gateLast = now]
    OBVIOUS
  <2>2. PICK T : x \in [Fields -> T]
    BY <1>1, AttemptIsKnown
  <2>3. y \in [Fields -> T \cup {"attesting", now}]
    BY <2>1, <2>2
  <2>4. /\ y.gate = "attesting" /\ y.startedAt = now /\ y.pc = x.pc /\ y.phase = x.phase /\ y.fd = x.fd
        /\ y.evidence = x.evidence /\ y.aborted = x.aborted
    BY <2>1, <2>2 DEF Fields
  <2>5. IsAttempt(y)
    BY <1>2, <2>3, <2>4 DEF AttemptIsSound, IsAttempt
  <2>6. AttemptIsSound(nodes, observations[a], a, y)
    BY <1>2, <2>4, <2>5 DEF AttemptIsSound
  <2> QED BY <1>4, <2>1, <2>6, QuietMove DEF begin
<1> QED BY <1>1, <1>3, <1>4 DEF begin

\* attest: the gate knows the earlier end of the two observations.
LEMMA AttestationHolds ==
    ASSUME ProvisionSafety, NEW a \in Attempts, attest(a)
    PROVE  ProvisionSafety'
<1>1. PICK x : x = attempts[a]
  OBVIOUS
<1>2. AttemptIsSound(nodes, observations[a], a, x) /\ x.gate = "attesting" /\ x.pc = "idle" /\ now \in Nat /\ x.startedAt \in Nat
  BY <1>1, AttemptIsKnown DEF attest, AttemptIsSound, ProvisionSafety
<1>3. CASE Reject(a)
  <2>1. PICK y : y = [x EXCEPT !.gate = "rejected", !.aborted = TRUE]
    OBVIOUS
  <2>2. AttemptIsSound(nodes, observations[a], a, y)
    BY <1>2, <2>1, RejectionIsSound DEF Hosting
  <2> QED BY <1>1, <1>3, <2>1, <2>2, QuietMove DEF Reject, attest
<1>4. PICK o, until : o = observations[a] /\
          until = IF o["API_LISTENER"].until <= o["WORKER_CLIENT"].until THEN o["API_LISTENER"].until ELSE o["WORKER_CLIENT"].until
  OBVIOUS
<1>5. CASE /\ \A r \in Roles : validateTopologyObservation(o[r])
           /\ CallPhase(a, [x EXCEPT !.gate = "provisioning", !.until = until, !.gateLast = now], "root")
  <2>1. PICK y : y = [x EXCEPT !.gate = "provisioning", !.until = until, !.gateLast = now]
    OBVIOUS
  <2>2. PICK T : x \in [Fields -> T]
    BY <1>1, AttemptIsKnown
  <2>3. y \in [Fields -> T \cup {"provisioning", until, now}]
    BY <2>1, <2>2
  <2>4. /\ y.gate = "provisioning" /\ y.until = until /\ y.startedAt = x.startedAt /\ y.fd = x.fd /\ y.evidence = x.evidence
        /\ y.aborted = x.aborted /\ x.aborted \in BOOLEAN
    BY <1>2, <2>1, <2>2 DEF Fields, AttemptIsSound
  <2>5. IsAttempt(y)
    BY <1>2, <2>3, <2>4 DEF AttemptIsSound, IsAttempt
  <2>6. \A r \in Roles : o[r] # None /\ o[r].state # "opened"
    BY <1>4 DEF attest
  <2>7. \A r \in Roles : o[r].until \in Nat
    BY <1>4, <1>5, <2>6 DEF validateTopologyObservation, ProvisionSafety, ObservationsAreSound
  <2>8. until \in Nat /\ \A r \in Roles : until <= o[r].until
    BY <1>4, <2>7 DEF Roles
  <2>9. GateIsSound(observations[a], y)
    BY <1>2, <1>4, <2>4, <2>6, <2>7, <2>8 DEF GateIsSound
  <2> QED BY <1>5, <2>1, <2>4, <2>5, <2>9, PhaseIsCalled DEF attest, PhaseSet
<1> QED BY <1>1, <1>3, <1>4, <1>5 DEF attest

\* The fields a step of the controller or of its host leaves alone.
Like(x, y) ==
    /\ IsAttempt(y) /\ y.gate = x.gate /\ y.aborted = x.aborted /\ y.phase = x.phase /\ y.startedAt = x.startedAt
    /\ y.until = x.until /\ y.evidence = x.evidence

\* Such a step, between the call of a phase and its answer.
LEMMA PhaseGoesOn ==
    ASSUME NEW tree, NEW seen, NEW a, NEW x, NEW y, AttemptIsSound(tree, seen, a, x), Like(x, y), x.pc \notin {"idle", "failed", "done"},
           y.pc \notin {"idle", "failed", "done"}, y.pc \in Hosting => x.gate # "rejected",
           y.pc = "host" => y.step \in 1 .. Len(Host(y.phase)),
           \A k \in ModuleKinds : y.fd[k] # None => Own(tree, a, y.fd[k])
    PROVE  AttemptIsSound(tree, seen, a, y)
<1>1. GateIsSound(seen, x) => GateIsSound(seen, y)
  BY DEF GateIsSound, Like
<1> QED BY <1>1 DEF AttemptIsSound, Like

LEMMA AuthorityAnswers ==
    ASSUME ProvisionSafety, NEW a \in Attempts, Authorized(a)
    PROVE  ProvisionSafety'
<1>1. PICK x : x = attempts[a]
  OBVIOUS
<1>2. AttemptIsSound(nodes, observations[a], a, x) /\ IsAttempt(x) /\ x.pc = "authorizing"
  BY <1>1, AttemptIsKnown DEF Authorized
<1>3. CASE Fail(a, x)
  BY <1>2, <1>3, FailureIsSound, QuietMove DEF Fail, Authorized
<1>4. ASSUME NEW given, Set(a, [x EXCEPT !.pc = "granted", !.grant = given]) PROVE ProvisionSafety'
  <2>1. PICK y : y = [x EXCEPT !.pc = "granted", !.grant = given]
    OBVIOUS
  <2>2. PICK T : x \in [Fields -> T]
    BY <1>1, AttemptIsKnown
  <2>3. y \in [Fields -> T \cup {"granted", given}]
    BY <2>1, <2>2
  <2>4. /\ y.pc = "granted" /\ y.gate = x.gate /\ y.aborted = x.aborted /\ y.phase = x.phase /\ y.startedAt = x.startedAt
        /\ y.until = x.until /\ y.evidence = x.evidence /\ y.fd = x.fd
    BY <2>1, <2>2 DEF Fields
  <2>5. Like(x, y)
    BY <1>2, <2>3, <2>4 DEF Like, IsAttempt
  <2>6. AttemptIsSound(nodes, observations[a], a, y)
    <3>1. \A k \in ModuleKinds : y.fd[k] # None => Own(nodes, a, y.fd[k])
      BY <1>2, <2>4 DEF AttemptIsSound
    <3> QED BY <1>2, <2>4, <2>5, <3>1, PhaseGoesOn DEF Hosting
  <2> QED BY <1>4, <2>1, <2>6, QuietMove DEF Authorized
<1> QED BY <1>1, <1>3, <1>4 DEF Authorized

\* A provisioner resumes.
LEMMA ProvisionerResumes ==
    ASSUME ProvisionSafety, NEW a \in Attempts, Resume(a)
    PROVE  ProvisionSafety'
<1>1. PICK x : x = attempts[a]
  OBVIOUS
<1>2. AttemptIsSound(nodes, observations[a], a, x) /\ IsAttempt(x) /\ x.pc = "granted" /\ x.phase \in PhaseSet
  BY <1>1, AttemptIsKnown DEF Resume, AttemptIsSound
<1>3. CASE Fail(a, x)
  BY <1>2, <1>3, FailureIsSound, QuietMove DEF Fail, Resume
<1>4. CASE ~x.aborted /\ Set(a, [x EXCEPT !.pc = "host", !.step = 1])
  <2>1. PICK y : y = [x EXCEPT !.pc = "host", !.step = 1]
    OBVIOUS
  <2>2. PICK T : x \in [Fields -> T]
    BY <1>1, AttemptIsKnown
  <2>3. y \in [Fields -> T \cup {"host", 1}]
    BY <2>1, <2>2
  <2>4. /\ y.pc = "host" /\ y.step = 1 /\ y.gate = x.gate /\ y.aborted = x.aborted /\ y.phase = x.phase
        /\ y.startedAt = x.startedAt /\ y.until = x.until /\ y.evidence = x.evidence /\ y.fd = x.fd
    BY <2>1, <2>2 DEF Fields
  <2>5. Like(x, y)
    BY <1>2, <2>3, <2>4 DEF Like, IsAttempt
  <2>6. y.step \in 1 .. Len(Host(y.phase))
    BY <1>2, <2>4, HostsCreateModules
  <2>7. AttemptIsSound(nodes, observations[a], a, y)
    <3>1. \A k \in ModuleKinds : y.fd[k] # None => Own(nodes, a, y.fd[k])
      BY <1>2, <2>4 DEF AttemptIsSound
    <3>2. x.gate # "rejected"
      BY <1>2, <1>4 DEF AttemptIsSound
    <3> QED BY <1>2, <2>4, <2>5, <2>6, <3>1, <3>2, PhaseGoesOn
  <2> QED BY <1>4, <2>1, <2>7, QuietMove DEF Resume
<1> QED BY <1>1, <1>3, <1>4 DEF Resume, Admissible

\* A host opens, makes, writes or compares.
LEMMA HostGoesOn ==
    ASSUME ProvisionSafety, NEW a \in Attempts, runHost(a)
    PROVE  ProvisionSafety'
<1>1. PICK x : x = attempts[a]
  OBVIOUS
<1>2. /\ AttemptIsSound(nodes, observations[a], a, x) /\ IsAttempt(x) /\ x.pc = "host" /\ x.phase \in PhaseSet
      /\ x.step \in 1 .. Len(Host(x.phase)) /\ x.gate # "rejected" /\ IsDisk(nodes)
  BY <1>1, AttemptIsKnown DEF runHost, AttemptIsSound, ProvisionSafety, Hosting
<1>3. PICK do : do = Host(x.phase)[x.step]
  OBVIOUS
<1>4. IsHostStep(do) /\ Len(Host(x.phase)) \in Nat
  BY <1>2, <1>3, HostsCreateModules
<1>5. PICK r : r = Operate(a, do)
  OBVIOUS
<1>6. /\ OnlyAdds(nodes, r.nodes) /\ r.ok \in BOOLEAN
      /\ do.key \in ModuleKinds /\ r.fd # None =>
           \/ r.fd = x.fd[do.key]
           \/ r.fd = Len(nodes) + 1 /\ Len(r.nodes) = Len(nodes) + 1 /\ r.nodes[Len(nodes) + 1].by = a
  BY <1>1, <1>2, <1>4, <1>5, HostStepKeeps
<1>7. PICK fd : fd = IF r.fd = None THEN x.fd ELSE [x.fd EXCEPT ![do.key] = r.fd]
  OBVIOUS
<1>8. PICK made : made = IF r.made THEN x.made \cup {do.key} ELSE x.made
  OBVIOUS
<1>9. PICK T : x \in [Fields -> T]
  BY <1>2 DEF IsAttempt
<1>10. PICK adopted, y : adopted = x.adopted \cup Adopts(a, do, r) /\ y = [x EXCEPT !.fd = fd, !.made = made, !.adopted = adopted]
  OBVIOUS
<1>11. /\ y \in [Fields -> T \cup {fd, made, adopted}] /\ y.fd = fd /\ y.gate = x.gate /\ y.aborted = x.aborted /\ y.phase = x.phase
       /\ y.startedAt = x.startedAt /\ y.until = x.until /\ y.evidence = x.evidence /\ y.pc = x.pc /\ y.step = x.step
  BY <1>9, <1>10 DEF Fields
<1>12. /\ nodes' = r.nodes /\ UNCHANGED <<observations, now>>
       /\ Set(a, CASE ~r.ok -> [x EXCEPT !.pc = "look", !.step = 1]
                   [] r.ok /\ x.step < Len(Host(x.phase)) -> [y EXCEPT !.step = @ + 1]
                   [] r.ok /\ x.step = Len(Host(x.phase)) -> [y EXCEPT !.pc = "answered"])
  BY <1>1, <1>3, <1>5, <1>7, <1>8, <1>10, Zenon DEF runHost
<1>13. AttemptIsSound(nodes', observations[a], a, x) /\ OnlyAdds(nodes, nodes')
  BY <1>2, <1>6, <1>12, AttemptsStay
<1>14. \A k \in ModuleKinds : x.fd[k] # None => Own(nodes', a, x.fd[k])
  BY <1>13 DEF AttemptIsSound
<1>15. (\E U : fd \in [Slots -> U]) /\ \A k \in ModuleKinds : fd[k] # None => Own(nodes', a, fd[k])
  <2>1. PICK U : x.fd \in [Slots -> U]
    BY <1>2 DEF IsAttempt
  <2>2. fd \in [Slots -> U \cup {r.fd}]
    BY <1>7, <2>1
  <2>3. Len(nodes) \in Nat
    BY <1>2, DisksAreSequences
  <2>4. ASSUME NEW k \in ModuleKinds, fd[k] # None PROVE Own(nodes', a, fd[k])
    <3>1. CASE fd[k] = x.fd[k]
      BY <1>14, <2>4, <3>1
    <3>2. CASE fd[k] # x.fd[k]
      <4>1. r.fd # None /\ k = do.key /\ fd[k] = r.fd
        BY <1>7, <2>1, <2>4, <3>2 DEF Slots, ModuleKinds
      <4>2. r.fd = Len(nodes) + 1 /\ Len(nodes') = Len(nodes) + 1 /\ nodes'[Len(nodes) + 1].by = a
        BY <1>6, <1>12, <2>4, <3>2, <4>1
      <4> QED BY <2>3, <4>1, <4>2 DEF Own
    <3> QED BY <3>1, <3>2
  <2> QED BY <2>2, <2>4
<1>16. CASE ~r.ok
  <2>1. PICK z : z = [x EXCEPT !.pc = "look", !.step = 1]
    OBVIOUS
  <2>2. /\ z \in [Fields -> T \cup {"look", 1}] /\ z.pc = "look" /\ z.gate = x.gate /\ z.aborted = x.aborted /\ z.phase = x.phase
        /\ z.startedAt = x.startedAt /\ z.until = x.until /\ z.evidence = x.evidence /\ z.fd = x.fd
    BY <1>9, <2>1 DEF Fields
  <2>3. Like(x, z)
    BY <1>2, <2>2 DEF Like, IsAttempt
  <2>4. \A k \in ModuleKinds : z.fd[k] # None => Own(nodes', a, z.fd[k])
    BY <1>14, <2>2
  <2>5. AttemptIsSound(nodes', observations[a], a, z)
    BY <1>2, <1>13, <2>2, <2>3, <2>4, PhaseGoesOn
  <2>6. attempts' = [attempts EXCEPT ![a] = z]
    BY <1>12, <1>16, <2>1 DEF Set
  <2> QED BY <1>12, <1>13, <2>5, <2>6, AttemptMoves
<1>17. CASE r.ok /\ x.step < Len(Host(x.phase))
  <2>1. PICK z : z = [y EXCEPT !.step = x.step + 1]
    OBVIOUS
  <2>2. /\ z \in [Fields -> T \cup {fd, made, adopted} \cup {x.step + 1}] /\ z.pc = "host" /\ z.step = x.step + 1 /\ z.gate = x.gate
        /\ z.aborted = x.aborted /\ z.phase = x.phase
        /\ z.startedAt = x.startedAt /\ z.until = x.until /\ z.evidence = x.evidence /\ z.fd = fd
    BY <1>2, <1>11, <2>1 DEF Fields
  <2>3. Like(x, z)
    BY <1>2, <1>15, <2>2 DEF Like, IsAttempt
  <2>4. \A k \in ModuleKinds : z.fd[k] # None => Own(nodes', a, z.fd[k])
    BY <1>15, <2>2
  <2>5. z.step \in 1 .. Len(Host(z.phase))
    BY <1>2, <1>4, <1>17, <2>2
  <2>6. AttemptIsSound(nodes', observations[a], a, z)
    BY <1>2, <1>13, <2>2, <2>3, <2>4, <2>5, PhaseGoesOn
  <2>7. attempts' = [attempts EXCEPT ![a] = z]
    <3>1. Set(a, [y EXCEPT !.step = @ + 1])
      BY <1>4, <1>12, <1>17
    <3>2. z = [y EXCEPT !.step = @ + 1]
      BY <1>11, <2>1
    <3> QED BY <3>1, <3>2 DEF Set
  <2> QED BY <1>12, <1>13, <2>6, <2>7, AttemptMoves
<1>18. CASE r.ok /\ x.step = Len(Host(x.phase))
  <2>1. PICK z : z = [y EXCEPT !.pc = "answered"]
    OBVIOUS
  <2>2. /\ z \in [Fields -> T \cup {fd, made, adopted} \cup {"answered"}] /\ z.pc = "answered" /\ z.gate = x.gate
        /\ z.aborted = x.aborted /\ z.phase = x.phase
        /\ z.startedAt = x.startedAt /\ z.until = x.until /\ z.evidence = x.evidence /\ z.fd = fd
    BY <1>11, <2>1 DEF Fields
  <2>3. Like(x, z)
    BY <1>2, <1>15, <2>2 DEF Like, IsAttempt
  <2>4. \A k \in ModuleKinds : z.fd[k] # None => Own(nodes', a, z.fd[k])
    BY <1>15, <2>2
  <2>5. AttemptIsSound(nodes', observations[a], a, z)
    BY <1>2, <1>13, <2>2, <2>3, <2>4, PhaseGoesOn
  <2>6. attempts' = [attempts EXCEPT ![a] = z]
    BY <1>4, <1>12, <1>18, <2>1 DEF Set
  <2> QED BY <1>12, <1>13, <2>5, <2>6, AttemptMoves
<1>19. x.step < Len(Host(x.phase)) \/ x.step = Len(Host(x.phase))
  BY <1>2, <1>4
<1> QED BY <1>6, <1>16, <1>17, <1>18, <1>19

\* A host that failed looks for what it made, and removes it.
LEMMA HostCleansUp ==
    ASSUME ProvisionSafety, NEW a \in Attempts, CleanUp(a)
    PROVE  ProvisionSafety'
<1>1. PICK x : x = attempts[a]
  OBVIOUS
<1>2. /\ AttemptIsSound(nodes, observations[a], a, x) /\ IsAttempt(x) /\ x.pc \in {"look", "remove"}
      /\ x.gate # "rejected" /\ IsDisk(nodes)
  BY <1>1, AttemptIsKnown DEF CleanUp, AttemptIsSound, ProvisionSafety, Hosting
<1>3. PICK do : do = Removals(x.phase)[x.step]
  OBVIOUS
<1>4. PICK next : next = IF x.step = Len(Removals(x.phase)) THEN Failed(x) ELSE [x EXCEPT !.pc = "look", !.step = x.step + 1]
  OBVIOUS
<1>5. PICK T : x \in [Fields -> T]
  BY <1>2 DEF IsAttempt
<1>6. /\ \/ Set(a, next) \/ Set(a, [x EXCEPT !.pc = "remove"])
      /\ \/ UNCHANGED nodes \/ nodes' = Removed(x.fd[do.dir], NameOf(a, do.key), a)
      /\ UNCHANGED <<observations, now>>
  BY <1>1, <1>3, <1>4 DEF CleanUp
<1>7. OnlyAdds(nodes, nodes')
  BY <1>2, <1>6, RemovedKeeps, SameDiskKeeps
<1>8. AttemptIsSound(nodes', observations[a], a, x)
  BY <1>2, <1>7, AttemptsStay
<1>9. ASSUME NEW z, z \in [Fields -> T \cup {"look", "remove", x.step + 1}], z.pc \in {"look", "remove"}, z.gate = x.gate,
             z.aborted = x.aborted, z.phase = x.phase, z.startedAt = x.startedAt, z.until = x.until, z.evidence = x.evidence,
             z.fd = x.fd
      PROVE  AttemptIsSound(nodes', observations[a], a, z)
  <2>1. Like(x, z)
    BY <1>2, <1>9 DEF Like, IsAttempt
  <2>2. \A k \in ModuleKinds : z.fd[k] # None => Own(nodes', a, z.fd[k])
    BY <1>8, <1>9 DEF AttemptIsSound
  <2> QED BY <1>2, <1>8, <1>9, <2>1, <2>2, PhaseGoesOn
<1>10. AttemptIsSound(nodes', observations[a], a, [x EXCEPT !.pc = "remove"])
  <2>1. PICK z : z = [x EXCEPT !.pc = "remove"]
    OBVIOUS
  <2>2. /\ z \in [Fields -> T \cup {"look", "remove", x.step + 1}] /\ z.pc = "remove" /\ z.gate = x.gate
        /\ z.aborted = x.aborted /\ z.phase = x.phase /\ z.startedAt = x.startedAt /\ z.until = x.until
        /\ z.evidence = x.evidence /\ z.fd = x.fd
    BY <1>5, <2>1 DEF Fields
  <2> QED BY <1>9, <2>1, <2>2
<1>11. AttemptIsSound(nodes', observations[a], a, next)
  <2>1. CASE next = Failed(x)
    BY <1>2, <2>1, FailureIsSound
  <2>2. CASE next = [x EXCEPT !.pc = "look", !.step = x.step + 1]
    <3>1. /\ next \in [Fields -> T \cup {"look", "remove", x.step + 1}] /\ next.pc = "look" /\ next.gate = x.gate
          /\ next.aborted = x.aborted /\ next.phase = x.phase /\ next.startedAt = x.startedAt /\ next.until = x.until
          /\ next.evidence = x.evidence /\ next.fd = x.fd
      BY <1>5, <2>2 DEF Fields
    <3> QED BY <1>9, <3>1
  <2> QED BY <1>4, <2>1, <2>2
<1> QED BY <1>6, <1>7, <1>10, <1>11, AttemptMoves DEF Set

\* The controller takes a phase's evidence.
LEMMA ControllerAdvances ==
    ASSUME ProvisionSafety, NEW a \in Attempts, advance(a)
    PROVE  ProvisionSafety'
<1>1. PICK x : x = attempts[a]
  OBVIOUS
<1>2. /\ AttemptIsSound(nodes, observations[a], a, x) /\ IsAttempt(x) /\ x.pc = "answered" /\ x.phase \in PhaseSet
      /\ x.aborted \in BOOLEAN /\ now \in Nat /\ UNCHANGED <<nodes, observations, now>>
  BY <1>1, AttemptIsKnown DEF advance, AttemptIsSound, ProvisionSafety
<1>3. CASE Fail(a, x)
  BY <1>2, <1>3, FailureIsSound, QuietMove DEF Fail
<1>4. PICK e : e = ResultOf(x)
  OBVIOUS
<1>5. PICK k : k = CHOOSE n \in 1 .. 4 : Phases[n] = x.phase
  OBVIOUS
<1>6. k \in 1 .. 4 /\ Phases[k] = x.phase
  <2>1. \E n \in 1 .. 4 : Phases[n] = x.phase
    BY <1>2 DEF Phases, PhaseSet
  <2> QED BY <1>5, <2>1
<1>7. PICK evidence : evidence = [x.evidence EXCEPT ![x.phase] = e]
  OBVIOUS
<1>8. PICK y : y = [x EXCEPT !.evidence = evidence, !.last = now]
  OBVIOUS
<1>9. \/ Fail(a, x)
      \/ /\ ~x.aborted /\ AcceptedEvidence(x.phase, e, x.request)
         /\ \/ k < 4 /\ CallPhase(a, y, Phases[k + 1])
            \/ /\ ~(k < 4) /\ Set(a, [y EXCEPT !.pc = "done"])
               /\ \A n \in 1..4 : assertFreshWindow(y.evidence[Phases[n]].from, y.evidence[Phases[n]].until)
  BY <1>1, <1>4, <1>5, <1>7, <1>8, Zenon DEF advance
<1>10. SUFFICES ASSUME ~x.aborted, AcceptedEvidence(x.phase, e, x.request) PROVE ProvisionSafety'
  BY <1>3, <1>9
<1>11. x.gate = "provisioning" /\ GateIsSound(observations[a], x)
  BY <1>2, <1>10 DEF AttemptIsSound
<1>12. PICK T : x \in [Fields -> T]
  BY <1>2 DEF IsAttempt
<1>13. /\ y \in [Fields -> T \cup {evidence, now}] /\ y.gate = x.gate /\ y.aborted = x.aborted /\ y.phase = x.phase /\ y.fd = x.fd
       /\ y.startedAt = x.startedAt /\ y.until = x.until /\ y.evidence = evidence /\ y.last = now /\ y.pc = x.pc
  BY <1>8, <1>12 DEF Fields
<1>14. /\ \E U : evidence \in [PhaseSet -> U]
       /\ evidence[x.phase] = e /\ \A p \in PhaseSet \ {x.phase} : evidence[p] = x.evidence[p]
  <2>1. PICK U : x.evidence \in [PhaseSet -> U]
    BY <1>2 DEF IsAttempt
  <2>2. evidence \in [PhaseSet -> U \cup {e}]
    BY <1>7, <2>1
  <2> QED BY <1>2, <1>7, <2>1, <2>2
<1>15. IsAttempt(y) /\ GateIsSound(observations[a], y)
  BY <1>2, <1>11, <1>13, <1>14 DEF IsAttempt, GateIsSound
<1>16. x.phase \in ModuleKinds => Own(nodes, a, y.evidence[x.phase].ids[x.phase])
  <2> HAVE x.phase \in ModuleKinds
  <2>1. e = PathResult(x)
    BY <1>4 DEF ResultOf, ModuleKinds
  <2>2. e.ids[x.phase] = x.fd[x.phase]
    BY <2>1 DEF PathResult, Evidence
  <2>3. e.ids[x.phase] # None
    BY <1>10 DEF AcceptedEvidence, pathEvidence, ModuleKinds
  <2> QED BY <1>2, <1>13, <1>14, <2>2, <2>3 DEF AttemptIsSound
<1>17. CASE k < 4 /\ CallPhase(a, y, Phases[k + 1])
  <2>1. Phases[k + 1] \in PhaseSet
    BY <1>6, <1>17 DEF Phases, PhaseSet
  <2>2. Phases[k + 1] = "listener" => x.phase = "client"
    BY <1>6, <1>17 DEF Phases
  <2>3. Phases[k + 1] = "listener" => Own(nodes, a, y.evidence["client"].ids["client"])
    BY <1>16, <2>2 DEF ModuleKinds
  <2>4. PICK p : p = Phases[k + 1]
    OBVIOUS
  <2> QED BY <1>2, <1>11, <1>13, <1>15, <1>17, <2>1, <2>3, <2>4, PhaseIsCalled
<1>18. CASE /\ ~(k < 4) /\ Set(a, [y EXCEPT !.pc = "done"])
            /\ \A n \in 1..4 : assertFreshWindow(y.evidence[Phases[n]].from, y.evidence[Phases[n]].until)
  <2>1. x.phase = "listener"
    BY <1>6, <1>18 DEF Phases
  <2>2. PICK z : z = [y EXCEPT !.pc = "done"]
    OBVIOUS
  <2>3. /\ z \in [Fields -> T \cup {evidence, now} \cup {"done"}] /\ z.pc = "done" /\ z.gate = x.gate /\ z.aborted = x.aborted
        /\ z.phase = x.phase /\ z.fd = x.fd /\ z.startedAt = x.startedAt /\ z.until = x.until /\ z.evidence = y.evidence /\ z.last = now
    BY <1>13, <2>2 DEF Fields
  <2>4. IsAttempt(z) /\ GateIsSound(observations[a], z)
    <3>1. IsAttempt(z)
      BY <1>13, <1>15, <1>2, <2>3 DEF IsAttempt
    <3>2. GateIsSound(observations[a], z)
      BY <1>11, <2>3 DEF GateIsSound
    <3> QED BY <3>1, <3>2
  <2>5. Own(nodes, a, z.evidence["client"].ids["client"])
    BY <1>2, <1>13, <1>14, <2>1, <2>3 DEF AttemptIsSound, PhaseSet
  <2>6. DoneIsSound(nodes, a, z)
    <3>1. \A kind \in ModuleKinds : Own(nodes, a, z.evidence[kind].ids[kind])
      BY <1>16, <2>1, <2>3, <2>5 DEF ModuleKinds
    <3>2. \A n \in 1..4 : z.evidence[Phases[n]].from <= z.last /\ z.last < z.evidence[Phases[n]].until
      BY <1>18, <2>3 DEF assertFreshWindow
    <3> QED BY <3>1, <3>2 DEF DoneIsSound
  <2>7. AttemptIsSound(nodes, observations[a], a, z)
    BY <1>2, <1>10, <1>11, <2>1, <2>3, <2>4, <2>5, <2>6 DEF AttemptIsSound, PhaseSet
  <2> QED BY <1>2, <1>18, <2>2, <2>7, QuietMove
<1> QED BY <1>3, <1>9, <1>17, <1>18

\* The gate returns the bundle.
LEMMA GateCompletes ==
    ASSUME ProvisionSafety, NEW a \in Attempts, complete(a)
    PROVE  ProvisionSafety'
<1>1. PICK x : x = attempts[a]
  OBVIOUS
<1>2. /\ AttemptIsSound(nodes, observations[a], a, x) /\ IsAttempt(x) /\ x.pc = "done" /\ x.gate = "provisioning"
      /\ now \in Nat /\ UNCHANGED <<nodes, observations, now>>
  BY <1>1, AttemptIsKnown DEF complete, ProvisionSafety
<1>3. CASE Reject(a)
  <2>1. PICK y : y = [x EXCEPT !.gate = "rejected", !.aborted = TRUE]
    OBVIOUS
  <2>2. AttemptIsSound(nodes, observations[a], a, y)
    BY <1>2, <2>1, RejectionIsSound DEF Hosting
  <2> QED BY <1>1, <1>2, <1>3, <2>1, <2>2, QuietMove DEF Reject
<1>4. CASE /\ now < x.until /\ now - x.startedAt <= GateTimeout
           /\ Set(a, [x EXCEPT !.gate = "returned", !.completedAt = now])
  <2>1. PICK y : y = [x EXCEPT !.gate = "returned", !.completedAt = now]
    OBVIOUS
  <2>2. PICK T : x \in [Fields -> T]
    BY <1>2 DEF IsAttempt
  <2>3. /\ y \in [Fields -> T \cup {"returned", now}] /\ y.gate = "returned" /\ y.completedAt = now /\ y.pc = x.pc
        /\ y.phase = x.phase /\ y.step = x.step /\ y.fd = x.fd /\ y.evidence = x.evidence /\ y.aborted = x.aborted
        /\ y.startedAt = x.startedAt /\ y.until = x.until /\ y.last = x.last
    BY <2>1, <2>2 DEF Fields
  <2>4. IsAttempt(y)
    BY <1>2, <2>3 DEF IsAttempt
  <2>5. GateIsSound(observations[a], y)
    BY <1>2, <2>3 DEF AttemptIsSound, GateIsSound
  <2>6. DoneIsSound(nodes, a, y)
    BY <1>2, <2>3 DEF AttemptIsSound, DoneIsSound
  <2>7. AttemptIsSound(nodes, observations[a], a, y)
    BY <1>2, <1>4, <2>3, <2>4, <2>5, <2>6 DEF AttemptIsSound
  <2> QED BY <1>2, <1>4, <2>1, <2>7, QuietMove
<1> QED BY <1>1, <1>3, <1>4 DEF complete

LEMMA TimersReject ==
    ASSUME ProvisionSafety, NEW a \in Attempts, timeout(a)
    PROVE  ProvisionSafety'
<1>1. PICK x : x = attempts[a]
  OBVIOUS
<1>2. /\ AttemptIsSound(nodes, observations[a], a, x) /\ x.pc \notin Hosting /\ Reject(a) /\ UNCHANGED <<nodes, observations, now>>
  BY <1>1, AttemptIsKnown DEF timeout, Hosting
<1>3. PICK y : y = [x EXCEPT !.gate = "rejected", !.aborted = TRUE]
  OBVIOUS
<1>4. AttemptIsSound(nodes, observations[a], a, y)
  BY <1>2, <1>3, RejectionIsSound
<1> QED BY <1>1, <1>2, <1>3, <1>4, QuietMove DEF Reject

LEMMA CallersCancel ==
    ASSUME ProvisionSafety, NEW a \in Attempts, cancel(a)
    PROVE  ProvisionSafety'
<1>1. PICK x : x = attempts[a]
  OBVIOUS
<1>2. /\ AttemptIsSound(nodes, observations[a], a, x) /\ IsAttempt(x) /\ x.pc \notin Hosting /\ UNCHANGED <<nodes, observations, now>>
  BY <1>1, AttemptIsKnown DEF cancel, Synchronous, Hosting
<1>3. PICK aborted, gate : aborted = (x.gate # "idle") /\ gate = IF x.gate = "idle" THEN x.gate ELSE "rejected"
  OBVIOUS
<1>4. PICK y : y = [x EXCEPT !.caller = TRUE, !.aborted = aborted, !.gate = gate]
  OBVIOUS
<1>5. Set(a, y)
  BY <1>1, <1>3, <1>4, Zenon DEF cancel
<1>6. PICK T : x \in [Fields -> T]
  BY <1>2 DEF IsAttempt
<1>7. /\ y \in [Fields -> T \cup {TRUE, aborted, gate}] /\ y.gate = gate /\ y.aborted = aborted /\ y.pc = x.pc /\ y.phase = x.phase
      /\ y.fd = x.fd /\ y.evidence = x.evidence /\ y.last = x.last
  BY <1>4, <1>6 DEF Fields
<1>8. IsAttempt(y)
  BY <1>2, <1>7 DEF IsAttempt
<1>9. aborted \in {TRUE, FALSE} /\ ((gate = "idle" /\ x.gate = "idle") \/ (gate = "rejected" /\ aborted = TRUE))
  <2>1. CASE x.gate = "idle"
    <3>1. aborted = FALSE
      BY <1>3, <2>1
    <3>2. gate = "idle"
      BY <1>3, <2>1
    <3> QED BY <2>1, <3>1, <3>2, Zenon
  <2>2. CASE x.gate # "idle"
    BY <1>3, <2>2, Zenon
  <2> QED BY <2>1, <2>2
<1>10. y.pc = "done" => DoneIsSound(nodes, a, y)
  BY <1>2, <1>7 DEF AttemptIsSound, DoneIsSound
<1>11. AttemptIsSound(nodes, observations[a], a, y)
  <2>1. y.aborted \in BOOLEAN /\ y.gate \in {"idle", "rejected"}
    BY <1>7, <1>9
  <2>2. (y.gate \in {"idle", "attesting"} => y.pc = "idle") /\ (y.gate = "rejected" => y.aborted /\ y.pc \notin Hosting)
    BY <1>2, <1>7, <1>9 DEF AttemptIsSound
  <2> QED BY <1>2, <1>7, <1>8, <1>10, <2>1, <2>2 DEF AttemptIsSound, Hosting
<1> QED BY <1>2, <1>5, <1>11, QuietMove

\* An observer looks, once and then again: the gate waits for both.
LEMMA ObservationIsMade ==
    ASSUME ProvisionSafety, NEW a \in Attempts, NEW role \in Roles, NEW o,
           observations' = [observations EXCEPT ![a][role] = o],
           observations[a][role] = None \/ observations[a][role].state = "opened",
           o.state = "visible" => o.until \in Nat, UNCHANGED <<nodes, attempts, now>>
    PROVE  ProvisionSafety'
<1>1. PICK T : observations \in [Attempts -> [Roles -> T]]
  BY DEF ProvisionSafety, ObservationsAreSound
<1>2. /\ observations' \in [Attempts -> [Roles -> T \cup {o}]]
      /\ observations'[a] = [observations[a] EXCEPT ![role] = o] /\ \A b \in Attempts \ {a} : observations'[b] = observations[b]
  BY <1>1
<1>3. observations'[a][role] = o /\ \A r \in Roles \ {role} : observations'[a][r] = observations[a][r]
  BY <1>1, <1>2
<1>4. ObservationsAreSound'
  <2>1. ASSUME NEW b \in Attempts, NEW r \in Roles, observations'[b][r] # None, observations'[b][r].state = "visible"
        PROVE  observations'[b][r].until \in Nat
    <3>1. CASE b = a /\ r = role
      BY <1>3, <2>1, <3>1
    <3>2. CASE ~(b = a /\ r = role)
      <4>1. observations'[b][r] = observations[b][r]
        BY <1>2, <1>3, <3>2
      <4> QED BY <2>1, <4>1 DEF ProvisionSafety, ObservationsAreSound
    <3> QED BY <3>1, <3>2
  <2> QED BY <1>2, <2>1 DEF ObservationsAreSound
<1>5. ASSUME NEW b \in Attempts PROVE AttemptIsSound(nodes, observations'[b], b, attempts[b])
  <2>1. AttemptIsSound(nodes, observations[b], b, attempts[b])
    BY DEF ProvisionSafety
  <2>2. CASE b = a
    <3>1. attempts[b].gate \notin {"provisioning", "returned"}
      BY <2>1, <2>2 DEF AttemptIsSound, GateIsSound
    <3> QED BY <2>1, <3>1 DEF AttemptIsSound
  <2>3. CASE b # a
    BY <1>2, <2>1, <2>3
  <2> QED BY <2>2, <2>3
<1>6. \A b \in Attempts : AttemptIsSound(nodes', observations'[b], b, attempts'[b])
  BY <1>5
<1> QED BY <1>4, <1>6 DEF ProvisionSafety

LEMMA ObserversLook ==
    ASSUME LifetimesAssumption, ProvisionSafety, NEW a \in Attempts, NEW role \in Roles, observe(a, role) \/ observed(a, role)
    PROVE  ProvisionSafety'
<1>1. Unseen.state = "failed" /\ now \in Nat /\ ObservationLife \in Nat
  BY DEF Unseen, ProvisionSafety, LifetimesAssumption
<1>2. CASE observe(a, role)
  <2>1. PICK s, t, seen : observations' = [observations EXCEPT ![a][role] =
            IF seen THEN [Unseen EXCEPT !.state = "opened", !.parent = s, !.module = t] ELSE Unseen]
    BY <1>2 DEF observe
  <2>2. PICK o : o = IF seen THEN [Unseen EXCEPT !.state = "opened", !.parent = s, !.module = t] ELSE Unseen
    OBVIOUS
  <2>3. o.state # "visible"
    BY <2>2 DEF Unseen
  <2>4. observations' = [observations EXCEPT ![a][role] = o]
    BY <2>1, <2>2, Zenon
  <2>5. /\ observations[a][role] = None \/ observations[a][role].state = "opened"
        /\ UNCHANGED <<nodes, attempts, now>>
    BY <1>2 DEF observe
  <2> QED BY <2>3, <2>4, <2>5, ObservationIsMade
<1>3. CASE observed(a, role)
  <2>1. PICK same : observations' = [observations EXCEPT ![a][role] =
            IF same THEN [Unseen EXCEPT !.state = "visible", !.at = now, !.until = now + ObservationLife] ELSE Unseen]
    BY <1>3 DEF observed
  <2>2. PICK o : o = IF same THEN [Unseen EXCEPT !.state = "visible", !.at = now, !.until = now + ObservationLife] ELSE Unseen
    OBVIOUS
  <2>3. o.state = "visible" => o.until \in Nat
    BY <1>1, <2>2 DEF Unseen
  <2>4. observations' = [observations EXCEPT ![a][role] = o]
    BY <2>1, <2>2, Zenon
  <2>5. /\ observations[a][role] = None \/ observations[a][role].state = "opened"
        /\ UNCHANGED <<nodes, attempts, now>>
    BY <1>3 DEF observed
  <2> QED BY <2>3, <2>4, <2>5, ObservationIsMade
<1> QED BY <1>2, <1>3

\* An operator moves, replaces or rewrites what lies there.
LEMMA OperatorInterferes ==
    ASSUME ProvisionSafety, NEW d, NEW name, Rewrite(d, name) \/ MoveOrReplace(d, name)
    PROVE  ProvisionSafety'
<1>1. IsDisk(nodes) /\ UNCHANGED <<attempts, observations, now>>
  BY DEF ProvisionSafety, Rewrite, MoveOrReplace
<1>2. OnlyAdds(nodes, nodes')
  <2>1. CASE Rewrite(d, name)
    <3>1. PICK i : i = nodes[d].entries[name]
      OBVIOUS
    <3>2. nodes' = [nodes EXCEPT ![i].bytes = "other bytes", ![i].stamp = @ + 1]
      BY <2>1, <3>1 DEF Rewrite
    <3> QED BY <1>1, <3>2, WrittenKeeps
  <2>2. CASE MoveOrReplace(d, name)
    <3>1. \/ nodes' = [nodes EXCEPT ![d].entries[name] = None, ![d].stamp = @ + 1]
          \/ nodes' = Added(d, name, Directory(None))
      BY <2>2 DEF MoveOrReplace
    <3>2. OnlyAdds(nodes, [nodes EXCEPT ![d].entries[name] = None, ![d].stamp = @ + 1])
      BY <1>1, EntryIsRemoved
    <3>3. OnlyAdds(nodes, Added(d, name, Directory(None)))
      BY <1>1, AddedKeeps, NewNodes
    <3> QED BY <3>1, <3>2, <3>3
  <2> QED BY <2>1, <2>2
<1>3. \A a \in Attempts : AttemptIsSound(nodes', observations'[a], a, attempts'[a])
  <2>1. \A a \in Attempts : AttemptIsSound(nodes', observations[a], a, attempts[a])
    BY <1>1, <1>2, AttemptsStay DEF ProvisionSafety
  <2> QED BY <1>1, <2>1
<1>4. ObservationsAreSound'
  BY <1>1 DEF ProvisionSafety, ObservationsAreSound
<1> QED BY <1>1, <1>2, <1>3, <1>4 DEF ProvisionSafety, OnlyAdds

LEMMA ClockMoves ==
    ASSUME ProvisionSafety, now' \in Nat, UNCHANGED <<nodes, attempts, observations>>
    PROVE  ProvisionSafety'
BY DEF ProvisionSafety, ObservationsAreSound

LEMMA ProvisioningStarts == ProvisionInit => ProvisionSafety
<1> SUFFICES ASSUME ProvisionInit PROVE ProvisionSafety
  OBVIOUS
<1>1. now \in Nat
  BY DEF ProvisionInit
<1>2. IsDisk(nodes)
  <2>1. PICK entries : nodes = <<[Directory(None) EXCEPT !.entries = entries], Directory(None), File(None, "client bytes"),
                                 File(None, "listener bytes")>>
    BY DEF ProvisionInit
  <2>2. PICK p, q, r, s : /\ p = [Directory(None) EXCEPT !.entries = entries] /\ q = Directory(None)
                          /\ r = File(None, "client bytes") /\ s = File(None, "listener bytes")
    OBVIOUS
  <2>3. IsNode(p) /\ IsNode(q) /\ IsNode(r) /\ IsNode(s)
    BY <2>2, NewNodes, NodeFields
  <2>4. nodes = <<p, q, r, s>>
    BY <2>1, <2>2
  <2>5. nodes \in Seq({p, q, r, s}) /\ DOMAIN nodes = 1 .. 4
    BY <2>4
  <2>6. \A i \in DOMAIN nodes : nodes[i] \in {p, q, r, s}
    BY <2>4, <2>5
  <2> QED BY <2>3, <2>5, <2>6 DEF IsDisk
<1>3. ObservationsAreSound
  <2>1. observations \in [Attempts -> [Roles -> {None}]]
    BY DEF ProvisionInit
  <2> QED BY <2>1 DEF ObservationsAreSound
<1>4. PICK x : x = NewAttempt
  OBVIOUS
<1>5. attempts \in [Attempts -> {x}]
  BY <1>4 DEF ProvisionInit
<1>6. /\ x.gate = "idle" /\ x.pc = "idle" /\ x.aborted = FALSE /\ x.fd = [k \in Slots |-> None]
      /\ x.evidence = [p \in PhaseSet |-> None]
  BY <1>4 DEF NewAttempt, PhaseSet
<1>7. \E T : x \in [Fields -> T]
  <2>1. PICK fd, evidence : fd = [k \in Slots |-> None] /\ evidence = [p \in PhaseSet |-> None]
    OBVIOUS
  <2>2. PICK T : T = {"idle", None, 0, fd, {}, evidence, FALSE}
    OBVIOUS
  <2>3. x = [gate |-> "idle", pc |-> "idle", phase |-> None, step |-> 0, fd |-> fd, made |-> {},
             request |-> None, grant |-> None, evidence |-> evidence,
             adopted |-> {}, caller |-> FALSE, aborted |-> FALSE, startedAt |-> None, gateLast |-> 0, last |-> 0,
             until |-> None, completedAt |-> None]
    BY <1>4, <2>1 DEF NewAttempt, PhaseSet
  <2>4. x \in [Fields -> T]
    <3>1. DOMAIN x = Fields
      BY <2>3 DEF Fields
    <3>2. x = [f \in DOMAIN x |-> x[f]]
      BY <2>3
    <3>3. /\ x.gate \in T /\ x.pc \in T /\ x.phase \in T /\ x.step \in T /\ x.fd \in T /\ x.made \in T /\ x.request \in T
          /\ x.grant \in T /\ x.evidence \in T /\ x.adopted \in T /\ x.caller \in T /\ x.aborted \in T /\ x.startedAt \in T
          /\ x.gateLast \in T /\ x.last \in T /\ x.until \in T /\ x.completedAt \in T
      BY <2>2, <2>3
    <3>4. \A f \in Fields : x[f] \in T
      BY <3>3 DEF Fields
    <3> QED BY <3>1, <3>2, <3>4
  <2> QED BY <2>4
<1>8. IsAttempt(x)
  <2>1. x.fd \in [Slots -> {None}] /\ x.evidence \in [PhaseSet -> {None}]
    BY <1>6
  <2> QED BY <1>7, <2>1 DEF IsAttempt
<1>9. \A k \in ModuleKinds : x.fd[k] = None
  BY <1>6 DEF ModuleKinds, Slots
<1>10. ASSUME NEW a \in Attempts PROVE AttemptIsSound(nodes, observations[a], a, x)
  BY <1>6, <1>8, <1>9 DEF AttemptIsSound
<1>11. \A a \in Attempts : AttemptIsSound(nodes, observations[a], a, attempts[a])
  BY <1>5, <1>10
<1> QED BY <1>1, <1>2, <1>3, <1>5, <1>11 DEF ProvisionSafety

LEMMA ProvisioningGoesOn ==
    ASSUME LifetimesAssumption, ProvisionSafety, [ProvisionNext]_provisionVars
    PROVE  ProvisionSafety'
<1>1. ASSUME NEW a \in Attempts,
             \/ begin(a) \/ attest(a) \/ runHost(a) \/ CleanUp(a)
             \/ authorizeRuntimeRoot(a) \/ authorizeParentDirectories(a) \/ authorizePath(a)
             \/ provisionRuntimeRoot(a) \/ provisionParentDirectories(a) \/ provisionPath(a)
             \/ advance(a) \/ complete(a) \/ timeout(a) \/ cancel(a)
             \/ \E r \in Roles : observe(a, r) \/ observed(a, r)
      PROVE  ProvisionSafety'
  <2>1. CASE begin(a)
    BY <2>1, AttemptBegins
  <2>2. CASE attest(a)
    BY <2>2, AttestationHolds
  <2>3. CASE runHost(a)
    BY <2>3, HostGoesOn
  <2>4. CASE CleanUp(a)
    BY <2>4, HostCleansUp
  <2>5. CASE authorizeRuntimeRoot(a) \/ authorizeParentDirectories(a) \/ authorizePath(a)
    BY <2>5, AuthorityAnswers DEF authorizeRuntimeRoot, authorizeParentDirectories, authorizePath
  <2>6. CASE provisionRuntimeRoot(a) \/ provisionParentDirectories(a) \/ provisionPath(a)
    BY <2>6, ProvisionerResumes DEF provisionRuntimeRoot, provisionParentDirectories, provisionPath
  <2>7. CASE advance(a)
    BY <2>7, ControllerAdvances
  <2>8. CASE complete(a)
    BY <2>8, GateCompletes
  <2>9. CASE timeout(a)
    BY <2>9, TimersReject
  <2>10. CASE cancel(a)
    BY <2>10, CallersCancel
  <2>11. CASE \E r \in Roles : observe(a, r) \/ observed(a, r)
    BY <2>11, ObserversLook
  <2> QED BY <1>1, <2>1, <2>2, <2>3, <2>4, <2>5, <2>6, <2>7, <2>8, <2>9, <2>10, <2>11
<1>2. CASE Tick
  BY <1>2, ClockMoves DEF Tick, ProvisionSafety
<1>3. CASE SetClockBack
  BY <1>3, ClockMoves DEF SetClockBack, ProvisionSafety
<1>4. CASE \E d \in 1..Len(nodes), n \in Movable : Rewrite(d, n) \/ MoveOrReplace(d, n)
  BY <1>4, OperatorInterferes
<1>5. CASE UNCHANGED provisionVars
  <2>1. now' \in Nat /\ UNCHANGED <<nodes, attempts, observations>>
    BY <1>5 DEF provisionVars, ProvisionSafety
  <2> QED BY <2>1, ClockMoves
<1> QED BY <1>1, <1>2, <1>3, <1>4, <1>5 DEF ProvisionNext

\* Every attempt to provision keeps to the shape the bundle's promises rest on: a
\* module's descriptor is of a file the attempt created itself, an attempt that
\* was rejected is aborted and runs no host, the gate never outlives either
\* observation, and the controller finishes only under four fresh grants, whatever
\* other attempts, the operator and the clock do meanwhile (provision of the
\* topology gate and of the controller, and the hosts they run).
THEOREM ProvisionIsSound ==
    ASSUME LifetimesAssumption
    PROVE  ProvisionSpec => []ProvisionSafety
<1>1. ProvisionSafety /\ [ProvisionNext]_provisionVars => ProvisionSafety'
  BY ProvisioningGoesOn
<1> QED BY <1>1, ProvisioningStarts, PTL DEF ProvisionSpec

\* A bundle the gate returns vouches for two modules its own attempt created, four
\* grants that were fresh together when the controller finished, and two
\* observations that were both fresh when the gate returned within its time, for
\* every number of attempts and of interferences by the operator.
THEOREM BundlesStaySound ==
    ASSUME LifetimesAssumption
    PROVE  ProvisionSpec => []BundlesAreSound
<1>1. ProvisionSafety => BundlesAreSound
  <2> SUFFICES ASSUME ProvisionSafety, NEW a \in Attempts, attempts[a].gate = "returned"
               PROVE  LET x == attempts[a]
                      IN /\ \A k \in {"client", "listener"} : nodes[x.evidence[k].ids[k]].by = a
                         /\ \A n \in 1..4 : x.evidence[Phases[n]].from <= x.last /\ x.last < x.evidence[Phases[n]].until
                         /\ \A r \in Roles : x.completedAt < observations[a][r].until
                         /\ x.completedAt - x.startedAt <= GateTimeout
    BY DEF BundlesAreSound
  <2>1. PICK x : x = attempts[a]
    OBVIOUS
  <2>2. AttemptIsSound(nodes, observations[a], a, x) /\ x.gate = "returned"
    BY <2>1 DEF ProvisionSafety
  <2>3. DoneIsSound(nodes, a, x) /\ GateIsSound(observations[a], x)
    BY <2>2 DEF AttemptIsSound
  <2>4. \A k \in {"client", "listener"} : nodes[x.evidence[k].ids[k]].by = a
    BY <2>3 DEF DoneIsSound, Own, ModuleKinds
  <2>5. \A n \in 1..4 : x.evidence[Phases[n]].from <= x.last /\ x.last < x.evidence[Phases[n]].until
    BY <2>3 DEF DoneIsSound
  <2>6. \A r \in Roles : x.completedAt < observations[a][r].until
    BY <2>2, <2>3 DEF AttemptIsSound, GateIsSound
  <2>7. x.completedAt - x.startedAt <= GateTimeout
    BY <2>2 DEF AttemptIsSound
  <2> QED BY <2>1, <2>4, <2>5, <2>6, <2>7
<1> QED BY <1>1, ProvisionIsSound, PTL

\* Nothing that still runs for an attempt its gate has rejected, by a timer, its
\* caller's signal or a denial, changes the disk: an answer that arrives late finds
\* the attempt aborted, and no host runs when a timer fires.
THEOREM RejectionsStopAttempts ==
    ASSUME LifetimesAssumption
    PROVE  ProvisionSpec => [][RejectedAttemptsStop]_provisionVars
<1>1. ProvisionSafety /\ [ProvisionNext]_provisionVars => [RejectedAttemptsStop]_provisionVars
  <2> SUFFICES ASSUME ProvisionSafety, ProvisionNext, NEW a \in Attempts, attempts[a].gate = "rejected", attempts'[a] # attempts[a]
               PROVE  nodes' = nodes
    BY DEF RejectedAttemptsStop
  <2>1. attempts[a].pc \notin Hosting
    BY DEF ProvisionSafety, AttemptIsSound
  <2>2. ASSUME NEW b \in Attempts, runHost(b) \/ CleanUp(b) PROVE FALSE
    <3>1. attempts[b].pc \in Hosting
      BY <2>2 DEF runHost, CleanUp, Hosting
    <3>2. \E x : attempts' = [attempts EXCEPT ![b] = x]
      BY <2>2 DEF runHost, CleanUp, Set
    <3>3. PICK T : attempts \in [Attempts -> T]
      BY DEF ProvisionSafety
    <3>4. attempts'[a] = attempts[a]
      BY <2>1, <3>1, <3>2, <3>3
    <3> QED BY <3>4
  <2>3. ASSUME NEW b \in Attempts,
               \/ begin(b) \/ attest(b) \/ Authorized(b) \/ Resume(b)
               \/ advance(b) \/ complete(b) \/ timeout(b) \/ cancel(b)
               \/ \E r \in Roles : observe(b, r) \/ observed(b, r)
        PROVE  nodes' = nodes
    BY <2>3 DEF begin, attest, Authorized, Resume, advance, complete, timeout, cancel, observe, observed
  <2>4. ASSUME NEW d, NEW n, Rewrite(d, n) \/ MoveOrReplace(d, n) PROVE FALSE
    BY <2>4 DEF Rewrite, MoveOrReplace
  <2>5. ~Tick /\ ~SetClockBack
    BY DEF Tick, SetClockBack
  <2> QED BY <2>2, <2>3, <2>4, <2>5 DEF ProvisionNext, authorizeRuntimeRoot, authorizeParentDirectories, authorizePath,
             provisionRuntimeRoot, provisionParentDirectories, provisionPath
<1> QED BY <1>1, ProvisionIsSound, PTL DEF ProvisionSpec
=============================================================================
