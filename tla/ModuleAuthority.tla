--------------------------- MODULE ModuleAuthority ---------------------------
(***************************************************************************)
(* Who may load a retained native module: the registry of public roots     *)
(* (retained-native-module-authorization-root-registry.ts), the one-shot   *)
(* issuance of signed authorization snapshots                              *)
(* (...-issuance-composition.ts, ...-module-authorization-controller.ts,   *)
(* ...-keyless-signer.ts, ...-audited-publisher.ts), their storage with    *)
(* the evidence of the approval and the checkpoint against rollback        *)
(* (...-trust-state.ts, ...-trust-source.ts), the composition that reads   *)
(* them (...-trust-composition.ts) and the loader that maps the module     *)
(* into the process (...-linux-module-loader.ts).                          *)
(*                                                                         *)
(* A signed snapshot is identified by its payload, as its hash is; a root  *)
(* by its signer.  Between two awaits a step is atomic; the clock is read  *)
(* at every step.  The files of the host change at any time, also between  *)
(* two synchronous calls of the loader: another file takes the path, or    *)
(* the bytes of a file are written in place.  A file is its inode with     *)
(* owner and mode; an image is the bytes of a file, known by their digest, *)
(* with their size.  What else fstat shows is like the size: a change that *)
(* stays is seen.  A malformed record is a call that is refused as a whole.*)
(***************************************************************************)
EXTENDS Clock, Naturals, Sequences, FiniteSets, SequencesExt

CONSTANTS
    RootSigners,       \* signerKeyId, and so rootRecordId, of the roots
    Callers,    \* [level, kind] of the callers of the control plane
    Issuers,       \* concurrent issuance compositions
    SnapshotIds,   \* snapshotId
    Loaders,       \* one-attempt loaders
    Kinds,         \* CLIENT, LISTENER
    Grants,        \* the authorizations a request may carry: functions from Kinds
    Files,         \* moduleIdentityReference with owner and mode
    Images,        \* the bytes of a file: records with a size, equal when moduleSha256 is
    Unusable,      \* the images whose exports are not those of a module
    RootEnd, SnapshotLife, GrantLife, ApprovalLife, MaxSnapshotLife,
    MaxRoots, MaxDescriptors,
    MaxVersions, MaxRootVersions, MaxRestarts, MaxWrites, \* bounds
    AnyPlace       \* whether callers also ask for places in the chain that are not the next

LifetimeAssumption ==
    /\ {RootEnd, SnapshotLife, GrantLife, ApprovalLife, MaxSnapshotLife, MaxRoots, MaxDescriptors} \subseteq Nat \ {0}
    /\ GrantLife <= SnapshotLife /\ SnapshotLife <= MaxSnapshotLife

VARIABLES
    registry,   \* acp_retained_native_module_authorization_roots, per signer
    published,  \* ..._snapshots joined with ..._issuance_evidence, in order
    checkpoint, \* ..._checkpoints
    issuers,    \* where each issuance is
    loaders,    \* where each load is
    disk,       \* the file at canonicalModulePath, per kind
    bytes,      \* per file its image, and how often it was written in place
    retained,   \* retainedLoadedModules
    mapped,     \* what dlopen mapped, one per descriptor of retainedDlopenDescriptors
    restarts

moduleVars == <<now, registry, published, checkpoint, issuers, loaders, disk, bytes, retained, mapped, restarts>>
store == <<registry, published, checkpoint>>
host == <<disk, bytes, retained, mapped, restarts>>

Idle == [pc |-> "idle"]

ModuleInit ==
    /\ now = 0 /\ registry = [r \in RootSigners |-> <<>>] /\ published = <<>> /\ checkpoint = None
    /\ issuers = [i \in Issuers |-> Idle] /\ loaders = [l \in Loaders |-> Idle]
    /\ disk \in [Kinds -> Files] /\ bytes \in [Files -> [image : Images, writes : {0}]]
    /\ retained = [k \in Kinds |-> None] /\ mapped = <<>> /\ restarts = 0

ModuleTick == now < Horizon /\ now' = now + 1 /\ UNCHANGED <<store, issuers, loaders, host>>

--------------------------------------------------------------------------
(* The registry of public roots. *)

parseRootRecord(root) ==
    /\ root.version >= 1 /\ root.minimum >= 1
    /\ root.revokedAt # None => root.revokedAt <= RootEnd

LiveRoot(root) == now < RootEnd /\ (root.revokedAt # None => now < root.revokedAt)

\* read: the current version of every root, without those that have ended.
CurrentRoots == {Last(registry[r]) : r \in {s \in RootSigners : registry[s] # <<>>}}
ActiveRoots == {root \in CurrentRoots : LiveRoot(root)}

\* The trigger of the table: versions grow by one, a revocation is final.
RootGuard(root) ==
    LET rows == registry[root.signer]
    IN  IF rows = <<>> THEN root.version = 1 /\ (Cardinality(ActiveRoots) < MaxRoots \/ ~LiveRoot(root))
        ELSE /\ root.version = Last(rows).version + 1
             /\ root.minimum >= Last(rows).minimum
             /\ Last(rows).revokedAt # None => root.revokedAt = Last(rows).revokedAt

LevelThree(p) == p.level = 3 /\ p.kind # "RUNTIME"

\* An identical call again is answered REPLAYED and writes nothing.
provision(p, root) ==
    /\ LevelThree(p) /\ parseRootRecord(root) /\ RootGuard(root)
    /\ registry' = [registry EXCEPT ![root.signer] = Append(@, root)]
    /\ UNCHANGED <<now, published, checkpoint, issuers, loaders, host>>

--------------------------------------------------------------------------
(* Authentication of a snapshot against a set of roots. *)

parseSnapshot(s) ==
    /\ s.version >= 1 /\ DOMAIN s.grants = Kinds
    /\ s.issuedAt < s.until /\ s.until - s.issuedAt <= MaxSnapshotLife

GrantUntil(s) == s.issuedAt + GrantLife

authenticate(s, signature, roots) ==
    /\ parseSnapshot(s) /\ signature = "genuine"
    /\ s.issuedAt <= now /\ now < s.until /\ s.until <= RootEnd
    /\ \E root \in roots :
         /\ root.signer = s.signer /\ root.minimum <= s.version
         /\ LiveRoot(root) /\ (root.revokedAt # None => s.until <= root.revokedAt)

--------------------------------------------------------------------------
(* Issuance. *)

IssuerAt(i, pc) == issuers[i].pc = pc

MoveIssuer(i, pc) ==
    /\ issuers' = [issuers EXCEPT ![i] = IF pc = "idle" THEN Idle ELSE [@ EXCEPT !.pc = pc]]
    /\ UNCHANGED <<now, store, loaders, host>>

\* Every error of the composition is one denial.
Refused(i) == MoveIssuer(i, "idle")

\* Paths and identities of an entry belong together: each entry names one file.
paths(entry) == entry.module \in [file : Files, image : Images]

issueRequest(s) ==
    /\ s.version >= 1 /\ s.issuedAt < s.until
    /\ \A k \in Kinds : s.grants[k] # None => s.grants[k].version >= 1 /\ paths(s.grants[k])

\* PostgresRetainedNativeModuleAuthorizationIssuanceComposition.issue up to the roots.
\* The caller chooses the place in the chain.
issue(i, p, id, place, signer, grants) ==
    LET s == [id |-> id, version |-> place.version, prev |-> place.prev, signer |-> signer, issuedAt |-> now,
              until |-> now + SnapshotLife, grants |-> grants]
    IN  /\ IssuerAt(i, "idle")
        /\ LevelThree(p) /\ issueRequest(s)
        /\ issuers' = [issuers EXCEPT ![i] = [pc |-> "roots", request |-> s, roots |-> {}, principal |-> p,
                                              approval |-> None, signature |-> None]]
        /\ UNCHANGED <<now, store, loaders, host>>

readRoots(i) ==
    /\ IssuerAt(i, "roots")
    /\ IF \E root \in ActiveRoots : root.signer = issuers[i].request.signer
       THEN /\ issuers' = [issuers EXCEPT ![i].pc = "authorize", ![i].roots = ActiveRoots]
            /\ UNCHANGED <<now, store, loaders, host>>
       ELSE Refused(i)

\* The windows the controller asks for, at each of its readings of the clock.
RequestIsOpen(s) ==
    /\ s.issuedAt <= now /\ now < s.until /\ s.until - s.issuedAt <= MaxSnapshotLife
    /\ \A k \in Kinds : s.grants[k] # None => now < GrantUntil(s) /\ GrantUntil(s) <= s.until

\* The approval is minted for this request, for ApprovalLife.
authorize(i) ==
    /\ IssuerAt(i, "authorize")
    /\ IF RequestIsOpen(issuers[i].request)
       THEN /\ issuers' = [issuers EXCEPT ![i].pc = "approved",
                    ![i].approval = [from |-> now, until |-> now + ApprovalLife, by |-> issuers[i].principal]]
            /\ UNCHANGED <<now, store, loaders, host>>
       ELSE Refused(i)

\* grant: the approval is the one of this request, of level three.
grant(i) == LevelThree(issuers[i].approval.by)

ApprovalIsOpen(i) == issuers[i].approval.from <= now /\ now < issuers[i].approval.until

\* afterApproval, and the request that is sent to the signing channel.
controllerSign(i) ==
    /\ IssuerAt(i, "approved")
    /\ IF grant(i) /\ ApprovalIsOpen(i) /\ RequestIsOpen(issuers[i].request)
       THEN MoveIssuer(i, "signing") ELSE Refused(i)

\* What passes as the answer to this request: the signature of the key, or
\* other bytes of the right shape for the same payload hash.
signingResponse(answer, s) == answer.for = s /\ answer.signature # None

\* The signing channel is used once; no answer before the timeout, and a close
\* that fails, are no answer.
sign(i, answer) ==
    /\ IssuerAt(i, "signing")
    /\ IF ~signingResponse(answer, issuers[i].request) THEN Refused(i)
       ELSE /\ issuers' = [issuers EXCEPT ![i].pc = "signed", ![i].signature = answer.signature]
            /\ UNCHANGED <<now, store, loaders, host>>

beforePublish(i) == now < issuers[i].request.until /\ ApprovalIsOpen(i)

\* The controller's last look at the clock, and the audited publisher up to the store.
publish(i) ==
    /\ IssuerAt(i, "signed")
    /\ IF beforePublish(i) /\ authenticate(issuers[i].request, issuers[i].signature, issuers[i].roots)
       THEN MoveIssuer(i, "append") ELSE Refused(i)

\* The triggers of the snapshots and of the evidence: the chain, the approval's window
\* and the current root of the signer.
AppendGuard(s, approval) ==
    /\ IF published = <<>> THEN s.version = 1 /\ s.prev = None
       ELSE s.version = Last(published).snapshot.version + 1 /\ s.prev = Last(published).snapshot
    /\ \A j \in DOMAIN published : published[j].snapshot.id # s.id
    /\ approval.from <= now /\ now < approval.until
    /\ \E root \in ActiveRoots : root.signer = s.signer /\ root.minimum <= s.version

\* One statement: a new row, the row of an identical publication, or a denial.
append(i) ==
    LET row == [snapshot |-> issuers[i].request, evidence |-> issuers[i].approval]
    IN  /\ IssuerAt(i, "append")
        /\ published' = IF AppendGuard(row.snapshot, row.evidence) THEN Append(published, row) ELSE published
        /\ issuers' = [issuers EXCEPT ![i] = Idle]
        /\ UNCHANGED <<now, registry, checkpoint, loaders, host>>

abortIssue(i) == issuers[i].pc \in {"roots", "approved", "signed"} /\ Refused(i)

--------------------------------------------------------------------------
(* Reading an authorization. *)

LoaderAt(l, pc) == loaders[l].pc = pc

SetLoader(l, f) == loaders' = [loaders EXCEPT ![l] = f] /\ UNCHANGED <<now, registry, published, issuers>>

MoveLoader(l, pc) == SetLoader(l, [loaders[l] EXCEPT !.pc = pc]) /\ UNCHANGED <<checkpoint, host>>
DenyLoad(l) == SetLoader(l, [pc |-> "denied"]) /\ UNCHANGED <<checkpoint, host>>

\* load, and the first half of the composition's read.
load(l, kind) ==
    /\ LoaderAt(l, "idle")
    /\ SetLoader(l, [pc |-> "roots", kind |-> kind, roots |-> {}, snapshot |-> None, seen |-> None, attempt |-> 1,
                     view |-> None, file |-> None, read |-> None, loaded |-> None])
    /\ UNCHANGED <<checkpoint, host>>

readRootsBefore(l) ==
    /\ LoaderAt(l, "roots")
    /\ IF ActiveRoots # {} /\ Cardinality(ActiveRoots) <= MaxRoots
       THEN SetLoader(l, [loaders[l] EXCEPT !.pc = "snapshot", !.roots = ActiveRoots]) /\ UNCHANGED <<checkpoint, host>>
       ELSE DenyLoad(l)

\* Only the latest audited row is read; an older one is never a fallback.
readSnapshot(l) ==
    /\ LoaderAt(l, "snapshot")
    /\ IF published # <<>> /\ authenticate(Last(published).snapshot, "genuine", loaders[l].roots)
       THEN SetLoader(l, [loaders[l] EXCEPT !.pc = "checkpoint", !.snapshot = Last(published).snapshot])
            /\ UNCHANGED <<checkpoint, host>>
       ELSE DenyLoad(l)

nextCheckpoint(s) == [snapshot |-> s, grants |-> s.grants]
sameCheckpoint(c, s) == c = nextCheckpoint(s)

\* A grant that keeps its id keeps or raises its version, and keeps its content with it.
GrantsAdvance(old, new) ==
    \A k \in Kinds :
      (old[k] # None /\ new[k] # None /\ old[k].id = new[k].id)
        => \/ old[k].version < new[k].version
           \/ old[k] = new[k]

\* The checkpoint the caller has seen allows this snapshot next.
Successor(seen, s) ==
    IF seen = None THEN s.prev = None
    ELSE /\ s.version = seen.snapshot.version + 1 /\ s.prev = seen.snapshot
         /\ GrantsAdvance(seen.grants, s.grants)

\* #advanceCheckpoint: the head of an attempt.
readCheckpoint(l) ==
    LET s == loaders[l].snapshot
    IN  /\ LoaderAt(l, "checkpoint")
        /\ \/ /\ sameCheckpoint(checkpoint, s)
              /\ MoveLoader(l, "finish")
           \/ /\ ~sameCheckpoint(checkpoint, s) /\ Successor(checkpoint, s)
              /\ SetLoader(l, [loaders[l] EXCEPT !.pc = "swap", !.seen = checkpoint]) /\ UNCHANGED <<checkpoint, host>>
           \/ /\ ~sameCheckpoint(checkpoint, s) /\ ~Successor(checkpoint, s)
              /\ DenyLoad(l)

\* The compare-and-swap; a lost race is tried once more.
compareAndSwap(l) ==
    /\ LoaderAt(l, "swap")
    /\ IF checkpoint = loaders[l].seen
       THEN /\ checkpoint' = nextCheckpoint(loaders[l].snapshot)
            /\ SetLoader(l, [loaders[l] EXCEPT !.pc = "finish"]) /\ UNCHANGED host
       ELSE IF loaders[l].attempt = 1
       THEN SetLoader(l, [loaders[l] EXCEPT !.pc = "checkpoint", !.attempt = 2]) /\ UNCHANGED <<checkpoint, host>>
       ELSE DenyLoad(l)

Grant(l) == loaders[l].snapshot.grants[loaders[l].kind]
validateFreshAuthorization(l) == loaders[l].snapshot.issuedAt <= now /\ now < GrantUntil(loaders[l].snapshot)

\* The trust source hands out the grant of exactly this request, while it lasts.
finishRead(l) ==
    /\ LoaderAt(l, "finish")
    /\ IF now < loaders[l].snapshot.until /\ Grant(l) # None /\ validateFreshAuthorization(l)
       THEN MoveLoader(l, "recheck") ELSE DenyLoad(l)

\* The last transaction is Serializable and its first statement asks for the
\* advisory lock of the publications: what the transaction sees is fixed there,
\* before it waits for this lock and for the one of the roots.
beginRecheck(l) ==
    /\ LoaderAt(l, "recheck")
    /\ SetLoader(l, [loaders[l] EXCEPT !.pc = "locking",
                                       !.view = [roots |-> CurrentRoots, published |-> Len(published)]])
    /\ UNCHANGED <<checkpoint, host>>

\* The roots and the latest row in the transaction's view; the clock is the wall's.
RootsInView(l) == {root \in loaders[l].view.roots : LiveRoot(root)}
LatestInView(l) == published[loaders[l].view.published].snapshot

\* mutant: the last transaction compares the roots and not the latest snapshot
recheckRoots(l) ==
    /\ LoaderAt(l, "locking")
    /\ IF RootsInView(l) = loaders[l].roots THEN MoveLoader(l, "granted") ELSE DenyLoad(l)

\* With both locks, which its writers take as well, the transaction compares and
\* commits.  The writers run at read committed, so that none of their commits
\* during the wait makes the transaction fail.
recheck(l) ==
    /\ LoaderAt(l, "locking")
    /\ IF RootsInView(l) = loaders[l].roots /\ LatestInView(l) = loaders[l].snapshot
       THEN MoveLoader(l, "granted") ELSE DenyLoad(l)

--------------------------------------------------------------------------
(* Loading.  The calls on the host are synchronous: no other load runs     *)
(* between them, but time passes and files change.                         *)

\* What fstat shows of the open file, and the image, are the authorization's.
verifyStat(file, authorization) ==
    /\ file = authorization.module.file
    /\ bytes[file].image.size = authorization.module.image.size

validateNativeModule(image) == image \notin Unusable

Alone(l) == \A m \in Loaders \ {l} : loaders[m].pc \notin {"verified", "open", "digested", "mapped", "opened"}

verifySocketDirectory(l, intact) ==
    /\ LoaderAt(l, "granted") /\ Alone(l)
    /\ IF validateFreshAuthorization(l) /\ intact THEN MoveLoader(l, "verified") ELSE DenyLoad(l)

\* loadAuthorizedModule: the file at the path is opened and looked at.
openModule(l) ==
    LET file == disk[loaders[l].kind]
    IN  /\ LoaderAt(l, "verified")
        /\ IF verifyStat(file, Grant(l))
           THEN SetLoader(l, [loaders[l] EXCEPT !.pc = "open", !.file = file]) /\ UNCHANGED <<checkpoint, host>>
           ELSE DenyLoad(l)

sameRetainedModule(m, authorization) == m.module = authorization.module

\* Its bytes are read and digested; a module of this kind that is mapped
\* already is returned instead, if it was mapped for the same authorization.
digestModule(l) ==
    LET read == bytes[loaders[l].file]
        m == retained[loaders[l].kind]
        Matches == read.image = Grant(l).module.image /\ validateFreshAuthorization(l)
    IN  /\ LoaderAt(l, "open")
        /\ \/ /\ ~Matches \/ (m # None /\ ~sameRetainedModule(m, Grant(l))) \/ (m = None /\ Len(mapped) >= MaxDescriptors)
              /\ DenyLoad(l)
           \/ /\ Matches /\ m # None /\ sameRetainedModule(m, Grant(l))
              /\ SetLoader(l, [loaders[l] EXCEPT !.pc = "opened", !.loaded = m]) /\ UNCHANGED <<checkpoint, host>>
           \/ /\ Matches /\ m = None /\ Len(mapped) < MaxDescriptors
              /\ SetLoader(l, [loaders[l] EXCEPT !.pc = "digested", !.read = read]) /\ UNCHANGED <<checkpoint, host>>

\* dlopen of a file: its bytes as they are now.  The descriptor stays open and
\* is counted, unless dlopen itself fails.
Maps(l, file, dlopens) ==
    LET m == [kind |-> loaders[l].kind, module |-> Grant(l).module, file |-> file, read |-> loaders[l].read,
              bytes |-> bytes[file]]
    IN  /\ LoaderAt(l, "digested")
        /\ IF dlopens
           THEN /\ mapped' = Append(mapped, m)
                /\ SetLoader(l, [loaders[l] EXCEPT !.pc = "mapped", !.loaded = m])
                /\ UNCHANGED <<checkpoint, disk, bytes, retained, restarts>>
           ELSE DenyLoad(l)

\* mutant: the module is mapped by its path and not by the open descriptor
mapByPath(l, dlopens) == Maps(l, disk[loaders[l].kind], dlopens)

\* By way of /proc/self/fd it is the file that was opened.
mapModule(l, dlopens) == Maps(l, loaders[l].file, dlopens)

\* The second look at the open file and the exports; the kind is bound to the
\* module until the process ends.  A denial does not unmap it.
retainModule(l) ==
    LET m == loaders[l].loaded
    IN  /\ LoaderAt(l, "mapped")
        /\ IF verifyStat(m.file, Grant(l)) /\ validateNativeModule(m.bytes.image)
           THEN /\ retained' = [retained EXCEPT ![m.kind] = m]
                /\ SetLoader(l, [loaders[l] EXCEPT !.pc = "opened"])
                /\ UNCHANGED <<checkpoint, disk, bytes, mapped, restarts>>
           ELSE DenyLoad(l)

finishLoad(l) ==
    /\ LoaderAt(l, "opened")
    /\ IF validateFreshAuthorization(l) THEN MoveLoader(l, "loaded") ELSE DenyLoad(l)

\* signal.aborted is looked at after every await of the loader.
abortLoad(l) == LoaderAt(l, "granted") /\ Alone(l) /\ DenyLoad(l)

\* The process ends: what it had under way is lost, the database remains.
restart ==
    /\ restarts < MaxRestarts /\ restarts' = restarts + 1
    /\ issuers' = [i \in Issuers |-> Idle]
    /\ loaders' = [l \in Loaders |-> IF loaders[l].pc \in {"idle", "denied"} THEN loaders[l] ELSE [pc |-> "denied"]]
    /\ retained' = [k \in Kinds |-> None] /\ mapped' = <<>>
    /\ UNCHANGED <<now, store, disk, bytes>>

replaceFile(kind, file) ==
    /\ disk[kind] # file /\ disk' = [disk EXCEPT ![kind] = file]
    /\ UNCHANGED <<now, store, issuers, loaders, bytes, retained, mapped, restarts>>

\* In place, by root or by the owner, who may also make it writable and back.
writeFile(file, image) ==
    /\ bytes[file].writes < MaxWrites
    /\ bytes' = [bytes EXCEPT ![file] = [image |-> image, writes |-> @.writes + 1]]
    /\ UNCHANGED <<now, store, issuers, loaders, disk, retained, mapped, restarts>>

--------------------------------------------------------------------------
RootRequests(r) ==
    [signer : {r}, version : 1..(MaxRootVersions + 1), minimum : 1..MaxVersions, revokedAt : {None, now}]

NextPlace == [version |-> Len(published) + 1, prev |-> IF published = <<>> THEN None ELSE Last(published).snapshot]

Places ==
    {place \in [version : 1..MaxVersions, prev : {None} \cup {published[j].snapshot : j \in DOMAIN published}] :
       AnyPlace \/ place = NextPlace}

Answers(i) ==
    [for : {issuers[i].request}, signature : {"genuine", "other", None}] \cup {[for |-> None, signature |-> "genuine"]}

Issuing ==
    \E i \in Issuers :
      \/ \E p \in Callers, id \in SnapshotIds, r \in RootSigners, g \in Grants, place \in Places :
           issue(i, p, id, place, r, g)
      \/ readRoots(i) \/ authorize(i) \/ controllerSign(i)
      \/ IssuerAt(i, "signing") /\ \E answer \in Answers(i) : sign(i, answer)
      \/ publish(i) \/ append(i) \/ abortIssue(i)

Loading ==
    \E l \in Loaders :
      \/ \E kind \in Kinds : load(l, kind)
      \/ readRootsBefore(l) \/ readSnapshot(l) \/ readCheckpoint(l) \/ compareAndSwap(l) \/ finishRead(l)
      \/ beginRecheck(l) \/ recheck(l)
      \/ \E intact \in BOOLEAN : verifySocketDirectory(l, intact)
      \/ openModule(l) \/ digestModule(l) \/ \E dlopens \in BOOLEAN : mapModule(l, dlopens)
      \/ retainModule(l) \/ finishLoad(l) \/ abortLoad(l)

ModuleNext ==
    \/ ModuleTick \/ restart \/ Issuing \/ Loading
    \/ \E p \in Callers, r \in RootSigners :
         Len(registry[r]) < MaxRootVersions /\ \E root \in RootRequests(r) : provision(p, root)
    \/ \E kind \in Kinds, file \in Files : replaceFile(kind, file)
    \/ \E file \in Files, image \in Images : writeFile(file, image)

ModuleSpec == ModuleInit /\ [][ModuleNext]_moduleVars

--------------------------------------------------------------------------
ModuleTypes ==
    /\ now \in 0..Horizon /\ restarts \in 0..MaxRestarts /\ Len(mapped) <= MaxDescriptors
    /\ disk \in [Kinds -> Files] /\ bytes \in [Files -> [image : Images, writes : 0..MaxWrites]]

Names(row, m) == row.snapshot.grants[m.kind] # None /\ row.snapshot.grants[m.kind].module = m.module

\* Versions of roots and of snapshots have no gaps.  Every module that was ever
\* mapped into the process, also one that was denied afterwards, is the very file
\* that an approved and published snapshot names for its kind, whatever took its
\* path meanwhile, and its bytes are those named unless the file was written in
\* place between the digest and the mapping, which the second fstat does not see
\* if the size stays; a kind keeps the module that a loader returned for it, and
\* the loader's own snapshot names it (the triggers of the tables,
\* loadAuthorizedModule).
ModulesAreAuthorized ==
    /\ \A r \in DOMAIN registry : \A j \in DOMAIN registry[r] : registry[r][j].version = j
    /\ \A j \in DOMAIN published : published[j].snapshot.version = j
    /\ \A i \in DOMAIN mapped :
         LET m == mapped[i]
         IN  /\ m.file = m.module.file /\ m.read.image = m.module.image
             /\ m.bytes.writes = m.read.writes => m.bytes.image = m.module.image
             /\ \E j \in DOMAIN published : Names(published[j], m)
    /\ \A k \in DOMAIN retained :
         retained[k] # None => retained[k].kind = k /\ \E i \in DOMAIN mapped : mapped[i] = retained[k]
    /\ \A l \in DOMAIN loaders : loaders[l].pc \in {"opened", "loaded"} =>
         /\ loaders[l].loaded = retained[loaders[l].kind]
         /\ \E j \in DOMAIN published :
              published[j].snapshot = loaders[l].snapshot /\ Names(published[j], loaders[l].loaded)

Granted(l) == loaders'[l].pc = "granted" /\ loaders[l].pc # "granted"

\* A grant is handed out only if, when the last transaction of its read began, its
\* snapshot was the latest that was published, and if the root of its signer, as
\* it stood then, has not ended now; and the checkpoint has reached the snapshot.
\* What is published or revoked while that transaction waits for its locks is
\* not seen (PostgresRetainedNativeModuleAuthorizationTrustComposition.read).
GrantIsCurrent ==
    \A l \in Loaders : Granted(l) =>
      /\ loaders[l].snapshot = published[loaders[l].view.published].snapshot
      /\ \E root \in loaders[l].view.roots : root.signer = loaders[l].snapshot.signer /\ LiveRoot(root)
      /\ checkpoint # None /\ checkpoint.snapshot.version >= loaders[l].snapshot.version

\* When a grant is handed out no newer snapshot is published and its root is in
\* force: nothing was published, rotated or revoked within the last decision.
GrantIsLatest ==
    \A l \in Loaders : Granted(l) =>
      /\ loaders[l].snapshot = Last(published).snapshot
      /\ \E root \in ActiveRoots : root.signer = loaders[l].snapshot.signer

\* The checkpoint only moves to the next published snapshot, so that no reader
\* that was overtaken takes the trust back to what it had read
\* (#advanceCheckpoint, compareAndSwap).
CheckpointAdvances ==
    checkpoint' # checkpoint =>
      /\ checkpoint'.snapshot.version = (IF checkpoint = None THEN 1 ELSE checkpoint.snapshot.version + 1)
      /\ checkpoint'.snapshot = published[checkpoint'.snapshot.version].snapshot
      /\ checkpoint # None => GrantsAdvance(checkpoint.grants, checkpoint'.grants)
==============================================================================
