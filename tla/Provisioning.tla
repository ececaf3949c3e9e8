---------------------------- MODULE Provisioning ----------------------------
(***************************************************************************)
(* Provisioning of the retained native supervisor on Linux.  Two role-local*)
(* observers attest the directory the API and the worker share; while their*)
(* observations are fresh, a controller runs four separately authorized    *)
(* phases: it makes a root for the attempt, the fixed directories below it,*)
(* and copies the client and the listener module into them.  Every phase   *)
(* awaits its authority and then runs its host, a synchronous sequence of  *)
(* file operations during which no timer of that process fires, but other  *)
(* processes do run: another attempt of the same plan, or an operator who  *)
(* moves, replaces or rewrites what lies there.                            *)
(*                                                                         *)
(* nodes is the file system: node 1 holds the entries every path starts    *)
(* from, 2 is the shared parent directory, 3 and 4 are the two modules to  *)
(* copy.  A descriptor is a node: it stays valid when the path moves.      *)
(***************************************************************************)
EXTENDS Naturals, Sequences, SequencesExt, FiniteSets, Clock

CONSTANTS Attempts, Plans, Granters, Cancellable, Movable, PhaseLife, MaxPhaseLife, ObservationLife, ObserveTimeout, GateTimeout,
          MaxNodes, MaxDisturbances

VARIABLES nodes, attempts, observations, changes

provisionVars == <<nodes, attempts, observations, changes, now>>

\* The lifetimes the components are built with.
LifetimesAssumption ==
    /\ {PhaseLife, MaxPhaseLife, ObservationLife, ObserveTimeout, GateTimeout} \subseteq Nat \ {0}
    /\ PhaseLife <= MaxPhaseLife /\ ObserveTimeout <= GateTimeout
    /\ \A a \in Attempts : DOMAIN Plans[a].sources = {"client", "listener"}

Roles == {"API_LISTENER", "WORKER_CLIENT"}
Phases == <<"root", "parents", "client", "listener">>
EntryNames == {"parent", "client source", "listener source", "native", "run", "supervisor", "client", "listener", "socket"}
         \cup {Plans[a].id : a \in Attempts}
Slots == {"parent", "source", "root", "native", "run", "supervisor", "client", "listener"}

-----------------------------------------------------------------------------
(* The file system, as the hosts use it.                                   *)

NoEntries == [n \in EntryNames |-> None]

Directory(by) == [kind |-> "directory", entries |-> NoEntries, bytes |-> None, stamp |-> 0, by |-> by, removedBy |-> None]

File(by, bytes) == [Directory(by) EXCEPT !.kind = "file", !.bytes = bytes]

\* openSync and lstatSync by path.
Resolve(path) == FoldLeft(LAMBDA d, n : IF d = None THEN None ELSE nodes[d].entries[n], 1, path)

\* mkdirSync, or openSync with O_CREAT: a new entry of a directory.
Added(d, name, node) ==
    [Append(nodes, node) EXCEPT ![d].entries[name] = Len(nodes) + 1, ![d].stamp = @ + 1]

\* rmdirSync or unlinkSync.
Removed(d, name, by) ==
    LET i == nodes[d].entries[name]
    IN [nodes EXCEPT ![d].entries[name] = None, ![d].stamp = @ + 1, ![i].removedBy = by,
                     ![i].kind = IF @ = "directory" THEN "gone" ELSE @]

\* verifyOwnedDirectory and the identity comparison after an open.
verifyOwnedDirectory(i) == i # None /\ nodes[i].kind = "directory"

sameIdentity(i, j) == i # None /\ i = j

-----------------------------------------------------------------------------
(* Plans, requests, grants and evidence.                                   *)

Root(a) == Plans[a].parent \o <<Plans[a].id>>

PathOf(a, key) ==
    CASE key = "parent" -> Plans[a].parent
      [] key = "root" -> Root(a)
      [] key = "native" -> Root(a) \o <<"native">>
      [] key = "run" -> Root(a) \o <<"run">>
      [] key = "supervisor" -> Root(a) \o <<"run", "supervisor">>
      [] key \in {"client", "listener"} -> Root(a) \o <<"native", key>>

\* A module to copy must be readable and writable by nobody.
usableSource(s) == ~s.writable /\ s.readable /\ s.size > 0

\* The plan's socket lies in the directory the parents phase makes, and no
\* module is copied onto itself.
validateProvisioningPlan(a) ==
    /\ \A k \in {"client", "listener"} : usableSource(Plans[a].sources[k]) /\ Plans[a].sources[k].path # PathOf(a, k)
    /\ Plans[a].parent # <<>> /\ Front(Plans[a].socket) = PathOf(a, "supervisor")

\* Each phase's request names paths and the identities expected there: the
\* plan's for the shared parent and the modules, the evidence of the earlier
\* phases for the rest.
Request(paths, expect, after) == [paths |-> paths, expect |-> expect, after |-> after]

runtimeRootRequest(a) ==
    Request([k \in {"parent", "root"} |-> PathOf(a, k)], [k \in {"parent"} |-> Plans[a].identity], None)

parentRequest(a, root) ==
    Request([k \in {"root", "native", "run", "supervisor"} |-> PathOf(a, k)], [k \in {"root"} |-> root.ids["root"]], root.id)

pathRequest(a, kind, parents) ==
    Request([k \in {"source", "native", "run", "supervisor", "socket", kind} |->
               IF k = "source" THEN Plans[a].sources[kind].path ELSE IF k = "socket" THEN Plans[a].socket ELSE PathOf(a, k)],
            [k \in {"source", "native", "run", "supervisor"} |->
               IF k = "source" THEN Plans[a].sources[kind].identity ELSE parents.ids[k]],
            parents.id)

\* What the provisioners require of the paths of their requests.
validateRuntimeRootRequest(q) == q.paths["parent"] # <<>> /\ Front(q.paths["root"]) = q.paths["parent"]

validateParentDirectoryRequest(q) ==
    /\ q.paths["native"] = Append(q.paths["root"], "native") /\ q.paths["run"] = Append(q.paths["root"], "run")
    /\ q.paths["supervisor"] = Append(q.paths["run"], "supervisor")

validatePathRequest(q, kind) ==
    /\ q.paths[kind] = Append(q.paths["native"], kind) /\ q.paths["source"] # q.paths[kind]
    /\ Front(q.paths["supervisor"]) = q.paths["run"] /\ Front(q.paths["socket"]) = q.paths["supervisor"]
    /\ q.paths["native"] # <<>> /\ q.paths["run"] # <<>>

ValidRequest(phase, q) ==
    CASE phase = "root" -> validateRuntimeRootRequest(q)
      [] phase = "parents" -> validateParentDirectoryRequest(q)
      [] OTHER -> validatePathRequest(q, phase)

RequestOf(a, phase, evidence) ==
    CASE phase = "root" -> runtimeRootRequest(a)
      [] phase = "parents" -> parentRequest(a, evidence["root"])
      [] OTHER -> pathRequest(a, phase, evidence["parents"])

\* A one-shot authority grants the exact request it was built for, to a
\* principal at level 3 that is not a runtime, from now on.
authorizePhase(request, expected, principal) ==
    IF request = expected /\ principal.level = 3 /\ principal.kind # "RUNTIME"
    THEN [request |-> request, level |-> 3, from |-> now, until |-> now + PhaseLife]
    ELSE None

validateGrant(grant) == grant # None /\ grant.level = 3

assertFreshWindow(from, until) ==
    from <= now /\ now < until /\ from < until /\ until - from <= MaxPhaseLife

\* What a phase's host reports of the nodes it made or opened, under its
\* grant, and the provisioner compares with it.
Evidence(x, keys) ==
    [id |-> <<x.phase, x.grant.from>>, from |-> x.grant.from, until |-> x.grant.until, request |-> x.grant.request,
     ids |-> [k \in keys |-> x.fd[k]]]

RuntimeRootResult(x) == Evidence(x, {"root"})

ParentDirectoryResult(x) == Evidence(x, {"native", "run", "supervisor"})

PathResult(x) == Evidence(x, {x.phase, "supervisor"})

ResultOf(x) ==
    CASE x.phase = "root" -> RuntimeRootResult(x) [] x.phase = "parents" -> ParentDirectoryResult(x) [] OTHER -> PathResult(x)

\* The controller accepts evidence of its own request that is still fresh.
runtimeRootEvidence(e, request) == e.request = request /\ assertFreshWindow(e.from, e.until) /\ e.ids["root"] # None

parentEvidence(e, request) ==
    e.request = request /\ assertFreshWindow(e.from, e.until) /\ \A k \in {"native", "run", "supervisor"} : e.ids[k] # None

pathEvidence(e, request, kind) ==
    /\ e.request = request /\ assertFreshWindow(e.from, e.until)
    /\ e.ids[kind] # None /\ e.ids["supervisor"] = request.expect["supervisor"]

AcceptedEvidence(phase, e, request) ==
    CASE phase = "root" -> runtimeRootEvidence(e, request)
      [] phase = "parents" -> parentEvidence(e, request)
      [] OTHER -> pathEvidence(e, request, phase)

-----------------------------------------------------------------------------
(* The hosts: what they do, in order, and what they undo when it fails.    *)

Do(op, dir, key) == [op |-> op, dir |-> dir, key |-> key]

RuntimeRootHost ==
    <<Do("open", None, "parent"), Do("make", "parent", "root"), Do("enter", "parent", "root"),
      Do("again", None, "parent"), Do("again", None, "root")>>

ParentDirectoryHost ==
    <<Do("open", None, "root"), Do("make", "root", "native"), Do("enter", "root", "native"),
      Do("make", "root", "run"), Do("enter", "root", "run"),
      Do("make", "run", "supervisor"), Do("enter", "run", "supervisor"),
      Do("again", None, "root"), Do("again", None, "native"), Do("again", None, "run"), Do("again", None, "supervisor")>>

\* The module is read and checked, and written to a file of its own ...
CopyModule(kind) ==
    <<Do("open", None, "source"), Do("read", None, "source"), Do("open", None, "native"), Do("open", None, "run"),
      Do("create", "native", kind), Do("write", None, kind)>>

\* ... and what is there is compared with the descriptors.
PathHost(kind) ==
    CopyModule(kind) \o
    <<Do("enter", "run", "supervisor"), Do("again", None, "native"), Do("again", None, "run"), Do("again", None, kind),
      Do("again", None, "supervisor"), Do("absent", None, "socket"), Do("read", None, kind)>>

Host(phase) ==
    CASE phase = "root" -> RuntimeRootHost [] phase = "parents" -> ParentDirectoryHost [] OTHER -> PathHost(phase)

removeRuntimeRoot == <<Do("remove", "parent", "root")>>

removeCreatedDirectories == <<Do("remove", "run", "supervisor"), Do("remove", "root", "run"), Do("remove", "root", "native")>>

removeCreatedModule(kind) == <<Do("remove", "native", kind)>>

Removals(phase) ==
    CASE phase = "root" -> removeRuntimeRoot [] phase = "parents" -> removeCreatedDirectories [] OTHER -> removeCreatedModule(phase)

\* The name of key's entry in its directory, and the path the grant gives it.
NameOf(a, key) == IF key = "root" THEN Plans[a].id ELSE key

PathIn(a, key) == attempts[a].grant.request.paths[key]

Sha(a) == Plans[a].sources[attempts[a].phase].sha256

Expected(a, key, i) == LET e == attempts[a].grant.request.expect IN key \in DOMAIN e => e[key] = i

\* mkdir and O_EXCL create only what is absent, in a directory that exists.
Creatable(d, name) == nodes[d].kind = "directory" /\ nodes[d].entries[name] = None

\* One operation of the host: its outcome, the descriptor it opens, the disk.
Failure == [ok |-> FALSE, fd |-> None, nodes |-> nodes, made |-> FALSE]
Success(i, ns, made) == [ok |-> TRUE, fd |-> i, nodes |-> ns, made |-> made]

Operate(a, do) ==
    LET fd == attempts[a].fd
        at == IF do.dir = None THEN Resolve(PathIn(a, do.key)) ELSE nodes[fd[do.dir]].entries[NameOf(a, do.key)]
    IN CASE do.op = "open" /\ do.key = "source" ->
              IF at # None /\ nodes[at].kind = "file" /\ Expected(a, do.key, at) THEN Success(at, nodes, FALSE) ELSE Failure
         [] do.op \in {"open", "enter"} /\ do.key # "source" ->
              IF verifyOwnedDirectory(at) /\ Expected(a, do.key, at) THEN Success(at, nodes, FALSE) ELSE Failure
         [] do.op \in {"make", "create"} ->
              IF ~Creatable(fd[do.dir], NameOf(a, do.key)) THEN Failure
              ELSE Success(IF do.op = "make" THEN None ELSE Len(nodes) + 1,
                           Added(fd[do.dir], NameOf(a, do.key), IF do.op = "make" THEN Directory(a) ELSE File(a, None)), TRUE)
         [] do.op = "write" -> Success(fd[do.key], [nodes EXCEPT ![fd[do.key]].bytes = Sha(a)], FALSE)
         [] do.op = "read" -> IF nodes[fd[do.key]].bytes = Sha(a) THEN Success(fd[do.key], nodes, FALSE) ELSE Failure
         [] do.op = "again" -> IF sameIdentity(fd[do.key], at) THEN Success(at, nodes, FALSE) ELSE Failure
         [] do.op = "absent" -> IF at = None THEN Success(None, nodes, FALSE) ELSE Failure

-----------------------------------------------------------------------------

NewAttempt ==
    [gate |-> "idle", pc |-> "idle", phase |-> None, step |-> 0, fd |-> [k \in Slots |-> None], made |-> {},
     request |-> None, grant |-> None, evidence |-> [p \in {"root", "parents", "client", "listener"} |-> None],
     adopted |-> {}, caller |-> FALSE, aborted |-> FALSE, startedAt |-> None, gateLast |-> 0, last |-> 0, until |-> None, completedAt |-> None]

ProvisionInit ==
    /\ nodes = <<[Directory(None) EXCEPT !.entries = [n \in EntryNames |-> IF n = "parent" THEN 2 ELSE
                    IF n = "client source" THEN 3 ELSE IF n = "listener source" THEN 4 ELSE None]],
                 Directory(None), File(None, "client bytes"), File(None, "listener bytes")>>
    /\ attempts = [a \in Attempts |-> NewAttempt]
    /\ observations = [a \in Attempts |-> [r \in Roles |-> None]]
    /\ changes = 0 /\ now = 0

Set(a, record) == attempts' = [attempts EXCEPT ![a] = record]

\* The gate rejects: whatever still runs below it sees the attempt aborted.
Reject(a) == Set(a, [attempts[a] EXCEPT !.gate = "rejected", !.aborted = TRUE])

\* The controller denies, and with it the gate, unless it already has.
Failed(x) ==
    [x EXCEPT !.pc = "failed", !.gate = "rejected", !.aborted = TRUE, !.fd = NewAttempt.fd, !.made = {}, !.step = 0,
              !.request = None, !.grant = None, !.evidence = NewAttempt.evidence]

Fail(a, x) == Set(a, Failed(x))

\* call: the controller asks a phase's provisioner, which asks its authority.
CallPhase(a, x, phase) ==
    LET q == RequestOf(a, phase, x.evidence)
    IN IF ValidRequest(phase, q) /\ ~x.aborted
       THEN Set(a, [x EXCEPT !.pc = "authorizing", !.phase = phase, !.request = q, !.grant = None,
                             !.fd = [k \in Slots |-> None], !.made = {}, !.step = 0])
       ELSE Fail(a, x)

\* The attempt's process runs a host: nothing else of that process happens.
Synchronous(a) == attempts[a].pc \in {"host", "look", "remove"}

\* Which module a role observes, and what its request may ask for.
requestFor(role) == IF role = "API_LISTENER" THEN "listener" ELSE "client"

validateTopologyObservationRequest(a, role) ==
    LET s == Plans[a].sources[requestFor(role)]
    IN ~s.writable /\ s.readable /\ s.size > 0 /\ Last(s.path) = requestFor(role) \o " source" /\ Plans[a].parent # <<>>

begin(a) ==
    /\ attempts[a].gate = "idle"
    /\ IF /\ validateProvisioningPlan(a) /\ ~attempts[a].caller
          /\ \A r \in Roles : validateTopologyObservationRequest(a, r)
       THEN Set(a, [attempts[a] EXCEPT !.gate = "attesting", !.startedAt = now, !.gateLast = now])
       ELSE Reject(a)
    /\ UNCHANGED <<nodes, observations, changes, now>>

\* A role-local observer opens the shared parent and its module.
verifyDirectory(a, i) == verifyOwnedDirectory(i) /\ i = Plans[a].identity

verifySource(s, i) == i # None /\ nodes[i].kind = "file" /\ i = s.identity /\ nodes[i].bytes = s.sha256

Unseen == [state |-> "failed", parent |-> None, module |-> None, at |-> None, until |-> None]

observe(a, role) ==
    /\ attempts[a].gate # "idle" /\ attempts[a].startedAt # None /\ observations[a][role] = None
    /\ LET s == Plans[a].sources[requestFor(role)]
           parent == Resolve(Plans[a].parent)
           module == Resolve(s.path)
           seen == ~attempts[a].aborted /\ verifyDirectory(a, parent) /\ verifySource(s, module)
       IN observations' = [observations EXCEPT ![a][role] =
            IF seen THEN [Unseen EXCEPT !.state = "opened", !.parent = nodes[parent].stamp, !.module = nodes[module].stamp]
            ELSE Unseen]
    /\ UNCHANGED <<nodes, attempts, changes, now>>

\* It looks again by path: nothing may have changed since.
unchangedMetadata(i, identity, stamp) == sameIdentity(i, identity) /\ nodes[i].stamp = stamp

observed(a, role) ==
    /\ observations[a][role] # None /\ observations[a][role].state = "opened"
    /\ LET s == Plans[a].sources[requestFor(role)]
           o == observations[a][role]
           same == /\ unchangedMetadata(Resolve(Plans[a].parent), Plans[a].identity, o.parent)
                   /\ unchangedMetadata(Resolve(s.path), s.identity, o.module)
                   /\ ~attempts[a].aborted
       IN observations' = [observations EXCEPT ![a][role] =
            IF same THEN [Unseen EXCEPT !.state = "visible", !.at = now, !.until = now + ObservationLife] ELSE Unseen]
    /\ UNCHANGED <<nodes, attempts, changes, now>>

validateTopologyObservation(o) ==
    o.state = "visible" /\ o.at <= now /\ now < o.until /\ o.until - o.at <= ObservationLife

assertTopology(until, x) == until > now /\ now - x.startedAt <= GateTimeout

\* Both observations have arrived: the reconciler and the gate accept them
\* while they are fresh, and the controller starts with the root.
attest(a) ==
    /\ attempts[a].gate = "attesting"
    /\ \A r \in Roles : observations[a][r] # None /\ observations[a][r].state # "opened"
    /\ LET x == attempts[a]
           o == observations[a]
           until == IF o["API_LISTENER"].until <= o["WORKER_CLIENT"].until THEN o["API_LISTENER"].until ELSE o["WORKER_CLIENT"].until
       IN IF /\ ~x.caller /\ x.gateLast <= now
             /\ \A r \in Roles : validateTopologyObservation(o[r])
             /\ assertTopology(until, x)
          THEN CallPhase(a, [x EXCEPT !.gate = "provisioning", !.until = until, !.gateLast = now], "root")
          ELSE Reject(a)
    /\ UNCHANGED <<nodes, observations, changes, now>>

\* A phase's authority answers; the answer may be used later.
Authorized(a) ==
    /\ attempts[a].pc = "authorizing"
    /\ \E expected \in {attempts[a].request, None}, principal \in Granters :
         LET grant == authorizePhase(attempts[a].request, expected, principal)
         IN IF grant = None THEN Fail(a, attempts[a]) ELSE Set(a, [attempts[a] EXCEPT !.pc = "granted", !.grant = grant])
    /\ UNCHANGED <<nodes, observations, changes, now>>

authorizeRuntimeRoot(a) == attempts[a].phase = "root" /\ Authorized(a)

authorizeParentDirectories(a) == attempts[a].phase = "parents" /\ Authorized(a)

authorizePath(a) == attempts[a].phase \in {"client", "listener"} /\ Authorized(a)

\* The provisioner resumes: the grant must be valid, fresh and of its own
\* request, and the attempt not aborted while it waited.
Admissible(x) ==
    /\ validateGrant(x.grant) /\ assertFreshWindow(x.grant.from, x.grant.until)
    /\ x.grant.request = x.request /\ ~x.aborted

Resume(a) ==
    /\ attempts[a].pc = "granted"
    /\ IF Admissible(attempts[a]) THEN Set(a, [attempts[a] EXCEPT !.pc = "host", !.step = 1]) ELSE Fail(a, attempts[a])
    /\ UNCHANGED <<nodes, observations, changes, now>>

provisionRuntimeRoot(a) == attempts[a].phase = "root" /\ Resume(a)

provisionParentDirectories(a) == attempts[a].phase = "parents" /\ Resume(a)

provisionPath(a) == attempts[a].phase \in {"client", "listener"} /\ Resume(a)

\* A directory that was swapped in between mkdirSync and openSync is taken for
\* the one that was made: there is nothing to compare it with.
Adopts(a, do, r) ==
    IF do.op = "enter" /\ do.key \in attempts[a].made /\ r.ok /\ nodes[r.fd].by # a THEN {r.fd} ELSE {}

\* One file operation of the host.
runHost(a) ==
    /\ attempts[a].pc = "host" /\ Len(nodes) < MaxNodes
    /\ LET x == attempts[a]
           do == Host(x.phase)[x.step]
           r == Operate(a, do)
           y == [x EXCEPT !.fd = IF r.fd = None THEN @ ELSE [@ EXCEPT ![do.key] = r.fd],
                          !.made = IF r.made THEN @ \cup {do.key} ELSE @, !.adopted = @ \cup Adopts(a, do, r)]
       IN /\ nodes' = r.nodes
          /\ Set(a, CASE ~r.ok -> [x EXCEPT !.pc = "look", !.step = 1]
                      [] r.ok /\ x.step < Len(Host(x.phase)) -> [y EXCEPT !.step = @ + 1]
                      [] r.ok /\ x.step = Len(Host(x.phase)) -> [y EXCEPT !.pc = "answered"])
    /\ UNCHANGED <<observations, changes, now>>

\* After a failure the host removes what it created and still finds there:
\* it compares the entry with its descriptor, then removes it.
CleanUp(a) ==
    /\ attempts[a].pc \in {"look", "remove"}
    /\ LET x == attempts[a]
           list == Removals(x.phase)
           do == list[x.step]
           d == x.fd[do.dir]
           i == nodes[d].entries[NameOf(a, do.key)]
           next == IF x.step = Len(list) THEN Failed(x)
                   ELSE [x EXCEPT !.pc = "look", !.step = @ + 1]
           empty == i # None /\ (nodes[i].kind = "file" <=> do.key \in {"client", "listener"}) /\ \A n \in EntryNames : nodes[i].entries[n] = None
       IN IF x.pc = "look"
          THEN /\ Set(a, IF d # None /\ do.key \in x.made /\ x.fd[do.key] # None /\ sameIdentity(x.fd[do.key], i)
                         THEN [x EXCEPT !.pc = "remove"] ELSE next)
               /\ UNCHANGED nodes
          ELSE /\ nodes' = IF empty THEN Removed(d, NameOf(a, do.key), a) ELSE nodes
               /\ Set(a, next)
    /\ UNCHANGED <<observations, changes, now>>

\* The controller takes a phase's evidence and calls the next; after the
\* last one every grant must still be fresh.
advance(a) ==
    /\ attempts[a].pc = "answered"
    /\ LET x == attempts[a]
           e == ResultOf(x)
           k == CHOOSE n \in 1..4 : Phases[n] = x.phase
           y == [x EXCEPT !.evidence[x.phase] = e, !.last = now]
       IN IF x.aborted \/ now < x.last \/ ~AcceptedEvidence(x.phase, e, x.request) THEN Fail(a, x)
          ELSE IF k < 4 THEN CallPhase(a, y, Phases[k + 1])
          ELSE IF /\ y.evidence["client"].ids["supervisor"] = y.evidence["listener"].ids["supervisor"]
                  /\ y.evidence["client"].request.after = y.evidence["listener"].request.after
                  /\ \A n \in 1..4 : assertFreshWindow(y.evidence[Phases[n]].from, y.evidence[Phases[n]].until)
               THEN Set(a, [y EXCEPT !.pc = "done"])
               ELSE Fail(a, x)
    /\ UNCHANGED <<nodes, observations, changes, now>>

assertProvisioning(x) == \A n \in 1..4 : x.evidence[Phases[n]] # None /\ x.evidence[Phases[n]].id[1] = Phases[n]

\* mutant: the observations are not looked at again
completeUnchecked(a) ==
    /\ attempts[a].pc = "done" /\ attempts[a].gate = "provisioning"
    /\ IF ~attempts[a].aborted /\ ~attempts[a].caller /\ assertProvisioning(attempts[a])
       THEN Set(a, [attempts[a] EXCEPT !.gate = "returned", !.completedAt = now])
       ELSE Reject(a)
    /\ UNCHANGED <<nodes, observations, changes, now>>

\* The gate returns the bundle if nothing interrupted it, the observations
\* are still fresh and the whole attempt was within its time.
complete(a) ==
    /\ attempts[a].pc = "done" /\ attempts[a].gate = "provisioning"
    /\ LET x == attempts[a]
       IN IF /\ ~x.aborted /\ ~x.caller /\ x.gateLast <= now /\ now < x.until /\ now - x.startedAt <= GateTimeout
             /\ assertProvisioning(x)
          THEN Set(a, [x EXCEPT !.gate = "returned", !.completedAt = now])
          ELSE Reject(a)
    /\ UNCHANGED <<nodes, observations, changes, now>>

\* The timers of the reconciler and the gate, and the caller's signal.
timeout(a) ==
    /\ ~Synchronous(a) /\ attempts[a].pc \in {"idle", "authorizing", "granted"}
    /\ \/ attempts[a].gate = "attesting" /\ now >= attempts[a].startedAt + ObserveTimeout
       \/ attempts[a].gate = "provisioning" /\ now >= attempts[a].startedAt + GateTimeout
       \/ attempts[a].gate = "provisioning" /\ now >= attempts[a].until
    /\ Reject(a)
    /\ UNCHANGED <<nodes, observations, changes, now>>

cancel(a) ==
    /\ a \in Cancellable /\ ~Synchronous(a) /\ ~attempts[a].caller /\ attempts[a].gate \in {"idle", "attesting", "provisioning"}
    /\ Set(a, [attempts[a] EXCEPT !.caller = TRUE, !.aborted = (attempts[a].gate # "idle"),
                                  !.gate = IF @ = "idle" THEN @ ELSE "rejected"])
    /\ UNCHANGED <<nodes, observations, changes, now>>

-----------------------------------------------------------------------------
(* The rest of the machine: time, and an operator with the same rights.    *)

Tick == now < Horizon /\ now' = now + 1 /\ UNCHANGED <<nodes, attempts, observations, changes>>

SetClockBack ==
    /\ changes < MaxDisturbances /\ now > 0
    /\ now' = now - 1 /\ changes' = changes + 1 /\ UNCHANGED <<nodes, attempts, observations>>

\* An entry is moved away, or replaced by a directory of the operator's, or
\* the operator makes the attempt's root or the socket before the hosts do.
MoveOrReplace(d, name) ==
    /\ changes < MaxDisturbances /\ nodes[d].kind = "directory"
    /\ \/ nodes[d].entries[name] # None
       \/ \E a \in Attempts : <<d, name>> \in {<<2, Plans[a].id>>, <<Resolve(PathOf(a, "supervisor")), "socket">>}
    /\ \/ nodes[d].entries[name] # None /\ nodes' = [nodes EXCEPT ![d].entries[name] = None, ![d].stamp = @ + 1]
       \/ Len(nodes) < MaxNodes /\ nodes' = Added(d, name, Directory(None))
    /\ changes' = changes + 1 /\ UNCHANGED <<attempts, observations, now>>

Rewrite(d, name) ==
    /\ changes < MaxDisturbances /\ nodes[d].entries[name] # None
    /\ LET i == nodes[d].entries[name]
       IN nodes[i].kind = "file" /\ nodes' = [nodes EXCEPT ![i].bytes = "other bytes", ![i].stamp = @ + 1]
    /\ changes' = changes + 1 /\ UNCHANGED <<attempts, observations, now>>

ProvisionNext ==
    \/ \E a \in Attempts : \/ begin(a) \/ attest(a) \/ runHost(a) \/ CleanUp(a)
                           \/ authorizeRuntimeRoot(a) \/ authorizeParentDirectories(a) \/ authorizePath(a)
                           \/ provisionRuntimeRoot(a) \/ provisionParentDirectories(a) \/ provisionPath(a)
                           \/ advance(a) \/ complete(a) \/ timeout(a) \/ cancel(a)
                           \/ \E r \in Roles : observe(a, r) \/ observed(a, r)
    \/ Tick \/ SetClockBack
    \/ \E d \in 1..Len(nodes), n \in Movable : Rewrite(d, n) \/ MoveOrReplace(d, n)

ProvisionSpec == ProvisionInit /\ [][ProvisionNext]_provisionVars

-----------------------------------------------------------------------------

ProvisionTypes ==
    /\ \A i \in 1..Len(nodes) :
         /\ nodes[i].kind \in {"directory", "file", "gone"} /\ nodes[i].by \in Attempts \cup {None}
         /\ \A n \in EntryNames : nodes[i].entries[n] \in 1..Len(nodes) \cup {None}
    /\ \A a \in Attempts :
         /\ attempts[a].gate \in {"idle", "attesting", "provisioning", "returned", "rejected"}
         /\ attempts[a].pc \in {"idle", "authorizing", "granted", "host", "look", "remove", "answered", "done", "failed"}
    /\ changes \in 0..MaxDisturbances /\ now \in 0..Horizon

\* The nodes the bundle of an attempt vouches for.
Bundle(a) ==
    LET e == attempts[a].evidence
    IN {e["root"].ids["root"], e["parents"].ids["native"], e["parents"].ids["run"], e["parents"].ids["supervisor"],
        e["client"].ids["client"], e["listener"].ids["listener"]}

Leaves(a) ==
    LET e == attempts[a].evidence
    IN {e["parents"].ids["supervisor"], e["client"].ids["client"], e["listener"].ids["listener"]}

\* A returned bundle is the work of its attempt: the two modules are files that the
\* attempt itself created, all four grants were fresh when the controller finished,
\* both observations when the gate returned, and the attempt was within its time
\* (provision of the topology gate and of the controller).
BundlesAreSound ==
    \A a \in Attempts : attempts[a].gate = "returned" =>
      LET x == attempts[a]
      IN /\ \A k \in {"client", "listener"} : nodes[x.evidence[k].ids[k]].by = a
         /\ \A n \in 1..4 : x.evidence[Phases[n]].from <= x.last /\ x.last < x.evidence[Phases[n]].until
         /\ \A r \in Roles : x.completedAt < observations[a][r].until
         /\ x.completedAt - x.startedAt <= GateTimeout

Adopted(a) == attempts[a].adopted # {}

\* No other attempt returned a bundle with any of its nodes, and none removed one of
\* its modules or its socket directory, however the two are interleaved and whatever
\* cleanup is under way, unless one of the two adopted a directory that was swapped
\* in between its mkdirSync and its openSync, which the code cannot tell.  (The other
\* directories are not empty and so not removed, unless the operator empties them.)
BundlesAreApart ==
    \A a \in Attempts : attempts[a].gate = "returned" /\ ~Adopted(a) =>
        /\ \A i \in Leaves(a) : nodes[i].removedBy # None => Adopted(nodes[i].removedBy)
        /\ \A b \in Attempts \ {a} :
             attempts[b].gate = "returned" /\ ~Adopted(b) => Bundle(a) \cap Bundle(b) = {}

BundlesAreOwn == BundlesAreSound /\ BundlesAreApart

\* Once an attempt was rejected, by a timer, its caller or a denial, nothing
\* that still runs for it changes the disk.
RejectedAttemptsStop ==
    \A a \in Attempts : attempts[a].gate = "rejected" /\ attempts'[a] # attempts[a] => nodes' = nodes
=============================================================================
