--------------------------- MODULE NativeListener ---------------------------
(***************************************************************************)
(* The service side of the retained native supervisor in                   *)
(* packages/agent-bridge: a service owner is granted one attempt           *)
(* (retained-native-supervisor-service-owner.ts), creates a Unix socket of *)
(* its own (-listener-lifecycle.ts, native/linux-retained-native-          *)
(* listener.c), answers one exchange on it (-linux-session.ts,             *)
(* -local-ipc.ts) and removes it again.                                    *)
(*                                                                         *)
(* All attempts use one path.  A socket at a path is known by its inode;   *)
(* device, owner, group and mode are compared in the same places and are   *)
(* part of it.  Other processes may move sockets and bind the path.  A     *)
(* peer is known by its process credentials.  Every await is the end of a  *)
(* step; an abort is noticed at the end of the next one.                   *)
(***************************************************************************)
EXTENDS Naturals, Sequences, FiniteSets, Clock

CONSTANTS
    ServiceOwners, \* attempts: service owners, each a process with one attempt
    Asked,         \* what each asks for: [kind, role, instance]
    Carrier,       \* the carrier binding each is given: [instance, worker, until]
    Grants,        \* answers of the external authority: [request, hash, level, from, until]
    Clients,       \* processes that may connect
    Authorized,    \* the clients whose credentials the grants name
    Scopes,        \* what a client may ask about: instances, or "garbled"
    MaxSession,    \* maximumSessionDurationMs
    MaxLifetime,   \* MAX_AUTHORIZATION_LIFETIME_MS
    Faults,        \* bound: kinds of disturbances, of {"path", "signal", "failure", "close"}
    MaxMoves       \* bound: their number

ObservationKinds == {"TOPOLOGY_OBSERVATION_API_LISTENER", "TOPOLOGY_OBSERVATION_WORKER_CLIENT"}

\* The kinds that run a worker frame endpoint over an admitted session.
FrameKinds == {"TOPOLOGY_CARRIER_WORKER_LISTENER",
               "TOPOLOGY_CARRIER_WORKER_SERVICE_AUTHORITY_API_LISTENER"}

CarrierKinds == FrameKinds \cup {"TOPOLOGY_CARRIER_ROOT_LOOKUP_API_LISTENER"}

RequestKinds == {"RECOVERY", "MODULE_AUTHORIZATION_SIGNING"} \cup ObservationKinds \cup CarrierKinds

expectedPeerRole(kind) ==
    IF kind \in {"TOPOLOGY_OBSERVATION_WORKER_CLIENT", "TOPOLOGY_CARRIER_WORKER_LISTENER"}
    THEN "API_COORDINATOR" ELSE "WORKER_CLIENT"

\* The clients that are authorized may connect; another process is no owner,
\* and what is not there is neither.
ASSUME PeersAssumption ==
    /\ Authorized \subseteq Clients /\ ServiceOwners \cap {None, "foreign"} = {}
    /\ None \notin {"foreign", "open"}
    /\ Horizon \in Nat /\ MaxMoves \in Nat

VARIABLES
    sockets,   \* by inode: who made it, whether it listens, its backlog and its place
    moves,     \* disturbances so far
    service,   \* the attempts
    wires      \* connections, by client

listenerVars == <<now, sockets, moves, service, wires>>

Inodes == DOMAIN sockets

\* What lstat finds at the path: one inode, or nothing.
lstat == {i \in Inodes : sockets[i].place = "path"}

NewSocket(by) ==
    Append(sockets, [by |-> by, listening |-> TRUE, backlog |-> <<>>, place |-> "path", moved |-> FALSE])

NewWire(i, scope) == [to |-> i, asks |-> scope, sent |-> FALSE, reply |-> None, up |-> TRUE]

NewAttempt == [pc |-> "idle", aborted |-> FALSE, deadline |-> 0, until |-> 0,
               inode |-> 0, before |-> {}, client |-> None, custody |-> None,
               interrupted |-> FALSE, ok |-> FALSE, at |-> 0]

ListenerInit ==
    /\ now = 0 /\ moves = 0
    /\ sockets = <<>>
    /\ service = [o \in ServiceOwners |-> NewAttempt]
    /\ wires = [c \in {} |-> {}]

Of(o) == service[o]

Kind(o) == Asked[o].kind

Disturbs(kind) == kind \in Faults /\ moves < MaxMoves /\ moves' = moves + 1

AttemptBecomes(o, s) == service' = [service EXCEPT ![o] = s]

(***************************************************************************)
(* The grant.                                                              *)
(***************************************************************************)

validRequest(r) == r.kind \in RequestKinds /\ r.role = expectedPeerRole(r.kind)

\* One call of an owner uses it up; its request must be valid and of that kind.
Called(o, kinds) ==
    /\ Of(o).pc = "idle" /\ Kind(o) \in kinds
    /\ AttemptBecomes(o, [Of(o) EXCEPT !.pc = IF validRequest(Asked[o]) THEN "asking" ELSE "ended"])
    /\ UNCHANGED <<now, sockets, moves, wires>>

\* The binding of a carrier must be valid when the owner is called.
BindingIsValid(o) == now < Carrier[o].until

runRecoveryOne(o) == Called(o, {"RECOVERY"})

runSigningOne(o) == Called(o, {"MODULE_AUTHORIZATION_SIGNING"})

runTopologyObservationOne(o) == Called(o, ObservationKinds)

runTopologyCarrierRootLookupOne(o) ==
    BindingIsValid(o) /\ Called(o, {"TOPOLOGY_CARRIER_ROOT_LOOKUP_API_LISTENER"})

\* The worker was made for the carrier it is given.
runTopologyCarrierWorkerOne(o) ==
    /\ BindingIsValid(o) /\ Carrier[o].instance = Carrier[o].worker
    /\ Called(o, {"TOPOLOGY_CARRIER_WORKER_LISTENER"})

runTopologyCarrierWorkerServiceAuthorityApiOne(o) ==
    BindingIsValid(o) /\ Called(o, {"TOPOLOGY_CARRIER_WORKER_SERVICE_AUTHORITY_API_LISTENER"})

\* The grant repeats the request, and names its hash.
sameRequest(o, g) == g.request = Asked[o] /\ g.hash = Asked[o]

\* A carrier's binding must be for the workspace and instance of the grant.
CarrierMatches(o, g) == Kind(o) \in CarrierKinds => Carrier[o].instance = g.request.instance

GrantHolds(o, g) ==
    /\ sameRequest(o, g) /\ g.level = 3
    /\ g.from <= now /\ now < g.until
    /\ g.until - g.from <= MaxLifetime
    /\ ~Of(o).aborted
    /\ CarrierMatches(o, g)

\* The authority answers; nothing bounds the wait for it.
authorizeOne(o, g) ==
    /\ Of(o).pc = "asking"
    /\ AttemptBecomes(o, [Of(o) EXCEPT !.pc = IF GrantHolds(o, g) THEN "granted" ELSE "ended",
                                !.until = g.until])
    /\ UNCHANGED <<now, sockets, moves, wires>>

SmallerOf(a, b) == IF a <= b THEN a ELSE b

\* The timer is set, and the listener is created: bind fails when there is
\* anything at the path.
createOwnedListener(o) ==
    /\ Of(o).pc = "granted"
    /\ IF Of(o).until - now < 1 \/ Of(o).aborted \/ lstat # {}
       THEN AttemptBecomes(o, [Of(o) EXCEPT !.pc = "ended"]) /\ UNCHANGED sockets
       ELSE /\ sockets' = NewSocket(o)
            /\ AttemptBecomes(o, [Of(o) EXCEPT !.pc = "created", !.inode = Len(sockets) + 1,
                                        !.deadline = now + SmallerOf(MaxSession, Of(o).until - now)])
    /\ UNCHANGED <<now, moves, wires>>

(***************************************************************************)
(* One exchange.  A step that finds the signal aborted, or a check that    *)
(* fails, goes on with closing.                                            *)
(***************************************************************************)

\* The order the wrappers of listener and session insist on.
Stages == <<"created", "attested", "observed", "accepted", "identified", "requested", "answered",
            "confirmed", "closing">>

NextStage(pc) == Stages[(CHOOSE n \in 1 .. 8 : Stages[n] = pc) + 1]

Serving == {Stages[n] : n \in 1 .. 8}

\* What an attempt becomes when its step ends; s says what the step changed.
After(o, holds, s) ==
    IF holds /\ ~Of(o).aborted THEN [s EXCEPT !.pc = NextStage(Of(o).pc)]
    ELSE [s EXCEPT !.pc = "closing"]

IsSigning(o) == Kind(o) = "MODULE_AUTHORIZATION_SIGNING"

\* The evidence of the creation is what was authorized, and what lstat finds now.
AuthorizedCreation(o) == lstat = {Of(o).inode}

\* The custody of a signing service is made after that.
OpenCustody(o) ==
    IF IsSigning(o) /\ AuthorizedCreation(o) /\ ~Of(o).aborted THEN "open" ELSE None

attest(o) ==
    /\ Of(o).pc = "created"
    /\ AttemptBecomes(o, After(o, AuthorizedCreation(o), [Of(o) EXCEPT !.custody = OpenCustody(o)]))
    /\ UNCHANGED <<now, sockets, moves, wires>>

CloseResult(closes) == IF closes THEN "closed" ELSE "unknown"

\* The custody was made, but its handler is refused: it is closed within its
\* time, or it is not known to be closed.
refuseCustody(o, closes) ==
    /\ Disturbs("failure")
    /\ Of(o).pc = "created" /\ OpenCustody(o) = "open"
    /\ AttemptBecomes(o, [Of(o) EXCEPT !.pc = "closing", !.custody = CloseResult(closes)])
    /\ UNCHANGED <<now, sockets, wires>>

\* The admission of a carrier compares with the authorized identity at once.
AdmitsEndpoint(o) == Kind(o) \in FrameKinds => lstat = {Of(o).inode}

\* The session keeps what it finds for the handler.
observe(o) ==
    /\ Of(o).pc = "attested"
    /\ AttemptBecomes(o, After(o, lstat # {} /\ AdmitsEndpoint(o), [Of(o) EXCEPT !.before = lstat]))
    /\ UNCHANGED <<now, sockets, moves, wires>>

\* The native operation waits for a connection or for its cancellation, which
\* also closes a connection it had taken.
accept(o) ==
    LET i == Of(o).inode IN
    /\ Of(o).pc = "observed"
    /\ \/ /\ sockets[i].backlog # <<>>
          /\ sockets' = [sockets EXCEPT ![i].backlog = Tail(@)]
          /\ AttemptBecomes(o, After(o, TRUE, [Of(o) EXCEPT !.client = Head(sockets[i].backlog)]))
       \/ /\ Of(o).aborted
          /\ AttemptBecomes(o, After(o, FALSE, Of(o)))
          /\ UNCHANGED sockets
    /\ UNCHANGED <<now, moves, wires>>

\* It also compares the credentials at once.
AdmitsPeer(o) == Kind(o) \in FrameKinds => Of(o).client \in Authorized

\* peerCredentials, and lstat again.
identify(o) ==
    /\ Of(o).pc = "accepted"
    /\ AttemptBecomes(o, After(o, lstat = Of(o).before /\ AdmitsPeer(o), Of(o)))
    /\ UNCHANGED <<now, sockets, moves, wires>>

\* readToEof: until the client has shut down its side, or is gone, or the
\* operation is cancelled.
read(o) ==
    LET w == wires[Of(o).client] IN
    /\ Of(o).pc = "identified"
    /\ w.sent \/ ~w.up \/ (Of(o).aborted /\ Kind(o) \notin FrameKinds)
    /\ AttemptBecomes(o, After(o, w.sent, Of(o)))
    /\ UNCHANGED <<now, sockets, moves, wires>>

\* interruptible: the session of a carrier does not wait for the native read or
\* write it has aborted.
interruptible(o) ==
    /\ Kind(o) \in FrameKinds
    /\ Of(o).pc \in {"identified", "confirmed"} /\ Of(o).aborted
    /\ AttemptBecomes(o, [Of(o) EXCEPT !.pc = "closing", !.interrupted = TRUE])
    /\ UNCHANGED <<now, sockets, moves, wires>>

\* authenticateRetainedNativeSupervisorLocalIpcInboundExchange: the endpoint is
\* the one authorized and so is the peer.
AuthenticInbound(o) ==
    /\ Of(o).before = {Of(o).inode}
    /\ Of(o).client \in Authorized

\* A frame is one canonical JSON text of at most the frame size.
Decodes(o) == wires[Of(o).client].asks # "garbled"

RecoveryAnswers(o) == AuthenticInbound(o) /\ Decodes(o)

\* parseRequest: the request is for the handler's key and hashes to what it says.
SigningAnswers(o) == AuthenticInbound(o) /\ Decodes(o)

\* The observer is asked about the instance of its grant only.
ScopedObserver(o) == wires[Of(o).client].asks = Asked[o].instance

ObservationAnswers(o) == AuthenticInbound(o) /\ Decodes(o) /\ ScopedObserver(o)

\* The binding is still valid when the answer is there.
RootLookupAnswers(o) == AuthenticInbound(o) /\ Decodes(o) /\ BindingIsValid(o)

\* The endpoint of a frame: the session was authenticated when it was admitted.
FrameAnswers(o) == Decodes(o)

Answers(o) ==
    CASE Kind(o) = "RECOVERY" -> RecoveryAnswers(o)
      [] IsSigning(o) -> SigningAnswers(o)
      [] Kind(o) \in ObservationKinds -> ObservationAnswers(o)
      [] Kind(o) \in FrameKinds -> FrameAnswers(o)
      [] OTHER -> RootLookupAnswers(o)

\* mutant: the answer does not wait for the custody to be closed
handleFirst(o, closes) ==
    /\ Of(o).pc = "requested"
    /\ ~IsSigning(o) => closes
    /\ AttemptBecomes(o, After(o, Answers(o), [Of(o) EXCEPT !.custody =
          IF IsSigning(o) THEN CloseResult(closes) ELSE None]))
    /\ UNCHANGED <<now, sockets, moves, wires>>

\* The handler authenticates, decodes, and asks the peer, the observer or the
\* custody, which it closes before it answers, whatever the custody said.
handle(o, closes) ==
    /\ Of(o).pc = "requested"
    /\ ~IsSigning(o) => closes
    /\ AttemptBecomes(o, After(o, closes /\ Answers(o), [Of(o) EXCEPT !.custody =
          IF IsSigning(o) THEN CloseResult(closes) ELSE None]))
    /\ UNCHANGED <<now, sockets, moves, wires>>

\* lstat before the answer, which the session of a carrier leaves out.
confirm(o) ==
    /\ Of(o).pc = "answered"
    /\ AttemptBecomes(o, After(o, lstat = Of(o).before \/ Kind(o) \in FrameKinds, Of(o)))
    /\ UNCHANGED <<now, sockets, moves, wires>>

\* The bytes may have left although the operation is cancelled.
writeAndShutdown(o) ==
    LET c == Of(o).client IN
    /\ Of(o).pc = "confirmed"
    /\ wires' = [wires EXCEPT ![c].reply = IF wires[c].up THEN o ELSE @]
    /\ AttemptBecomes(o, [After(o, TRUE, Of(o)) EXCEPT !.ok = wires[c].up /\ ~Of(o).aborted])
    /\ UNCHANGED <<now, sockets, moves>>

\* A native call, the peer or the custody rejects.
operationFails(o) ==
    /\ Disturbs("failure")
    /\ Of(o).pc \in Serving
    /\ AttemptBecomes(o, [Of(o) EXCEPT !.pc = "closing"])
    /\ UNCHANGED <<now, sockets, wires>>

(***************************************************************************)
(* Closing.  The custody, the connection, the listener and its path, in    *)
(* this order, on every way out.                                           *)
(***************************************************************************)

\* The custody is closed once, and later calls share that result.
closeSession(o, closes) ==
    /\ Of(o).pc = "closing" /\ Kind(o) \notin FrameKinds
    /\ Of(o).custody = "open" \/ closes
    /\ AttemptBecomes(o, [Of(o) EXCEPT !.pc = "closed",
                                !.custody = IF @ = "open" THEN CloseResult(closes) ELSE @,
                                !.ok = @ /\ closes])
    /\ UNCHANGED <<now, sockets, moves, wires>>

\* The addon refuses to close a session whose operation has not settled.
closeFrameSession(o) ==
    /\ Of(o).pc = "closing" /\ Kind(o) \in FrameKinds
    /\ AttemptBecomes(o, [Of(o) EXCEPT !.pc = "closed", !.ok = @ /\ ~Of(o).interrupted])
    /\ UNCHANGED <<now, sockets, moves, wires>>

\* closeAndUnlinkOwned closes the descriptor and looks whether the path still
\* is the socket it made; the addon refuses while it has an open connection.
closeListener(o) ==
    /\ Of(o).pc = "closed"
    /\ IF Of(o).interrupted
       THEN AttemptBecomes(o, [Of(o) EXCEPT !.pc = "removed", !.ok = FALSE]) /\ UNCHANGED sockets
       ELSE /\ sockets' = [sockets EXCEPT ![Of(o).inode].listening = FALSE, ![Of(o).inode].backlog = <<>>]
            /\ AttemptBecomes(o, IF lstat = {Of(o).inode} THEN [Of(o) EXCEPT !.pc = "unlinking"]
                          ELSE [Of(o) EXCEPT !.pc = "removed", !.ok = FALSE])
    /\ UNCHANGED <<now, moves, wires>>

\* unlink is another call: it removes what is there by now.
unlink(o) ==
    /\ Of(o).pc = "unlinking"
    /\ sockets' = [i \in Inodes |->
          IF sockets[i].place = "path" THEN [sockets[i] EXCEPT !.place = "gone"] ELSE sockets[i]]
    /\ AttemptBecomes(o, [Of(o) EXCEPT !.pc = "removed", !.ok = @ /\ lstat # {}])
    /\ UNCHANGED <<now, moves, wires>>

\* runBounded: the exchange counts if it was not aborted and the grant is valid.
endBounded(o) ==
    /\ Of(o).pc = "removed"
    /\ AttemptBecomes(o, [Of(o) EXCEPT !.pc = "ended", !.at = now,
                                !.ok = @ /\ ~Of(o).aborted /\ now < Of(o).until])
    /\ UNCHANGED <<now, sockets, moves, wires>>

\* The garbage collector finds the objects of an interrupted attempt, whose
\* finalizers close what is left and remove the path.
finalizeListener(o) ==
    LET i == Of(o).inode IN
    /\ Of(o).pc = "ended" /\ Of(o).interrupted /\ sockets[i].listening
    /\ sockets' = [sockets EXCEPT ![i].listening = FALSE, ![i].backlog = <<>>,
                                  ![i].place = IF @ = "path" THEN "gone" ELSE @]
    /\ UNCHANGED <<now, moves, service, wires>>

(***************************************************************************)
(* Time, aborts and other processes.                                       *)
(***************************************************************************)

Cancels(o) ==
    /\ Of(o).pc \notin {"idle", "ended"} /\ ~Of(o).aborted
    /\ AttemptBecomes(o, [Of(o) EXCEPT !.aborted = TRUE])
    /\ UNCHANGED <<now, sockets, wires>>

\* The caller's signal.
abortAttempt(o) == Disturbs("signal") /\ Cancels(o)

timerFires(o) == Of(o).deadline > 0 /\ now >= Of(o).deadline /\ Cancels(o) /\ UNCHANGED moves

timeGoesOn ==
    /\ now < Horizon
    /\ now' = now + 1
    /\ UNCHANGED <<sockets, moves, service, wires>>

\* Another process renames a socket away from the path, or back.
rename(i) ==
    /\ Disturbs("path")
    /\ \/ sockets[i].place = "path"
       \/ sockets[i].place = "aside" /\ lstat = {}
    /\ sockets' = [sockets EXCEPT ![i].place = IF @ = "path" THEN "aside" ELSE "path",
                                  ![i].moved = TRUE]
    /\ UNCHANGED <<now, service, wires>>

foreignBinds ==
    /\ Disturbs("path")
    /\ lstat = {}
    /\ sockets' = NewSocket("foreign")
    /\ UNCHANGED <<now, service, wires>>

ServiceStep(o) ==
    \/ createOwnedListener(o) \/ attest(o) \/ observe(o) \/ accept(o) \/ identify(o) \/ read(o)
    \/ handle(o, TRUE) \/ handle(o, FALSE) \/ confirm(o) \/ interruptible(o) \/ writeAndShutdown(o)
    \/ closeSession(o, TRUE) \/ closeSession(o, FALSE) \/ closeFrameSession(o)
    \/ closeListener(o) \/ unlink(o) \/ endBounded(o)

ListenerNext ==
    \/ \E o \in ServiceOwners :
                         \/ runRecoveryOne(o) \/ runSigningOne(o) \/ runTopologyObservationOne(o)
                         \/ runTopologyCarrierRootLookupOne(o) \/ runTopologyCarrierWorkerOne(o)
                         \/ runTopologyCarrierWorkerServiceAuthorityApiOne(o)
                         \/ \E g \in Grants : authorizeOne(o, g)
                         \/ \E closes \in BOOLEAN : refuseCustody(o, closes)
                         \/ finalizeListener(o)
                         \/ ServiceStep(o) \/ operationFails(o) \/ abortAttempt(o) \/ timerFires(o)
    \/ timeGoesOn
    \/ \E i \in Inodes : rename(i)
    \/ foreignBinds

=============================================================================
