---------------------------- MODULE NativeClient ----------------------------
(***************************************************************************)
(* The client side of the retained native supervisor in                    *)
(* packages/agent-bridge: one exchange of a request for a response over    *)
(* the socket of NativeListener (retained-native-supervisor-linux-         *)
(* client.ts, its native binding and native/linux-retained-native-         *)
(* client.c), and what the transport accepts as its result (-local-ipc.ts).*)
(*                                                                         *)
(* The authorization of a client names the inode of a listener and the     *)
(* process that made it.  What happens between two native operations is    *)
(* one step; close may be called during an operation.                      *)
(***************************************************************************)
EXTENDS NativeListener

CONSTANT Transport    \* what each client is used by

VARIABLE client

\* The transport of a root lookup has the binding of its carrier.
TransportIsValid(c, i) == Transport[c] = "ROOT_LOOKUP" => now < Carrier[sockets[i].by].until

nativeVars == <<listenerVars, client>>

NewClient == [pc |-> "idle", auth |-> 0, before |-> {}, fd |-> "none", active |-> FALSE,
              closed |-> FALSE, ok |-> FALSE]

NativeInit == ListenerInit /\ client = [c \in Clients |-> NewClient]

ClientBecomes(c, s) == client' = [client EXCEPT ![c] = s]

\* A step that finds the client closed, or a check that fails, ends in finally.
ClientAfter(c, holds, s) ==
    IF holds /\ ~client[c].closed THEN s ELSE [s EXCEPT !.pc = "finally"]

\* exchange: the socket at the path before anything is sent.
lookup(c, i) ==
    /\ client[c].pc = "idle"
    /\ i \in Inodes /\ sockets[i].by \in ServiceOwners /\ TransportIsValid(c, i)
    /\ ClientBecomes(c, ClientAfter(c, lstat # {},
           [client[c] EXCEPT !.pc = "looked", !.auth = i, !.before = lstat]))
    /\ UNCHANGED listenerVars

\* The connection goes to whatever listens at the path by now; its credentials
\* are read and its request is being written.
connect(c, scope) ==
    LET listening == {i \in lstat : sockets[i].listening} IN
    /\ client[c].pc = "looked"
    /\ IF listening = {}
       THEN ClientBecomes(c, [client[c] EXCEPT !.pc = "finally"]) /\ UNCHANGED <<sockets, wires>>
       ELSE \E i \in listening :
            /\ wires' = [x \in DOMAIN wires \cup {c} |-> IF x = c THEN NewWire(i, scope) ELSE wires[x]]
            /\ sockets' = [sockets EXCEPT ![i].backlog = IF sockets[i].by \in ServiceOwners THEN Append(@, c) ELSE @]
            /\ ClientBecomes(c, ClientAfter(c, TRUE,
                   [client[c] EXCEPT !.pc = "writing", !.fd = "open", !.active = TRUE]))
    /\ UNCHANGED <<now, moves, service>>

writeEnds(c) ==
    /\ client[c].pc = "writing"
    /\ wires' = [wires EXCEPT ![c].sent = TRUE]
    /\ ClientBecomes(c, ClientAfter(c, TRUE, [client[c] EXCEPT !.pc = "reading"]))
    /\ UNCHANGED <<now, sockets, moves, service>>

\* The owner has closed the connection, or its listener before taking it.
IsHungUp(c) ==
    LET i == wires[c].to
        o == sockets[i].by
    IN
    /\ o \in ServiceOwners
    /\ IF service[o].client = c /\ ~service[o].interrupted
       THEN service[o].pc \notin Serving \cup {"closing"}
       ELSE ~sockets[i].listening

readEnds(c) ==
    /\ client[c].pc = "reading"
    /\ wires[c].reply # None \/ IsHungUp(c)
    /\ ClientBecomes(c, ClientAfter(c, wires[c].reply # None, [client[c] EXCEPT !.pc = "received"]))
    /\ UNCHANGED listenerVars

\* mutant: the credentials of the peer are not compared
AuthenticPath(c) == client[c].before = {client[c].auth} /\ lstat = client[c].before

\* lstat again, then authenticateRetainedNativeSupervisorLocalIpcClientExchange:
\* both endpoints and the peer are the ones authorized.
AuthenticExchange(c) ==
    /\ lstat = client[c].before
    /\ client[c].before = {client[c].auth}
    /\ sockets[wires[c].to].by = sockets[client[c].auth].by

\* A transport accepts the result of its exchange when it is authentic, and a
\* root lookup when its binding is still valid.
TransportAccepts(c) == AuthenticExchange(c) /\ TransportIsValid(c, client[c].auth)

receive(c) ==
    /\ client[c].pc = "received"
    /\ ClientBecomes(c, ClientAfter(c, TRUE,
           [client[c] EXCEPT !.pc = "finally", !.ok = TransportAccepts(c) /\ ~client[c].closed]))
    /\ UNCHANGED listenerVars

\* The signal is aborted, or a native operation fails.
exchangeFails(c) ==
    /\ Disturbs("failure")
    /\ client[c].pc \in {"looked", "writing", "reading", "received"}
    /\ ClientBecomes(c, [client[c] EXCEPT !.pc = "finally"])
    /\ UNCHANGED <<now, sockets, service, wires>>

Down(c) == [wires EXCEPT ![c].up = FALSE]

\* closeConnection closes the connection unless close has tried before.
finally(c) ==
    /\ client[c].pc = "finally"
    /\ ClientBecomes(c, [client[c] EXCEPT !.pc = "ended", !.active = FALSE,
                                          !.fd = IF client[c].active THEN "closed" ELSE @])
    /\ wires' = IF client[c].active THEN Down(c) ELSE wires
    /\ UNCHANGED <<now, sockets, moves, service>>

\* During a native operation connection_close refuses, the wrapper is CLOSED all
\* the same and the connection is forgotten.
CloseOf(c) ==
    LET s == client[c]
        refused == s.pc \in {"writing", "reading"}
    IN
    /\ ~s.closed
    /\ ClientBecomes(c, [s EXCEPT !.closed = TRUE, !.active = FALSE,
                                  !.fd = IF s.active /\ ~refused THEN "closed" ELSE @])
    /\ wires' = IF s.active /\ ~refused THEN Down(c) ELSE wires
    /\ UNCHANGED <<now, sockets, service>>

\* The transport for signing, or for a root lookup, is closed by its user once
\* the exchange has begun.
closeTransport(c) ==
    /\ Transport[c] \in {"SIGNING", "ROOT_LOOKUP"} /\ client[c].pc # "idle"
    /\ Disturbs("close") /\ CloseOf(c)

\* The transport for an observation closes its client when its time is over.
interrupt(c) ==
    /\ Transport[c] = "OBSERVATION" /\ client[c].pc # "idle"
    /\ Disturbs("close") /\ CloseOf(c)

\* A process that is not an owner answers those who connect to it.
foreignReplies(c) ==
    /\ c \in DOMAIN wires /\ wires[c].sent /\ wires[c].reply = None
    /\ sockets[wires[c].to].by = "foreign"
    /\ wires' = [wires EXCEPT ![c].reply = "foreign"]
    /\ UNCHANGED <<now, sockets, moves, service, client>>

NativeNext ==
    \/ ListenerNext /\ UNCHANGED client
    \/ \E c \in Clients :
        \/ \E i \in Inodes : lookup(c, i)
        \/ \E scope \in Scopes : connect(c, scope)
        \/ writeEnds(c) \/ readEnds(c) \/ receive(c)
        \/ exchangeFails(c) \/ finally(c) \/ closeTransport(c) \/ interrupt(c) \/ foreignReplies(c)

NativeSpec == NativeInit /\ [][NativeNext]_nativeVars

-----------------------------------------------------------------------------
(***************************************************************************)
(* Properties.                                                             *)
(***************************************************************************)

\* Every variable keeps its type; at most one socket is at the path.
NativeTypes ==
    /\ now \in 0 .. Horizon /\ moves \in 0 .. MaxMoves
    /\ Cardinality(lstat) <= 1
    /\ \A o \in ServiceOwners : service[o].inode \in {0} \cup Inodes
    /\ \A c \in DOMAIN wires : wires[c].reply \in ServiceOwners \cup {None, "foreign"}

\* An attempt answers at most one client, whose credentials were authorized and
\* which sent its request over the socket that attempt made, whoever else
\* connects and whatever is bound at the path meanwhile; it answers about its
\* own instance, and for the carrier of that instance.
AnswersAreAuthorized ==
    \A c \in DOMAIN wires : wires[c].reply \in ServiceOwners =>
        LET o == wires[c].reply IN
        /\ c \in Authorized /\ wires[c].sent
        /\ wires[c].to = service[o].inode
        /\ \A d \in DOMAIN wires : wires[d].reply = o => d = c
        /\ Kind(o) \in ObservationKinds => wires[c].asks = Asked[o].instance
        /\ Kind(o) \in CarrierKinds => Carrier[o].instance = Asked[o].instance

\* A signature leaves a signing service only when the custody that made it is
\* closed.
SignaturesFollowClosing ==
    \A c \in DOMAIN wires :
        wires[c].reply \in ServiceOwners /\ IsSigning(wires[c].reply) => service[wires[c].reply].custody = "closed"

\* A client takes an answer only from the process it was authorized for.
AnswersAreExpected ==
    \A c \in Clients : client[c].ok =>
        wires[c].reply = sockets[client[c].auth].by /\ wires[c].reply \in ServiceOwners

\* An attempt that reports success answered a request before its grant ended,
\* and leaves neither its socket nor an open custody behind.
SuccessIsComplete ==
    \A o \in ServiceOwners : service[o].pc = "ended" /\ service[o].ok =>
        /\ service[o].at < service[o].until
        /\ \E c \in DOMAIN wires : wires[c].reply = o
        /\ service[o].custody \in {None, "closed"}
        /\ ~sockets[service[o].inode].listening

\* Nothing attempt o made listens, and its socket is at the path no longer,
\* unless another process moved it.
IsRemoved(o) ==
    /\ ~sockets[service[o].inode].listening
    /\ lstat = {service[o].inode} => sockets[service[o].inode].moved

\* However an attempt ends its socket is removed, except a carrier's that was
\* interrupted in a native operation.
SocketsAreRemoved ==
    \A o \in ServiceOwners : service[o].pc = "ended" /\ service[o].inode # 0 =>
        IsRemoved(o) \/ service[o].interrupted

\* An attempt answers one client, the authorized one, over the socket it made,
\* about the instance and the carrier it was granted for,
\* and a client takes an answer only from the process it was authorized for,
\* whatever other processes put at the path (local-ipc.ts, linux-session.ts,
\* linux-client.ts).
AnswersAreAuthentic == NativeTypes /\ AnswersAreAuthorized /\ AnswersAreExpected

\* However an attempt ends, its listener is closed and its path is free, unless a
\* carrier's was interrupted in a native call; one that reports success did so
\* within its grant, and a signature leaves only when its custody is closed
\* (listener-lifecycle.ts, signing-handler.ts, service-owner.ts runBounded).
AttemptsLeaveNothing == SocketsAreRemoved /\ SuccessIsComplete /\ SignaturesFollowClosing

\* An attempt that has ended, cancelled or not, left no listener behind
\* (listener-lifecycle.ts runWithOwnedListener: cleanup runs from finally).
NoListenerIsStranded ==
    \A o \in ServiceOwners : service[o].pc = "ended" /\ service[o].inode # 0 => IsRemoved(o)

=============================================================================
