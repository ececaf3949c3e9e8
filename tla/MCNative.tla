------------------------------ MODULE MCNative ------------------------------
(***************************************************************************)
(* What goes over a socket or a pipe that may hang, side by side: the      *)
(* initial state chooses a part, and only that part takes steps.           *)
(* "clients" is NativeClient with one attempt of a signing service and two *)
(* clients, one of them not authorized; "owners" has two attempts that     *)
(* follow each other on one path before any time passes; "kinds" has one   *)
(* attempt of one of the topology services, some with a request or a       *)
(* carrier that is not theirs; "listener" and "connection" are             *)
(* NativeOperation for the two addons; "outbox" is DispatchOutbox with a   *)
(* write that hangs and two attempts at its handoff.                       *)
(***************************************************************************)
EXTENDS NativeOperation, NativeClient, TLC

CONSTANTS signing, recovery, worker, observation, lookup1, lookup2, authority, mistaken,
          c1, c2, c3, c4, one, two, x1, x2

VARIABLES part, case, heartbeatAt, prepared, outbox, attempts, tx, writes, lines, reports

outboxVars == <<heartbeatAt, prepared, outbox, attempts, tx, writes, lines, reports>>
all == <<part, case, now, sockets, moves, service, wires, client, callVars, outboxVars>>

Asks(kind, role) == [kind |-> kind, role |-> role, instance |-> one]

MCAsked ==
    signing :> Asks("MODULE_AUTHORIZATION_SIGNING", "WORKER_CLIENT")
    @@ recovery :> Asks("RECOVERY", "WORKER_CLIENT")
    @@ worker :> Asks("TOPOLOGY_CARRIER_WORKER_LISTENER", "API_COORDINATOR")
    @@ observation :> Asks("TOPOLOGY_OBSERVATION_API_LISTENER", "WORKER_CLIENT")
    @@ lookup1 :> Asks("TOPOLOGY_CARRIER_ROOT_LOOKUP_API_LISTENER", "WORKER_CLIENT")
    @@ lookup2 :> Asks("TOPOLOGY_CARRIER_ROOT_LOOKUP_API_LISTENER", "WORKER_CLIENT")
    @@ authority :> Asks("TOPOLOGY_CARRIER_WORKER_SERVICE_AUTHORITY_API_LISTENER", "WORKER_CLIENT")
    @@ mistaken :> Asks("TOPOLOGY_CARRIER_WORKER_LISTENER", "WORKER_CLIENT")

\* Two attempts are given a carrier of another instance.
MCCarrier == [o \in ServiceOwners |->
    [instance |-> IF o \in {lookup2, authority} THEN two ELSE one, worker |-> one, until |-> 1]]

Grant(o, until) == [request |-> MCAsked[o], hash |-> MCAsked[o], level |-> 3, from |-> 0, until |-> until]

MCGrants ==
    {Grant(signing, 1), Grant(recovery, 1)} \cup {Grant(o, 2) : o \in {worker, observation, lookup1, authority}}

MCTransport == c1 :> "SIGNING" @@ c2 :> "OBSERVATION" @@ c3 :> "ROOT_LOOKUP" @@ c4 :> "RECOVERY"

\* NativeOperation itself, with the cfg's Side, is the listener's addon.
ClientCalls == INSTANCE NativeOperation WITH Side <- "client"

Outbox == INSTANCE DispatchOutbox
    WITH Dispatches <- {one}, Attempts <- {x1, x2}, Owners <- {one}, SessionEnd <- 2,
         OutboxTTL <- 2, ClaimTTL <- 1, InsertWithin <- 1, MaxWriteTimeout <- 1, FreshFor <- 2, Horizon <- 2

ASSUME Outbox!TimeAssumption

NoOutbox == /\ heartbeatAt = None /\ prepared = None /\ outbox = None /\ attempts = None
            /\ tx = None /\ writes = None /\ lines = None /\ reports = None

\* The attempts and the clients of a part.
Attempting == CASE part = "clients" -> {signing} [] part = "owners" -> {recovery, worker} [] part = "kinds" -> {case}

Connecting == CASE part = "clients" -> {c1, c2} [] part = "owners" -> {c1} [] part = "kinds" -> {c3, c4}

Init ==
    /\ NativeInit
    /\ \/ /\ part = "kinds" /\ case \in {worker, observation, lookup1, lookup2, authority, mistaken} /\ CallsInit /\ NoOutbox
       \/ part \in {"clients", "owners", "listener"} /\ case = None /\ CallsInit /\ NoOutbox
       \/ part = "connection" /\ case = None /\ ClientCalls!CallsInit /\ NoOutbox
       \/ part = "outbox" /\ case = None /\ Outbox!OutboxInit /\ CallsInit

Native == UNCHANGED <<part, case, callVars, outboxVars>>
Calls == UNCHANGED <<part, case, nativeVars, outboxVars>>
Handoffs == UNCHANGED <<part, case, sockets, moves, service, wires, client, callVars>>

\* What disturbs the attempts of a part, and how often.
Disturbed ==
    moves' # moves =>
      CASE part = "clients" -> moves = 0
        [] part = "owners" -> service' = service /\ client' = client
        [] part = "kinds" -> moves = 0 /\ sockets' = sockets /\ \E o \in ServiceOwners : service'[o].aborted # service[o].aborted

\* An exchange of a part: who takes part, what is asked, and how long it may last.
Exchange ==
    /\ part \in {"clients", "owners", "kinds"} /\ NativeNext /\ Native
    /\ \A o \in ServiceOwners \ Attempting : service'[o] = service[o]
    /\ \A c \in Clients \ Connecting : client'[c] = client[c]
    /\ part # "kinds" => \A c \in DOMAIN wires' : wires'[c].asks = one
    /\ now' <= IF part = "owners" THEN 0 ELSE 1
    /\ Disturbed

Next ==
    \/ Exchange
    \/ part = "listener" /\ CallsNext /\ Calls
    \/ part = "connection" /\ ClientCalls!CallsNext /\ Calls
    \/ part = "outbox" /\ Outbox!OutboxNext /\ Handoffs

TimePasses ==
    \/ part = "clients" /\ now = 0 /\ timeGoesOn /\ UNCHANGED client /\ Native
    \/ part = "outbox" /\ Outbox!timePasses /\ Handoffs

WriteTimesOut(a) ==
    /\ part = "outbox" /\ Handoffs
    /\ \E w \in writes : w.attempt = a /\ Outbox!writeTimesOut(w)

AttemptStep == part = "clients" /\ ServiceStep(signing) /\ UNCHANGED client /\ Native

TimerFires == part = "clients" /\ timerFires(signing) /\ UNCHANGED client /\ Native

WaitsForPeer(k) == ops[k].at = "polling" /\ ~ops[k].marker

CallStep(k) ==
    /\ Calls
    /\ \/ part = "listener" /\ k # "connect" /\ ~WaitsForPeer(k)
          /\ (PoolStep(k) \/ Completion(k))
       \/ part = "connection" /\ k # "accept" /\ ~WaitsForPeer(k)
          /\ (ClientCalls!PoolStep(k) \/ ClientCalls!Completion(k))

CallKinds == {"accept", "connect", "read", "write"}

\* Time goes on, the timers fire, and an attempt's next step is taken when it
\* can be; a pool thread runs on, which poll lets it only when its descriptor
\* is ready or its operation cancelled.  Clients and writes may hang.
Spec ==
    /\ Init /\ [][Next]_all
    /\ WF_all(TimePasses)
    /\ \A a \in {x1, x2} : WF_all(WriteTimesOut(a))
    /\ WF_all(AttemptStep) /\ WF_all(TimerFires)
    /\ \A k \in CallKinds : WF_all(CallStep(k))

-----------------------------------------------------------------------------
(***************************************************************************)
(* Properties.  AnswersAreAuthentic, AttemptsLeaveNothing and, of another  *)
(* run, NoListenerIsStranded are those of NativeClient, DescriptorsAreSafe *)
(* that of NativeOperation.                                                *)
(***************************************************************************)

\* A granted attempt ends although no client ever connects or sends (runBounded);
\* an aborted native operation settles although its peer hangs (abort_operation,
\* wait_descriptor); a handoff whose write never settles ends all the same
\* (BoundedBridgeEgressController: the write races its timer).
WaitsEnd ==
    /\ (part = "clients" /\ service[signing].pc = "granted") ~> (part = "clients" /\ service[signing].pc = "ended")
    /\ \A k \in CallKinds :
        LET Cancelled == part \in {"listener", "connection"} /\ k \in DOMAIN ops /\ ops[k].cancelled
        IN  Cancelled ~> Cancelled /\ ops[k].at = "settled"
    /\ \A a \in {x1, x2} :
        LET Writing == part = "outbox" /\ \E w \in writes : w.attempt = a
        IN  Writing ~> ~Writing

=============================================================================
