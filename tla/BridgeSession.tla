---------------------------- MODULE BridgeSession ----------------------------
(***************************************************************************)
(* The session half of AcpBridgeAdmissionService: runtime connections,     *)
(* authenticated sessions, the receipts of the frames that a runtime sends *)
(* and the dispatches that carry one run each to a session.                *)
(*                                                                         *)
(* Every operation is one serializable transaction that locks the rows it  *)
(* decides on.  A batch of frames is admitted whole or not at all; its     *)
(* transaction reads the database clock when it has its locks (now) and    *)
(* again just before it commits (commitNow).  Signatures, key leases and   *)
(* the formats of references are taken to be valid; a call that throws     *)
(* writes nothing.  All connections here pass assertAdapterIsolation.      *)
(***************************************************************************)
EXTENDS Naturals, Sequences, SequencesExt

CONSTANTS
    Connections,          \* runtime connections, each with its runtime
    Sessions,
    Runs,                 \* a run has at most one dispatch, so it also names it
    Batches,              \* the batches of frames a runtime may send
    MaximumCost,          \* maximumCostMinorUnits of the task of a run
    SessionLifetime,      \* five minutes
    HeartbeatFreshness,   \* sixty seconds
    MaxTime, MaxSequence, \* bounds of the clock and of the frames of a session
    None

BoundAssumption == {MaximumCost, SessionLifetime, HeartbeatFreshness,
                    MaxTime, MaxSequence} \subseteq Nat

SessionStates == {"CHALLENGED", "AUTHENTICATED", "CAPABILITIES_VERIFIED", "PARTIAL"}
DispatchStates == {"PREPARED", "ACCEPTED", "CANCEL_REQUESTED", "CANCELLED", "COMPLETED", "FAILED"}
TerminalStates == {"CANCELLED", "COMPLETED", "FAILED"}
WorkTypes == {"PROGRESS", "ARTIFACT", "USAGE", "RESULT", "FAILED"}
FrameTypes == WorkTypes \cup {"AUTHENTICATE", "CAPABILITIES", "HEARTBEAT", "DISPATCH_ACCEPTED",
                              "CANCELLED"}

ConnectionRecord == [status : {"NOT_CONFIGURED", "PARTIAL", "DEGRADED"},
                     heartbeatAt : Nat \cup {None}, health : {"HEALTHY", "DEGRADED", None}]
SessionRecord == [connection : Connections, state : SessionStates,
                  expectedSequence : Nat, expiresAt : Nat]
DispatchRecord == [session : Sessions, state : DispatchStates]
Receipt == [sequence : Nat, type : FrameTypes, run : Runs \cup {None}, cost : Nat]

VARIABLES
    now,           \* the database clock
    connections,   \* acp_runtime_connections by id
    sessions,      \* acp_bridge_sessions by id
    dispatches,    \* acp_bridge_dispatches by run
    receipts,      \* acp_bridge_receipts by session, in the order of their insertion
    usages,        \* acp_run_usages: the cumulative costs of a run, in order
    runs,          \* status of a run and of its task, as the task/run spine keeps it
    evidence       \* the connection for which the broker's evidence for a run verifies

vars == <<now, connections, sessions, dispatches, receipts, usages, runs, evidence>>

EmptyMap == [x \in {} |-> x]
Put(map, k, v) == [x \in DOMAIN map \cup {k} |-> IF x = k THEN v ELSE map[x]]
Used(u) == IF u = << >> THEN 0 ELSE Last(u)

-----------------------------------------------------------------------------
(* Runtimes, sessions and authentication *)

provisionRuntime(c) ==
    /\ c \notin DOMAIN connections
    /\ connections' = Put(connections, c,
         [status |-> "NOT_CONFIGURED", heartbeatAt |-> None, health |-> None])
    /\ UNCHANGED <<now, sessions, dispatches, receipts, usages, runs, evidence>>

openSession(s, c, expiresAt) ==
    /\ c \in DOMAIN connections
    /\ s \notin DOMAIN sessions
    /\ now < expiresAt /\ expiresAt <= now + SessionLifetime
    /\ sessions' = Put(sessions, s, [connection |-> c, state |-> "CHALLENGED",
                                     expectedSequence |-> 1, expiresAt |-> expiresAt])
    /\ receipts' = Put(receipts, s, << >>)
    /\ UNCHANGED <<now, connections, dispatches, usages, runs, evidence>>

ReceiptOf(frame, sequence) ==
    [sequence |-> sequence, type |-> frame.type,
     run |-> IF "run" \in DOMAIN frame THEN frame.run ELSE None,
     cost |-> IF frame.type = "USAGE" THEN frame.cost ELSE 0]

authenticateSession(s) ==
    /\ s \in DOMAIN sessions
    /\ now < sessions[s].expiresAt
    /\ sessions[s].state = "CHALLENGED"
    /\ sessions[s].expectedSequence = 1
    /\ sessions' = [sessions EXCEPT ![s].state = "AUTHENTICATED", ![s].expectedSequence = 2]
    /\ receipts' = [receipts EXCEPT ![s] = Append(@, ReceiptOf([type |-> "AUTHENTICATE"], 1))]
    /\ UNCHANGED <<now, connections, dispatches, usages, runs, evidence>>

-----------------------------------------------------------------------------
(* applyMessage.  The frames of a batch are applied one after the other to *)
(* what the transaction has seen and written so far:                       *)
(*   b = [id, session, connection, dispatches, usages, ok].                *)

IsFresh(connection, t) ==
    /\ connection.health = "HEALTHY"
    /\ t <= connection.heartbeatAt + HeartbeatFreshness

AcceptsCapabilities(b, frame) == b.session.state = "AUTHENTICATED"

AcceptsHeartbeat(b, frame) ==
    /\ b.session.state \in {"CAPABILITIES_VERIFIED", "PARTIAL"}
    /\ frame.age <= HeartbeatFreshness

AcceptsDispatch(b, frame) ==
    /\ b.session.state = "PARTIAL"
    /\ frame.run \in DOMAIN b.dispatches
    /\ b.dispatches[frame.run] = [session |-> b.id, state |-> "PREPARED"]
    /\ runs[frame.run] = "PREPARED"
    /\ b.connection.status = "PARTIAL"
    /\ IsFresh(b.connection, now)
    /\ evidence[frame.run] = b.session.connection

\* mutant: work is taken from a dispatch whatever its state.
AcceptsWorkAnytime(b, frame) ==
    /\ b.session.state = "PARTIAL"
    /\ frame.run \in DOMAIN b.dispatches
    /\ b.dispatches[frame.run].session = b.id
    /\ runs[frame.run] = "RUNNING"
    /\ frame.type = "USAGE" => Used(b.usages[frame.run]) + frame.cost <= MaximumCost

\* mutant: work that was on its way when the cancellation was requested is taken.
AcceptsWorkDuringCancellation(b, frame) ==
    /\ b.session.state = "PARTIAL"
    /\ frame.run \in DOMAIN b.dispatches
    /\ b.dispatches[frame.run].session = b.id
    /\ b.dispatches[frame.run].state \in
         {"CANCEL_REQUESTED"} \cup (IF frame.type = "CANCELLED" THEN {} ELSE {"ACCEPTED"})
    /\ runs[frame.run] = "RUNNING"
    /\ frame.type = "USAGE" => Used(b.usages[frame.run]) + frame.cost <= MaximumCost

\* The work types and CANCELLED.  A run is RUNNING only under the assignment of
\* its one dispatch, so the comparison of the assignment is that of the status.
AcceptsWork(b, frame) ==
    /\ b.session.state = "PARTIAL"
    /\ frame.run \in DOMAIN b.dispatches
    /\ b.dispatches[frame.run] =
         [session |-> b.id, state |-> IF frame.type = "CANCELLED" THEN "CANCEL_REQUESTED" ELSE "ACCEPTED"]
    /\ runs[frame.run] = "RUNNING"
    /\ frame.type = "USAGE" => Used(b.usages[frame.run]) + frame.cost <= MaximumCost

Accepts(b, frame) ==
    CASE frame.type = "CAPABILITIES" -> AcceptsCapabilities(b, frame)
      [] frame.type = "HEARTBEAT" -> AcceptsHeartbeat(b, frame)
      [] frame.type = "DISPATCH_ACCEPTED" -> AcceptsDispatch(b, frame)
      [] OTHER -> AcceptsWork(b, frame)

RecordHeartbeat(b, frame) ==
    [b EXCEPT !.session.state = "PARTIAL",
              !.connection = [status |-> IF frame.health = "HEALTHY" THEN "PARTIAL" ELSE "DEGRADED",
                              heartbeatAt |-> now, health |-> frame.health]]

\* The state that DISPATCH_ACCEPTED and the terminal frames put a dispatch in.
NextDispatchState(type) ==
    CASE type = "DISPATCH_ACCEPTED" -> "ACCEPTED" [] type = "CANCELLED" -> "CANCELLED"
      [] type = "RESULT" -> "COMPLETED" [] type = "FAILED" -> "FAILED"

Applied(b, frame) ==
    CASE frame.type = "CAPABILITIES" -> [b EXCEPT !.session.state = "CAPABILITIES_VERIFIED"]
      [] frame.type = "HEARTBEAT" -> RecordHeartbeat(b, frame)
      [] frame.type \in {"PROGRESS", "ARTIFACT"} -> b
      [] frame.type = "USAGE" ->
           [b EXCEPT !.usages[frame.run] = Append(@, Used(@) + frame.cost)]
      [] OTHER -> [b EXCEPT !.dispatches[frame.run].state = NextDispatchState(frame.type)]

applyMessage(b, frame) ==
    IF b.ok /\ Accepts(b, frame) THEN Applied(b, frame) ELSE [b EXCEPT !.ok = FALSE]

-----------------------------------------------------------------------------
(* acceptRuntimeEnvelopes *)

IsNextSequence(s, first) == first = sessions[s].expectedSequence

CapabilitiesComeFirst(s, batch) ==
    /\ (sessions[s].state = "AUTHENTICATED") = (batch[1].type = "CAPABILITIES")
    /\ \A i \in 2..Len(batch) : batch[i].type # "CAPABILITIES"

\* The last check of the transaction, on what it is about to commit.
StillValid(b, batch, commitNow) ==
    /\ commitNow < b.session.expiresAt
    /\ \A i \in 1..Len(batch) : batch[i].type = "HEARTBEAT" =>
         (commitNow - now) + batch[i].age <= HeartbeatFreshness
    /\ (\E i \in 1..Len(batch) : batch[i].type = "DISPATCH_ACCEPTED") =>
         IsFresh(b.connection, commitNow)

acceptRuntimeEnvelopes(s, first, batch, commitNow) ==
    /\ s \in DOMAIN sessions
    /\ sessions[s].state # "CHALLENGED"
    /\ now < sessions[s].expiresAt
    /\ IsNextSequence(s, first)
    /\ first + Len(batch) <= MaxSequence + 1
    /\ CapabilitiesComeFirst(s, batch)
    /\ LET c == sessions[s].connection
           begin == [id |-> s, session |-> sessions[s], connection |-> connections[c],
                     dispatches |-> dispatches, usages |-> usages, ok |-> TRUE]
           end == FoldLeft(applyMessage, begin, batch)
       IN /\ end.ok
          /\ StillValid(end, batch, commitNow)
          /\ sessions' = [sessions EXCEPT ![s] = [end.session EXCEPT
                            !.expectedSequence = @ + Len(batch)]]
          /\ connections' = [connections EXCEPT ![c] = end.connection]
          /\ dispatches' = end.dispatches
          /\ usages' = end.usages
    /\ receipts' = [receipts EXCEPT ![s] = @ \o
                      [i \in 1..Len(batch) |-> ReceiptOf(batch[i], first + i - 1)]]
    /\ now' = commitNow
    /\ UNCHANGED <<runs, evidence>>

-----------------------------------------------------------------------------
(* Dispatches *)

prepareDispatch(s, r) ==
    /\ r \notin DOMAIN dispatches
    /\ s \in DOMAIN sessions
    /\ LET connection == connections[sessions[s].connection]
       IN /\ sessions[s].state = "PARTIAL"
          /\ now < sessions[s].expiresAt
          /\ connection.status = "PARTIAL"
          /\ IsFresh(connection, now)
    /\ runs[r] = "PREPARED"
    /\ evidence[r] = sessions[s].connection
    /\ dispatches' = Put(dispatches, r, [session |-> s, state |-> "PREPARED"])
    /\ UNCHANGED <<now, connections, sessions, receipts, usages, runs, evidence>>

requestCancellation(r) ==
    /\ r \in DOMAIN dispatches
    /\ dispatches[r].state = "ACCEPTED"
    /\ runs[r] = "RUNNING"
    /\ dispatches' = [dispatches EXCEPT ![r].state = "CANCEL_REQUESTED"]
    /\ UNCHANGED <<now, connections, sessions, receipts, usages, runs, evidence>>

\* verify, for the evidence with which the spine asks to start a run.
verify(r) ==
    /\ r \in DOMAIN dispatches
    /\ dispatches[r].state = "ACCEPTED"
    /\ runs[r] = "PREPARED"

-----------------------------------------------------------------------------
(* The task/run spine, the broker and time *)

\* reserveAssignment, which asks verify for the evidence of the assignment, and startRun.
runStarts(r) ==
    /\ verify(r)
    /\ runs' = [runs EXCEPT ![r] = "RUNNING"]
    /\ UNCHANGED <<now, connections, sessions, dispatches, receipts, usages, evidence>>

\* The run is completed, fails or is stopped by the spine.
runEnds(r) ==
    /\ runs[r] \in {"PREPARED", "RUNNING"}
    /\ runs' = [runs EXCEPT ![r] = "ENDED"]
    /\ UNCHANGED <<now, connections, sessions, dispatches, receipts, usages, evidence>>

brokerEvidenceChanges(r, c) ==
    /\ evidence[r] # c
    /\ evidence' = [evidence EXCEPT ![r] = c]
    /\ UNCHANGED <<now, connections, sessions, dispatches, receipts, usages, runs>>

timePasses ==
    /\ now < MaxTime
    /\ now' = now + 1
    /\ UNCHANGED <<connections, sessions, dispatches, receipts, usages, runs, evidence>>

Init ==
    /\ now = 0
    /\ connections = EmptyMap /\ sessions = EmptyMap
    /\ dispatches = EmptyMap /\ receipts = EmptyMap
    /\ usages = [r \in Runs |-> << >>]
    /\ runs = [r \in Runs |-> "PREPARED"]
    /\ evidence \in [Runs -> {None}]

Next ==
    \/ \E c \in Connections : provisionRuntime(c)
    \/ \E s \in Sessions, c \in Connections, e \in 1..(MaxTime + SessionLifetime) : openSession(s, c, e)
    \/ \E s \in Sessions : authenticateSession(s)
    \/ \E s \in Sessions, first \in 1..MaxSequence, batch \in Batches, t \in now..MaxTime :
         acceptRuntimeEnvelopes(s, first, batch, t)
    \/ \E s \in Sessions, r \in Runs : prepareDispatch(s, r)
    \/ \E r \in Runs : requestCancellation(r)
    \/ \E r \in Runs : runStarts(r)
    \/ \E r \in Runs : runEnds(r)
    \/ \E r \in Runs, c \in Connections \cup {None} : brokerEvidenceChanges(r, c)
    \/ timePasses

Spec == Init /\ [][Next]_vars

-----------------------------------------------------------------------------
(* Properties *)

TypeOK ==
    /\ now \in 0..MaxTime
    /\ DOMAIN connections \subseteq Connections
    /\ \A c \in DOMAIN connections : connections[c] \in ConnectionRecord
    /\ DOMAIN sessions \subseteq Sessions /\ DOMAIN receipts = DOMAIN sessions
    /\ \A s \in DOMAIN sessions :
         /\ sessions[s] \in SessionRecord
         /\ \A i \in 1..Len(receipts[s]) : receipts[s][i] \in Receipt
    /\ DOMAIN dispatches \subseteq Runs
    /\ \A r \in DOMAIN dispatches : dispatches[r] \in DispatchRecord
    /\ \A r \in Runs : \A i \in 1..Len(usages[r]) : usages[r][i] \in Nat
    /\ runs \in [Runs -> {"PREPARED", "RUNNING", "ENDED"}]
    /\ evidence \in [Runs -> Connections \cup {None}]

\* The receipts of a session are its frames 1, 2, 3, ... without a gap or a
\* replay (acceptRuntimeEnvelopes, authenticateSession): authentication first,
\* the capabilities second, and no other frame of either kind.
ReceiptsAreGapless == \A s \in DOMAIN sessions :
    /\ Len(receipts[s]) = sessions[s].expectedSequence - 1
    /\ \A i \in 1..Len(receipts[s]) :
         /\ receipts[s][i].sequence = i
         /\ (receipts[s][i].type = "AUTHENTICATE") = (i = 1)
         /\ (receipts[s][i].type = "CAPABILITIES") = (i = 2)

\* Work was only admitted between its acceptance and its end, and all of it in
\* the session that the dispatch is bound to (applyMessage): a frame for a run
\* comes after one DISPATCH_ACCEPTED of the run in the same session, and none
\* comes after its RESULT, FAILED or CANCELLED.
WorkIsBetweenAcceptanceAndEnd == \A s \in DOMAIN sessions : \A i \in 1..Len(receipts[s]) :
    LET frame == receipts[s][i]
        Of(j, types) == receipts[s][j].run = frame.run /\ receipts[s][j].type \in types
    IN frame.run # None =>
         /\ dispatches[frame.run].session = s
         /\ frame.type # "DISPATCH_ACCEPTED" => \E j \in 1..(i - 1) : Of(j, {"DISPATCH_ACCEPTED"})
         /\ frame.type = "DISPATCH_ACCEPTED" => ~ \E j \in 1..(i - 1) : Of(j, FrameTypes)
         /\ ~ \E j \in 1..(i - 1) : Of(j, {"RESULT", "FAILED", "CANCELLED"})

\* The last frame about a dispatch and its state agree, and the run spine saw
\* no start before the runtime's acceptance (prepareDispatch, applyMessage,
\* requestCancellation, verify).
DispatchStateMatchesReceipts == \A r \in Runs :
    LET Has(type) == r \in DOMAIN dispatches /\
            LET s == dispatches[r].session
            IN \E i \in 1..Len(receipts[s]) : receipts[s][i].run = r /\ receipts[s][i].type = type
    IN /\ runs[r] = "RUNNING" => Has("DISPATCH_ACCEPTED")
       /\ r \in DOMAIN dispatches =>
            /\ (dispatches[r].state # "PREPARED") = Has("DISPATCH_ACCEPTED")
            /\ (dispatches[r].state = "COMPLETED") = Has("RESULT")
            /\ (dispatches[r].state = "FAILED") = Has("FAILED")
            /\ (dispatches[r].state = "CANCELLED") = Has("CANCELLED")

\* The cumulative usage that the rows of acp_run_usages carry is the sum of the
\* usage frames of the run's dispatch, and stays within the task's maximum.
UsageAddsUp == \A r \in DOMAIN dispatches :
    LET Add(sum, frame) == IF frame.run = r THEN sum + frame.cost ELSE sum
    IN /\ Used(usages[r]) = FoldLeft(Add, 0, receipts[dispatches[r].session])
       /\ Used(usages[r]) <= MaximumCost

\* A dispatch becomes ACCEPTED only in a live session whose connection, as it is
\* when the transaction commits, reported itself healthy at most sixty seconds
\* ago: the batch may itself carry a later heartbeat, or wait for its locks.
AcceptsOnFreshHealth ==
    \A r \in DOMAIN dispatches :
      (dispatches[r].state # "ACCEPTED" /\ dispatches'[r].state = "ACCEPTED") =>
         LET s == dispatches[r].session
         IN /\ now' < sessions[s].expiresAt
            /\ IsFresh(connections'[sessions[s].connection], now')

\* Once a cancellation is requested nothing but its confirmation is taken for
\* the dispatch: a result, a failure or more usage that was already on its way
\* is refused, and a dispatch that has ended never changes again.
CancellationComesFirst ==
    \A r \in DOMAIN dispatches :
      /\ dispatches[r].state = "CANCEL_REQUESTED" =>
           /\ dispatches'[r].state \in {"CANCEL_REQUESTED", "CANCELLED"}
           /\ usages'[r] = usages[r]
      /\ dispatches[r].state \in TerminalStates =>
           dispatches'[r] = dispatches[r] /\ usages'[r] = usages[r]
=============================================================================
