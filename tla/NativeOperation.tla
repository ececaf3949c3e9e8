--------------------------- MODULE NativeOperation ---------------------------
(***************************************************************************)
(* The native calls of packages/agent-bridge/native: asynchronous          *)
(* operations on sockets that a pool thread executes while the JavaScript  *)
(* thread may abort their signal, close what they work on or lose it to    *)
(* the garbage collector (linux-retained-native-listener.c and -client.c), *)
(* behind the wrappers that fix the order of calls                         *)
(* (retained-native-supervisor-linux-native-listener-binding.ts and        *)
(* -client-binding.ts).                                                    *)
(*                                                                         *)
(* A callback of the JavaScript thread is one step, and so is what a pool  *)
(* thread does between two system calls.  The peer is whatever makes a     *)
(* descriptor ready.  Frames are counted in small units; what is in them   *)
(* and the identities of sockets are NativeListener's subject.             *)
(***************************************************************************)
EXTENDS Naturals

CONSTANTS
    Side,        \* "listener" or "client": which of the two addons
    MinFrame,    \* the shortest frame
    MaxFrame     \* MAX_FRAME_BYTES

ASSUME FrameAssumption == MinFrame \in Nat /\ MaxFrame \in Nat /\ 1 <= MinFrame /\ MinFrame <= MaxFrame

VARIABLES
    aborted,     \* the AbortSignal of all calls
    listener,    \* the owned listener: descriptor, flags of addon and wrapper
    conn,        \* the accepted session, or the client's connection
    ops          \* the operations by kind; each is queued at most once

callVars == <<aborted, listener, conn, ops>>

Kinds == IF Side = "listener" THEN {"accept", "read", "write"} ELSE {"connect", "read", "write"}

Opening == {"accept", "connect"}

NewOperation == [at |-> "none", cancelled |-> FALSE, marker |-> FALSE, failed |-> FALSE,
                 got |-> "none", length |-> 0, outcome |-> "none"]

NoConnection == [fd |-> "none", phase |-> 0, busy |-> FALSE, held |-> FALSE, state |-> "NONE"]

CallsInit ==
    /\ aborted = FALSE
    /\ listener = [fd |-> IF Side = "listener" THEN "open" ELSE "none", observed |-> FALSE,
                   consumed |-> FALSE, cleaned |-> FALSE, busy |-> FALSE, session |-> FALSE,
                   held |-> TRUE]
    /\ conn = NoConnection
    /\ ops = [k \in Kinds |-> NewOperation]

Becomes(k, op) == ops' = [ops EXCEPT ![k] = op]

Pending(k) == ops[k].at \notin {"none", "settled"}

(***************************************************************************)
(* Queueing and aborting, on the JavaScript thread.                        *)
(***************************************************************************)

\* attach_abort refuses an aborted signal; from then on its event is heard.
queue_operation(k) ==
    /\ ~aborted /\ ops[k].at = "none"
    /\ Becomes(k, [NewOperation EXCEPT !.at = "queued"])

\* mutant: the flag is set and nobody is woken
abort_flag(op) == [op EXCEPT !.cancelled = TRUE]

\* The flag, and a byte in the pipe that poll watches.
abort_operation(op) == [op EXCEPT !.cancelled = TRUE, !.marker = TRUE]

\* The signal is aborted: every attached operation hears of it.
abort ==
    /\ ~aborted
    /\ aborted' = TRUE
    /\ ops' = [k \in Kinds |-> IF Pending(k) THEN abort_operation(ops[k]) ELSE ops[k]]
    /\ UNCHANGED <<listener, conn>>

(***************************************************************************)
(* Executing, on a pool thread.                                            *)
(***************************************************************************)

Executed(k, failed) == [ops[k] EXCEPT !.at = "executed", !.failed = failed]

\* The thread starts, and a connection is attempted at once.
startAccepting ==
    /\ "accept" \in Kinds /\ ops["accept"].at = "queued"
    /\ Becomes("accept", [ops["accept"] EXCEPT !.at = "checking"])
    /\ UNCHANGED <<aborted, listener, conn>>

startTransfer(k) ==
    /\ k \notin Opening /\ ops[k].at = "queued"
    /\ Becomes(k, [ops[k] EXCEPT !.at = "checking"])
    /\ UNCHANGED <<aborted, listener, conn>>

\* socket and connect: connected, in progress, or failed with its descriptor.
startConnecting ==
    /\ "connect" \in Kinds /\ ops["connect"].at = "queued"
    /\ \E at \in {"checking", "executed"}, failed \in BOOLEAN :
        /\ at = "checking" => ~failed
        /\ Becomes("connect", [ops["connect"] EXCEPT !.at = at, !.failed = failed, !.got = "open"])
    /\ UNCHANGED <<aborted, listener, conn>>

\* The flag is looked at before each poll.
wait_descriptor(k) ==
    /\ ops[k].at = "checking"
    /\ Becomes(k, IF ops[k].cancelled THEN Executed(k, TRUE) ELSE [ops[k] EXCEPT !.at = "polling"])
    /\ UNCHANGED <<aborted, listener, conn>>

\* poll returns: cancelled, in error, or ready.
pollReturns(k) ==
    /\ ops[k].at = "polling"
    /\ \/ ops[k].marker /\ Becomes(k, Executed(k, TRUE))
       \/ ~ops[k].marker /\ ~ops[k].cancelled
          /\ \/ Becomes(k, Executed(k, TRUE))
             \/ Becomes(k, [ops[k] EXCEPT !.at = "ready"])
    /\ UNCHANGED <<aborted, listener, conn>>

Again(k) == [ops[k] EXCEPT !.at = "checking"]

\* accept4: a descriptor, another round, or an error.
executeAccept ==
    /\ "accept" \in Kinds /\ ops["accept"].at = "ready"
    /\ \/ Becomes("accept", [Executed("accept", FALSE) EXCEPT !.got = "open"])
       \/ Becomes("accept", Again("accept"))
       \/ Becomes("accept", Executed("accept", TRUE))
    /\ UNCHANGED <<aborted, listener, conn>>

\* SO_ERROR of the connection in progress.
executeConnect ==
    /\ "connect" \in Kinds /\ ops["connect"].at = "ready"
    /\ \E failed \in BOOLEAN : Becomes("connect", Executed("connect", failed))
    /\ UNCHANGED <<aborted, listener, conn>>

\* The end of the stream, or of the buffer: one unit more than a frame.
ReadEnds(op) == [op EXCEPT !.at = "executed",
                           !.failed = op.length < MinFrame \/ op.length > MaxFrame]

\* read: n units, the end, another round, or an error.
executeRead ==
    LET op == ops["read"] IN
    /\ op.at = "ready"
    /\ \/ \E n \in 1 .. MaxFrame + 1 - op.length :
            LET longer == [op EXCEPT !.length = @ + n] IN
            Becomes("read", IF longer.length <= MaxFrame THEN [longer EXCEPT !.at = "checking"]
                            ELSE ReadEnds(longer))
       \/ Becomes("read", ReadEnds(op))
       \/ Becomes("read", Again("read"))
       \/ Becomes("read", Executed("read", TRUE))
    /\ UNCHANGED <<aborted, listener, conn>>

\* send: n units of the longest frame, then shutdown.
executeWrite ==
    LET op == ops["write"] IN
    /\ op.at = "ready"
    /\ \/ \E n \in 1 .. MaxFrame - op.length, failed \in BOOLEAN :
            LET longer == [op EXCEPT !.length = @ + n] IN
            Becomes("write", IF longer.length < MaxFrame THEN [longer EXCEPT !.at = "checking"]
                             ELSE [longer EXCEPT !.at = "executed", !.failed = failed])
       \/ Becomes("write", Again("write"))
       \/ Becomes("write", Executed("write", TRUE))
    /\ UNCHANGED <<aborted, listener, conn>>

(***************************************************************************)
(* Completing, on the JavaScript thread.                                   *)
(***************************************************************************)

\* mutant: an operation that was aborted after its last system call resolves
SucceededAnyway(k, made) == ~ops[k].failed /\ made

\* made: Node-API made the value that the promise resolves to.
Succeeded(k, made) == ~ops[k].failed /\ ~ops[k].cancelled /\ made

\* A descriptor that reaches no object is closed; the signal is heard no more.
Settled(k, made) ==
    [ops[k] EXCEPT !.at = "settled",
                   !.outcome = IF Succeeded(k, made) THEN "resolved" ELSE "rejected",
                   !.got = IF @ = "open" THEN (IF Succeeded(k, made) THEN "passed" ELSE "closed") ELSE @]

NewConnection == [fd |-> "open", phase |-> 0, busy |-> FALSE, held |-> TRUE, state |-> "OPEN"]

\* create_session_value: the session keeps its listener alive.
completeAccept(made) ==
    /\ "accept" \in Kinds /\ ops["accept"].at = "executed"
    /\ Becomes("accept", Settled("accept", made))
    /\ listener' = [listener EXCEPT !.busy = FALSE, !.session = Succeeded("accept", made)]
    /\ conn' = IF Succeeded("accept", made) THEN NewConnection ELSE conn
    /\ UNCHANGED aborted

\* create_connection_value.
completeConnect(made) ==
    /\ "connect" \in Kinds /\ ops["connect"].at = "executed"
    /\ Becomes("connect", Settled("connect", made))
    /\ conn' = IF Succeeded("connect", made) THEN NewConnection ELSE conn
    /\ UNCHANGED <<aborted, listener>>

\* The client's connection moves to its next phase only now.
complete_operation(k, made) ==
    /\ k \notin Opening /\ ops[k].at = "executed"
    /\ Becomes(k, Settled(k, made))
    /\ conn' = [conn EXCEPT !.busy = FALSE,
                            !.phase = IF Side = "client" /\ ~ops[k].failed /\ ~ops[k].cancelled
                                      THEN (IF k = "write" THEN 2 ELSE 3) ELSE @]
    /\ UNCHANGED <<aborted, listener>>

(***************************************************************************)
(* Calls.  The wrapper moves on even when the addon then refuses.          *)
(***************************************************************************)

creationEvidence ==
    /\ listener.fd = "open" /\ ~listener.observed /\ ~listener.cleaned /\ ~aborted
    /\ listener' = [listener EXCEPT !.observed = TRUE]
    /\ UNCHANGED <<aborted, conn, ops>>

acceptAuthorizedUnixSocket ==
    /\ "accept" \in Kinds
    /\ listener.fd = "open" /\ listener.observed /\ ~listener.consumed /\ ~listener.cleaned
    /\ ~listener.busy /\ ~listener.session
    /\ queue_operation("accept")
    /\ listener' = [listener EXCEPT !.consumed = TRUE, !.busy = TRUE]
    /\ UNCHANGED <<aborted, conn>>

connectUnixSocket ==
    /\ "connect" \in Kinds
    /\ queue_operation("connect")
    /\ UNCHANGED <<aborted, listener, conn>>

peerCredentials ==
    /\ conn.state = "OPEN" /\ conn.fd = "open" /\ conn.held /\ ~aborted
    /\ conn' = [conn EXCEPT !.state = "PEER_OBSERVED", !.phase = 1]
    /\ UNCHANGED <<aborted, listener, ops>>

\* The wrapper's order: the session reads and then writes, the connection
\* writes and then reads.
Order == IF Side = "listener" THEN <<"read", "write">> ELSE <<"write", "read">>

StateBefore(k) == IF k = Order[1] THEN "PEER_OBSERVED" ELSE "FIRST_DONE"

StateAfter(k) == IF k = Order[1] THEN "FIRST_DONE" ELSE "SECOND_DONE"

\* Phases of the addon: a session moves on when an operation is queued.
PhaseBefore(k) == IF k = Order[1] THEN 1 ELSE 2

PhaseQueued(k) == IF Side = "client" THEN conn.phase ELSE PhaseBefore(k) + 1

Accepts(k) == conn.fd = "open" /\ conn.phase = PhaseBefore(k) /\ ~conn.busy

\* readToEof or writeAndShutdown.
call(k) ==
    /\ k \notin Opening
    /\ conn.held /\ conn.state = StateBefore(k) /\ ~aborted
    /\ IF Accepts(k)
       THEN /\ queue_operation(k)
            /\ conn' = [conn EXCEPT !.state = StateAfter(k), !.phase = PhaseQueued(k), !.busy = TRUE]
       ELSE /\ conn' = [conn EXCEPT !.state = StateAfter(k)]
            /\ UNCHANGED ops
    /\ UNCHANGED <<aborted, listener>>

\* session_close and connection_close refuse while an operation is active.
MayClose == conn.fd = "open" /\ ~conn.busy

Closed == [conn EXCEPT !.fd = "closed", !.phase = 4]

close ==
    /\ conn.held /\ conn.state \notin {"NONE", "CLOSED"}
    /\ conn' = [(IF MayClose THEN Closed ELSE conn) EXCEPT !.state = "CLOSED"]
    /\ listener' = IF MayClose THEN [listener EXCEPT !.session = FALSE] ELSE listener
    /\ UNCHANGED <<aborted, ops>>

closeAndUnlinkOwned ==
    /\ listener.fd # "none" /\ ~listener.cleaned
    /\ listener' = [listener EXCEPT !.cleaned = TRUE,
                                    !.fd = IF listener.busy \/ listener.session THEN @ ELSE "closed"]
    /\ UNCHANGED <<aborted, conn, ops>>

(***************************************************************************)
(* The garbage collector.                                                  *)
(***************************************************************************)

dropListener ==
    /\ listener.held /\ listener' = [listener EXCEPT !.held = FALSE]
    /\ UNCHANGED <<aborted, conn, ops>>

dropConnection ==
    /\ conn.held /\ conn' = [conn EXCEPT !.held = FALSE]
    /\ UNCHANGED <<aborted, listener, ops>>

\* owner_ref: an operation keeps its object.
finalize_connection ==
    /\ conn.fd = "open" /\ ~conn.held /\ ~Pending("read") /\ ~Pending("write")
    /\ conn' = Closed
    /\ listener' = [listener EXCEPT !.session = FALSE]
    /\ UNCHANGED <<aborted, ops>>

\* listener_ref: so does an open session.
finalize_listener ==
    /\ listener.fd = "open" /\ ~listener.held /\ ~listener.busy /\ ~listener.session
    /\ listener' = [listener EXCEPT !.fd = "closed"]
    /\ UNCHANGED <<aborted, conn, ops>>

PoolStep(k) ==
    \/ wait_descriptor(k) \/ pollReturns(k) \/ startTransfer(k)
    \/ k = "accept" /\ (startAccepting \/ executeAccept)
    \/ k = "connect" /\ (startConnecting \/ executeConnect)
    \/ k = "read" /\ executeRead
    \/ k = "write" /\ executeWrite

Completion(k) ==
    \E made \in BOOLEAN :
        \/ complete_operation(k, made)
        \/ k = "accept" /\ completeAccept(made)
        \/ k = "connect" /\ completeConnect(made)

CallsNext ==
    \/ abort
    \/ \E k \in Kinds : PoolStep(k) \/ Completion(k) \/ call(k)
    \/ creationEvidence \/ acceptAuthorizedUnixSocket \/ connectUnixSocket \/ peerCredentials
    \/ close \/ closeAndUnlinkOwned
    \/ dropListener \/ dropConnection \/ finalize_connection \/ finalize_listener

CallsSpec == CallsInit /\ [][CallsNext]_callVars

-----------------------------------------------------------------------------
(***************************************************************************)
(* Properties.                                                             *)
(***************************************************************************)

Running(k) == ops[k].at \in {"checking", "polling", "ready"}

\* A pool thread never works on a descriptor that was closed or finalized, and
\* never two of them on one descriptor.
DescriptorsAreAlive ==
    /\ "accept" \in DOMAIN ops /\ Running("accept") => listener.fd = "open"
    /\ Running("read") \/ Running("write") => conn.fd = "open"
    /\ ~(Running("read") /\ Running("write"))

\* A descriptor that an operation made belongs to the object it resolved to, or
\* is closed by the time its promise is settled.
NothingIsOrphaned ==
    \A k \in Opening \cap DOMAIN ops : ops[k].at = "settled" =>
        /\ ops[k].got # "open"
        /\ ops[k].got = "passed" <=> ops[k].outcome = "resolved"

\* Only what was not aborted resolves, and with a frame of an allowed length.
ResolvedIsComplete ==
    \A k \in DOMAIN ops : ops[k].outcome = "resolved" =>
        /\ ~ops[k].cancelled
        /\ k = "read" => ops[k].length \in MinFrame .. MaxFrame
        /\ k = "write" => ops[k].length = MaxFrame

\* Threads, callbacks and the garbage collector never leave an operation with a
\* descriptor that is closed, a descriptor with nobody, or an aborted call with
\* a result (linux-retained-native-listener.c, linux-retained-native-client.c).
DescriptorsAreSafe == DescriptorsAreAlive /\ NothingIsOrphaned /\ ResolvedIsComplete

=============================================================================
