---------------------------- MODULE DispatchOutbox ----------------------------
(***************************************************************************)
(* The way of a dispatch frame out of the control plane: its authorization *)
(* in the outbox, the exclusive handoff claims on it, and the bounded      *)
(* egress controller that writes it to a transport                         *)
(* (acp-bridge-admission.service.ts, egress-controller.ts).                *)
(*                                                                         *)
(* A transaction locks the session, the connection, the dispatch, the run  *)
(* and the reservation for its whole length: one is open at a time, and    *)
(* only the clock moves under it.  It checks and reads the clock, and      *)
(* inserts its row later, when the trigger checks again.  The broker's     *)
(* evidence and the capability policy may refuse a call at any time, which *)
(* is the call that is not made.  A frame is the header that its outbox    *)
(* row fixes; keys, digests and payload fields follow from it.  Exact      *)
(* replays write nothing; the replay of a live claim returns the same      *)
(* frame, so a holder may call the controller again and again.             *)
(***************************************************************************)
EXTENDS Naturals, FiniteSets, FiniteSetsExt, Clock

CONSTANTS
    Dispatches,      \* dispatches of one session
    Attempts,        \* ids of handoff attempts
    Owners,          \* principals that claim handoffs, each with its controller
    SessionEnd,      \* expiresAt of the session
    OutboxTTL,       \* 60 seconds
    ClaimTTL,        \* 15 seconds
    InsertWithin,    \* 5 seconds between reading the clock and the insertion
    MaxWriteTimeout, \* MAX_BRIDGE_EGRESS_WRITE_TIMEOUT_MS
    FreshFor         \* 60 seconds of a heartbeat

TimeAssumption ==
    /\ {SessionEnd, OutboxTTL, ClaimTTL, MaxWriteTimeout} \subseteq Nat \ {0}
    /\ {InsertWithin, FreshFor} \subseteq Nat
    /\ None \notin Nat

Frame == [dispatch : Dispatches, sequence : Nat, issuedAt : Nat, expiresAt : Nat]
Attempt == [dispatch : Dispatches, owner : Owners, generation : Nat, claimedAt : Nat,
            expiresAt : Nat, releasedAt : Nat \cup {None}]

VARIABLES
    heartbeatAt, \* lastHeartbeatAt of the connection, while it is HEALTHY
    prepared,    \* dispatches that are PREPARED, as are their runs
    outbox,      \* acp_bridge_dispatch_outbox by dispatch: the frame it authorizes
    attempts,    \* acp_bridge_egress_handoff_attempts, with their releases
    tx,          \* the open transaction, or None
    writes,      \* handoffs in progress: attempt, frame and deadline of the timer
    lines,       \* lines that transports have taken, with their attempt
    reports      \* writes reported as complete: attempt and time

outboxVars == <<now, heartbeatAt, prepared, outbox, attempts, tx, writes, lines, reports>>
durable == <<heartbeatAt, prepared, outbox, attempts>>

Put(map, k, v) == [x \in DOMAIN map \cup {k} |-> IF x = k THEN v ELSE map[x]]

-----------------------------------------------------------------------------
(* Durable checks *)

\* The session, the heartbeat, the dispatch, its run and its reservation, as the
\* service reads them and as the triggers read them again.
AuthorityIsLive(d) ==
    /\ now < SessionEnd
    /\ heartbeatAt # None /\ now <= heartbeatAt + FreshFor
    /\ d \in prepared

OfOutbox(d) == {a \in DOMAIN attempts : attempts[a].dispatch = d}
IsLive(a) == attempts[a].releasedAt = None /\ now < attempts[a].expiresAt

NextSequence == 1 + Max({0} \cup {outbox[d].sequence : d \in DOMAIN outbox})

NextGeneration(d) == 1 + Max({0} \cup {attempts[a].generation : a \in OfOutbox(d)})

-----------------------------------------------------------------------------
(* prepareDispatchAuthorization *)

beginAuthorization(d) ==
    /\ tx = None
    /\ d \notin DOMAIN outbox
    /\ AuthorityIsLive(d)
    /\ tx' = [kind |-> "authorize", at |-> now,
              frame |-> [dispatch |-> d, sequence |-> NextSequence, issuedAt |-> now,
                         expiresAt |-> Min({SessionEnd, now + OutboxTTL})]]
    /\ UNCHANGED <<now, durable, writes, lines, reports>>

\* ventureos_validate_dispatch_outbox_insert
prepareDispatchAuthorization ==
    /\ tx # None /\ tx.kind = "authorize"
    /\ now <= tx.at + InsertWithin
    /\ now < tx.frame.expiresAt
    /\ AuthorityIsLive(tx.frame.dispatch)
    /\ tx.frame.sequence = NextSequence
    /\ outbox' = Put(outbox, tx.frame.dispatch, tx.frame)
    /\ tx' = None
    /\ UNCHANGED <<now, heartbeatAt, prepared, attempts, writes, lines, reports>>

-----------------------------------------------------------------------------
(* claimDispatchEgressHandoff and releaseDispatchEgressHandoff *)

\* mutant: whoever may claim, may claim beside a live attempt of another owner.
NoOtherClaimOfOwner(d, o) == ~ \E a \in OfOutbox(d) : IsLive(a) /\ attempts[a].owner = o

NoLiveClaim(d, o) == ~ \E a \in OfOutbox(d) : IsLive(a)

ClaimExpiry(d) == Min({outbox[d].expiresAt, SessionEnd, now + ClaimTTL})

beginClaim(a, d, o) ==
    /\ tx = None
    /\ a \notin DOMAIN attempts
    /\ d \in DOMAIN outbox
    /\ AuthorityIsLive(d)
    /\ now < outbox[d].expiresAt
    /\ NoLiveClaim(d, o)
    /\ tx' = [kind |-> "claim", at |-> now, id |-> a,
              attempt |-> [dispatch |-> d, owner |-> o, generation |-> NextGeneration(d),
                           claimedAt |-> now, expiresAt |-> ClaimExpiry(d), releasedAt |-> None]]
    /\ UNCHANGED <<now, durable, writes, lines, reports>>

\* ventureos_validate_egress_handoff_insert
claimDispatchEgressHandoff ==
    /\ tx # None /\ tx.kind = "claim"
    /\ LET d == tx.attempt.dispatch
       IN /\ now <= tx.at + InsertWithin
          /\ now < tx.attempt.expiresAt
          /\ AuthorityIsLive(d)
          /\ now < outbox[d].expiresAt
          /\ tx.attempt.generation = NextGeneration(d)
    /\ attempts' = Put(attempts, tx.id, tx.attempt)
    /\ tx' = None
    /\ UNCHANGED <<now, heartbeatAt, prepared, outbox, writes, lines, reports>>

beginRelease(a) ==
    /\ tx = None
    /\ a \in DOMAIN attempts /\ IsLive(a)
    /\ tx' = [kind |-> "release", at |-> now, id |-> a]
    /\ UNCHANGED <<now, durable, writes, lines, reports>>

\* ventureos_validate_egress_handoff_release_insert
releaseDispatchEgressHandoff ==
    /\ tx # None /\ tx.kind = "release"
    /\ now <= tx.at + InsertWithin
    /\ attempts' = [attempts EXCEPT ![tx.id].releasedAt = tx.at]
    /\ tx' = None
    /\ UNCHANGED <<now, heartbeatAt, prepared, outbox, writes, lines, reports>>

\* Signing is denied, a trigger refuses, or the transaction is rolled back.
txFails ==
    /\ tx # None
    /\ tx' = None
    /\ UNCHANGED <<now, durable, writes, lines, reports>>

-----------------------------------------------------------------------------
(* BoundedBridgeEgressController of the attempt's owner *)

\* validateBinding: the frame is the one whose digests the claim carries.
IsBound(a, frame) == frame = outbox[attempts[a].dispatch]

\* The caller passes a claim of its own and a frame it was given for some claim.
handoff(a, frame) ==
    /\ a \in DOMAIN attempts
    /\ IsBound(a, frame)
    /\ now < attempts[a].expiresAt
    /\ ~ \E w \in writes : w.attempt = a
    /\ writes' = writes \cup {[attempt |-> a, frame |-> frame, taken |-> FALSE,
                               deadline |-> Min({attempts[a].expiresAt, now + MaxWriteTimeout})]}
    /\ UNCHANGED <<now, durable, tx, lines, reports>>

\* The transport takes the line; it may do so late, or never answer.
transportTakes(w) ==
    /\ w \in writes /\ ~w.taken
    /\ lines' = lines \cup {[attempt |-> w.attempt, frame |-> w.frame]}
    /\ writes' = (writes \ {w}) \cup {[w EXCEPT !.taken = TRUE]}
    /\ UNCHANGED <<now, durable, tx, reports>>

\* An answer that arrives after the claim has expired is no success.
MayReport(w) == w.taken /\ now < attempts[w.attempt].expiresAt

writeCompletes(w) ==
    /\ w \in writes
    /\ MayReport(w)
    /\ reports' = reports \cup {[attempt |-> w.attempt, at |-> now]}
    /\ writes' = writes \ {w}
    /\ UNCHANGED <<now, durable, tx, lines>>

\* The transport rejects or changed the line, the caller aborts, or the answer
\* came after the claim's expiry.
writeFails(w) ==
    /\ w \in writes
    /\ writes' = writes \ {w}
    /\ UNCHANGED <<now, durable, tx, lines, reports>>

\* The timer of the write, whose signal the transport may notice too late.
writeTimesOut(w) ==
    /\ w \in writes
    /\ now >= w.deadline
    /\ writes' = writes \ {w}
    /\ UNCHANGED <<now, durable, tx, lines, reports>>

-----------------------------------------------------------------------------
(* What happens around them; a change of a locked row waits for the transaction *)

\* The runtime accepts it, or its run ends.
dispatchMoves(d) ==
    /\ tx = None
    /\ d \in prepared
    /\ prepared' = prepared \ {d}
    /\ UNCHANGED <<now, heartbeatAt, outbox, attempts, tx, writes, lines, reports>>

heartbeat(at) ==
    /\ tx = None
    /\ heartbeatAt # at
    /\ heartbeatAt' = at
    /\ UNCHANGED <<now, prepared, outbox, attempts, tx, writes, lines, reports>>

timePasses ==
    /\ now < SessionEnd
    /\ now' = now + 1
    /\ UNCHANGED <<durable, tx, writes, lines, reports>>

OutboxInit ==
    /\ now = 0 /\ heartbeatAt = 0
    /\ prepared = Dispatches
    /\ outbox = [d \in {} |-> None] /\ attempts = [a \in {} |-> None]
    /\ tx = None
    /\ writes = {} /\ lines = {} /\ reports = {}

OutboxNext ==
    \/ \E d \in Dispatches : beginAuthorization(d) \/ dispatchMoves(d)
    \/ \E a \in Attempts, d \in Dispatches, o \in Owners : beginClaim(a, d, o)
    \/ \E a \in Attempts : beginRelease(a)
    \/ prepareDispatchAuthorization \/ claimDispatchEgressHandoff \/ releaseDispatchEgressHandoff
    \/ txFails
    \/ \E a \in Attempts, d \in DOMAIN outbox : handoff(a, outbox[d])
    \/ \E w \in writes : transportTakes(w) \/ writeCompletes(w) \/ writeFails(w) \/ writeTimesOut(w)
    \/ \E at \in {now, None} : heartbeat(at)
    \/ timePasses

OutboxSpec == OutboxInit /\ [][OutboxNext]_outboxVars

-----------------------------------------------------------------------------
(* Properties *)

OutboxTypeOK ==
    /\ now \in 0..SessionEnd
    /\ prepared \subseteq Dispatches
    /\ DOMAIN outbox \subseteq Dispatches /\ DOMAIN attempts \subseteq Attempts
    /\ \A d \in DOMAIN outbox : outbox[d] \in Frame /\ outbox[d].dispatch = d
    /\ \A a \in DOMAIN attempts : attempts[a] \in Attempt /\ attempts[a].dispatch \in DOMAIN outbox
    /\ \A w \in writes : w.attempt \in DOMAIN attempts /\ w.frame \in Frame

\* The frames of a session are numbered 1, 2, ... without a gap or a repetition
\* although preparations expire, fail and are retried, and so are the attempts on
\* one frame (prepareDispatchAuthorization, claimDispatchEgressHandoff).
NumbersAreGapless ==
    /\ {outbox[d].sequence : d \in DOMAIN outbox} = 1..Cardinality(DOMAIN outbox)
    /\ \A d \in DOMAIN outbox :
         {attempts[a].generation : a \in OfOutbox(d)} = 1..Cardinality(OfOutbox(d))

\* Two attempts on one frame never overlap, whoever owns them: the later begins
\* when the earlier was released or has expired (claimDispatchEgressHandoff).
WindowsAreDisjoint == \A a, b \in DOMAIN attempts :
    (/\ attempts[a].dispatch = attempts[b].dispatch
     /\ attempts[a].generation < attempts[b].generation)
    => attempts[b].claimedAt >= (IF attempts[a].releasedAt = None THEN attempts[a].expiresAt
                                                                  ELSE attempts[a].releasedAt)

\* A claim lies within the authorization of its frame, and that within the
\* session, so the controller's one comparison with the claim's expiry covers all
\* three (expiresAt of the outbox row and of the attempt).
AuthorityIsNested == \A a \in DOMAIN attempts :
    LET frame == outbox[attempts[a].dispatch]
    IN /\ frame.dispatch = attempts[a].dispatch
       /\ frame.issuedAt <= attempts[a].claimedAt
       /\ attempts[a].claimedAt < attempts[a].expiresAt
       /\ attempts[a].expiresAt <= frame.expiresAt
       /\ frame.expiresAt <= SessionEnd

\* Every line that any transport takes is the one frame of its claim's dispatch,
\* so that all the copies that retries put on the wire carry the same sequence
\* number and the runtime can drop the later ones (validateBinding).
CopiesAgree == \A l \in lines : l.frame = outbox[attempts[l.attempt].dispatch]

\* Success is reported only within the claim, and never for two claims of one
\* frame at a time unless the earlier had been released by its owner
\* (BoundedBridgeEgressController.handoff).
SuccessIsWithinItsClaim == \A r \in reports :
    /\ attempts[r.attempt].claimedAt <= r.at /\ r.at < attempts[r.attempt].expiresAt
    /\ \A b \in OfOutbox(attempts[r.attempt].dispatch) \ {r.attempt} :
         (/\ attempts[b].claimedAt <= r.at
          /\ r.at < attempts[b].expiresAt
          /\ attempts[b].generation > attempts[r.attempt].generation)
         => attempts[r.attempt].releasedAt # None

\* The frames of a session are numbered without a gap although preparations
\* expire and fail, and all copies of a frame that retries put on the wire are
\* equal (prepareDispatchAuthorization, BoundedBridgeEgressController.handoff).
\* Attempts on one frame never overlap, each lies within the authority of the
\* frame, and success is reported only within the claim it was written under
\* (claimDispatchEgressHandoff).
HandoffsAgree ==
    /\ NumbersAreGapless /\ WindowsAreDisjoint
    /\ AuthorityIsNested /\ CopiesAgree /\ SuccessIsWithinItsClaim
=============================================================================
