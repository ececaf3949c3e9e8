--------------------------- MODULE TransportProofs ---------------------------
(***************************************************************************)
(* The way out of the bridge: HandoffsAgree of DispatchOutbox for every    *)
(* number of dispatches, attempts and owners and for every choice of the   *)
(* lifetimes, and DescriptorsAreSafe of NativeOperation for both addons    *)
(* and every length of a frame; AnswersAreAuthentic and                    *)
(* AttemptsLeaveNothing of NativeClient for every number of attempts and   *)
(* clients; and MembershipHolds of Membership, for the people whose        *)
(* sessions stand behind it.                                               *)
(*                                                                         *)
(* What the checks at the beginning of a transaction found is still true   *)
(* when its row is inserted, because the row locks keep every other        *)
(* transaction out: that is TxIsSound, and with it the numbers, the        *)
(* windows and the nesting are inductive.  A native operation is busy on   *)
(* its object from its queueing to its promise, and what is busy is        *)
(* neither closed nor collected.  What a request of a member has read is   *)
(* still true when it commits, because of its advisory locks: that is      *)
(* RequestIsSound.                                                         *)
(***************************************************************************)
EXTENDS DispatchOutbox, NativeOperation, Membership, NativeClient, FiniteSetTheorems, TLAPS

Write == [attempt : Attempts, frame : Frame, taken : BOOLEAN, deadline : Nat]

\* The instant from which an attempt is in nobody's way.
EndOf(a) == IF attempts[a].releasedAt = None THEN attempts[a].expiresAt ELSE attempts[a].releasedAt

\* The tables.
Shape ==
    /\ now \in 0 .. SessionEnd
    /\ prepared \subseteq Dispatches
    /\ DOMAIN outbox \subseteq Dispatches /\ IsFiniteSet(DOMAIN outbox)
    /\ DOMAIN attempts \subseteq Attempts /\ IsFiniteSet(DOMAIN attempts)
    /\ \A d \in DOMAIN outbox : outbox[d] \in Frame /\ outbox[d].dispatch = d
    /\ \A a \in DOMAIN attempts : attempts[a] \in Attempt /\ attempts[a].dispatch \in DOMAIN outbox

\* No row is from the future.
PastOnly ==
    /\ \A d \in DOMAIN outbox : outbox[d].issuedAt <= now /\ outbox[d].expiresAt <= SessionEnd
    /\ \A a \in DOMAIN attempts :
         attempts[a].claimedAt <= now /\ (attempts[a].releasedAt # None => attempts[a].releasedAt <= now)

\* What an open transaction has found holds until it ends.
AuthorizeIsSound ==
    /\ tx.frame \in Frame
    /\ tx.frame.dispatch \in Dispatches \ DOMAIN outbox
    /\ tx.frame.issuedAt = tx.at
    /\ tx.frame.expiresAt <= SessionEnd

ClaimIsSound ==
    /\ tx.id \in Attempts \ DOMAIN attempts
    /\ tx.attempt \in Attempt
    /\ tx.attempt.dispatch \in DOMAIN outbox
    /\ tx.attempt.claimedAt = tx.at
    /\ tx.attempt.releasedAt = None
    /\ tx.attempt.expiresAt <= outbox[tx.attempt.dispatch].expiresAt
    /\ outbox[tx.attempt.dispatch].issuedAt <= tx.at
    /\ \A a \in OfOutbox(tx.attempt.dispatch) : EndOf(a) <= tx.at

ReleaseIsSound ==
    /\ tx.id \in DOMAIN attempts
    /\ attempts[tx.id].releasedAt = None
    /\ tx.at < attempts[tx.id].expiresAt

TxIsSound ==
    tx # None =>
        /\ tx.at \in Nat /\ tx.at <= now
        /\ tx.kind = "authorize" => AuthorizeIsSound
        /\ tx.kind = "claim" => ClaimIsSound
        /\ tx.kind = "release" => ReleaseIsSound

\* What is written, taken and reported belongs to a claim and carries its frame.
WriteIsBound(w) == w \in Write /\ w.attempt \in DOMAIN attempts /\ w.frame = outbox[attempts[w.attempt].dispatch]
LineIsBound(l) == l.attempt \in DOMAIN attempts /\ l.frame = outbox[attempts[l.attempt].dispatch]
ReportIsTimely(r) ==
    /\ r.attempt \in DOMAIN attempts
    /\ r.at \in Nat
    /\ attempts[r.attempt].claimedAt <= r.at
    /\ r.at < attempts[r.attempt].expiresAt

Outputs ==
    /\ \A w \in writes : WriteIsBound(w)
    /\ \A l \in lines : LineIsBound(l)
    /\ \A r \in reports : ReportIsTimely(r)

Safety ==
    /\ Shape /\ PastOnly /\ TxIsSound /\ Outputs
    /\ NumbersAreGapless /\ WindowsAreDisjoint /\ AuthorityIsNested

-----------------------------------------------------------------------------
(* Operators *)

\* The largest number given so far, when the numbers are gapless.
LEMMA MaxOfNumbers ==
    ASSUME NEW n \in Nat
    PROVE  Max({0} \cup 1 .. n) = n
  <1>1. n \in {0} \cup 1 .. n /\ \A y \in {0} \cup 1 .. n : n >= y
    OBVIOUS
  <1>2. \A m \in {0} \cup 1 .. n : (\A y \in {0} \cup 1 .. n : m >= y) => m = n
    OBVIOUS
  <1> QED BY <1>1, <1>2 DEF Max

\* The smallest of a set of natural numbers that has one.
LEMMA MinOfSet ==
    ASSUME NEW S, S \subseteq Nat, NEW m \in S, \A y \in S : m <= y
    PROVE  Min(S) \in S /\ \A y \in S : Min(S) <= y
  BY DEF Min

LEMMA MinOfTwo ==
    ASSUME NEW a \in Nat, NEW b \in Nat
    PROVE  Min({a, b}) \in Nat /\ Min({a, b}) <= a /\ Min({a, b}) <= b
  <1> DEFINE m == IF a <= b THEN a ELSE b
  <1>1. {a, b} \subseteq Nat /\ m \in {a, b} /\ \A y \in {a, b} : m <= y
    OBVIOUS
  <1> HIDE DEF m
  <1>2. Min({a, b}) \in {a, b} /\ \A y \in {a, b} : Min({a, b}) <= y
    BY <1>1, MinOfSet
  <1> QED BY <1>2

LEMMA MinOfThree ==
    ASSUME NEW a \in Nat, NEW b \in Nat, NEW c \in Nat
    PROVE  Min({a, b, c}) \in Nat /\ Min({a, b, c}) <= a /\ Min({a, b, c}) <= b
  <1> DEFINE m == IF a <= b THEN (IF a <= c THEN a ELSE c) ELSE (IF b <= c THEN b ELSE c)
  <1>1. {a, b, c} \subseteq Nat /\ m \in {a, b, c} /\ \A y \in {a, b, c} : m <= y
    OBVIOUS
  <1> HIDE DEF m
  <1>2. Min({a, b, c}) \in {a, b, c} /\ \A y \in {a, b, c} : Min({a, b, c}) <= y
    BY <1>1, MinOfSet
  <1> QED BY <1>2

\* A finite set and one element more: its numbers go on without a gap.
LEMMA OneMore ==
    ASSUME NEW S, IsFiniteSet(S), NEW x, x \notin S, NEW T, T = S \cup {x}
    PROVE  /\ IsFiniteSet(T)
           /\ Cardinality(S) \in Nat
           /\ Cardinality(T) = Cardinality(S) + 1
           /\ 1 .. Cardinality(T) = (1 .. Cardinality(S)) \cup {Cardinality(S) + 1}
  <1>1. Cardinality(S) \in Nat
    BY FS_CardinalityType
  <1>2. IsFiniteSet(S \cup {x}) /\ Cardinality(S \cup {x}) = Cardinality(S) + 1
    BY FS_AddElement
  <1>3. IsFiniteSet(T) /\ Cardinality(T) = Cardinality(S) + 1
    BY <1>2, Zenon
  <1>4. \A n \in Nat : 1 .. (n + 1) = (1 .. n) \cup {n + 1}
    OBVIOUS
  <1>5. 1 .. Cardinality(T) = (1 .. Cardinality(S)) \cup {Cardinality(S) + 1}
    BY <1>1, <1>3, <1>4, Zenon
  <1> QED BY <1>1, <1>3, <1>5

\* The attempts on one frame are finitely many.
LEMMA OfOutboxFinite ==
    ASSUME Shape, NEW d
    PROVE  IsFiniteSet(OfOutbox(d)) /\ Cardinality(OfOutbox(d)) \in Nat
  <1>1. OfOutbox(d) \subseteq DOMAIN attempts
    BY DEF OfOutbox
  <1>2. IsFiniteSet(OfOutbox(d))
    BY <1>1, FS_Subset DEF Shape
  <1> QED BY <1>2, FS_CardinalityType

\* The next numbers.
LEMMA NextNumbers ==
    ASSUME Safety
    PROVE  /\ NextSequence = Cardinality(DOMAIN outbox) + 1
           /\ \A d \in DOMAIN outbox : NextGeneration(d) = Cardinality(OfOutbox(d)) + 1
  <1>1. Cardinality(DOMAIN outbox) \in Nat
    BY FS_CardinalityType DEF Safety, Shape
  <1>2. NextSequence = Cardinality(DOMAIN outbox) + 1
    BY <1>1, MaxOfNumbers DEF NextSequence, Safety, NumbersAreGapless
  <1>3. ASSUME NEW d \in DOMAIN outbox PROVE NextGeneration(d) = Cardinality(OfOutbox(d)) + 1
    <2>1. Cardinality(OfOutbox(d)) \in Nat
      BY OfOutboxFinite DEF Safety
    <2> QED BY <2>1, <1>3, MaxOfNumbers DEF NextGeneration, Safety, NumbersAreGapless
  <1> QED BY <1>2, <1>3

-----------------------------------------------------------------------------
(* Steps that write no row *)

\* The tables stay, and the clock does not go back.
TablesStay ==
    /\ outbox' = outbox /\ attempts' = attempts /\ prepared' \subseteq Dispatches
    /\ now' \in 0 .. SessionEnd /\ now <= now'

LEMMA TablesStayKeeps ==
    ASSUME TimeAssumption, Safety, TablesStay
    PROVE  /\ Shape' /\ PastOnly'
           /\ NumbersAreGapless' /\ WindowsAreDisjoint' /\ AuthorityIsNested'
  <1>1. Shape'
    BY DEF Safety, Shape, TablesStay
  <1>2. PastOnly'
    <2>1. now \in Nat /\ now' \in Nat /\ now <= now'
      BY DEF Safety, Shape, TablesStay, TimeAssumption
    <2>2. \A d \in DOMAIN outbox : outbox[d].issuedAt \in Nat
      BY DEF Safety, Shape, Frame
    <2>3. \A a \in DOMAIN attempts : attempts[a].claimedAt \in Nat /\ attempts[a].releasedAt \in Nat \cup {None}
      BY DEF Safety, Shape, Attempt
    <2> QED BY <2>1, <2>2, <2>3 DEF Safety, PastOnly, TablesStay
  <1>3. NumbersAreGapless'
    <2>1. \A d : OfOutbox(d)' = OfOutbox(d)
      BY DEF OfOutbox, TablesStay
    <2>2. outbox' = outbox /\ attempts' = attempts
      BY DEF TablesStay
    <2> QED BY <2>1, <2>2 DEF Safety, NumbersAreGapless
  <1>4. WindowsAreDisjoint' /\ AuthorityIsNested'
    BY DEF Safety, WindowsAreDisjoint, AuthorityIsNested, TablesStay
  <1> QED BY <1>1, <1>2, <1>3, <1>4

LEMMA TxStays ==
    ASSUME TimeAssumption, Safety, TablesStay, tx' = tx
    PROVE  TxIsSound'
  <1>1. now \in Nat /\ now' \in Nat /\ now <= now'
    BY DEF Safety, Shape, TablesStay, TimeAssumption
  <1>2. tx' # None => tx.at \in Nat /\ tx.at <= now'
    BY <1>1 DEF Safety, TxIsSound
  <1>3. AuthorizeIsSound => AuthorizeIsSound'
    BY DEF AuthorizeIsSound, TablesStay
  <1>4. ClaimIsSound => ClaimIsSound'
    BY DEF ClaimIsSound, TablesStay, OfOutbox, EndOf
  <1>5. ReleaseIsSound => ReleaseIsSound'
    BY DEF ReleaseIsSound, TablesStay
  <1> QED BY <1>2, <1>3, <1>4, <1>5 DEF Safety, TxIsSound

LEMMA OutputsStay ==
    ASSUME Safety, TablesStay, UNCHANGED <<writes, lines, reports>>
    PROVE  Outputs'
  BY DEF Safety, Outputs, TablesStay, WriteIsBound, LineIsBound, ReportIsTimely

\* The clock, the heartbeats and the runs move under an open transaction.
LEMMA EnvironmentKeeps ==
    ASSUME TimeAssumption, Safety,
           \/ timePasses
           \/ \E d \in Dispatches : dispatchMoves(d)
           \/ \E at \in {now, None} : heartbeat(at)
           \/ UNCHANGED outboxVars
    PROVE  Safety'
  <1>1. TablesStay /\ tx' = tx /\ UNCHANGED <<writes, lines, reports>>
    BY DEF timePasses, dispatchMoves, heartbeat, outboxVars, durable, TablesStay, Safety, Shape, TimeAssumption
  <1> QED BY <1>1, TablesStayKeeps, TxStays, OutputsStay DEF Safety

\* A transaction begins with what it has found, or ends without its row.
LEMMA BeginKeeps ==
    ASSUME TimeAssumption, Safety,
           \/ \E d \in Dispatches : beginAuthorization(d)
           \/ \E a \in Attempts, d \in Dispatches, o \in Owners : beginClaim(a, d, o)
           \/ \E a \in Attempts : beginRelease(a)
           \/ txFails
    PROVE  Safety'
  <1>1. now \in Nat /\ SessionEnd \in Nat /\ OutboxTTL \in Nat /\ ClaimTTL \in Nat
    BY DEF Safety, Shape, TimeAssumption
  <1>2. TablesStay /\ UNCHANGED <<now, outbox, attempts, writes, lines, reports>>
    BY <1>1 DEF beginAuthorization, beginClaim, beginRelease, txFails, durable, TablesStay, Safety, Shape
  <1>3. TxIsSound'
    <2>1. CASE txFails
      BY <2>1 DEF txFails, TxIsSound
    <2>2. CASE \E d \in Dispatches : beginAuthorization(d)
      <3>1. PICK d \in Dispatches : beginAuthorization(d)
        BY <2>2
      <3> DEFINE end == Min({SessionEnd, now + OutboxTTL})
      <3>2. end \in Nat /\ end <= SessionEnd
        BY <1>1, MinOfTwo
      <3>3. NextSequence \in Nat
        BY NextNumbers, FS_CardinalityType DEF Safety, Shape
      <3> HIDE DEF end
      <3>4. /\ tx' = [kind |-> "authorize", at |-> now,
                      frame |-> [dispatch |-> d, sequence |-> NextSequence, issuedAt |-> now, expiresAt |-> end]]
            /\ d \notin DOMAIN outbox
        BY <3>1 DEF beginAuthorization, end
      <3>5. AuthorizeIsSound'
        BY <1>1, <1>2, <3>2, <3>3, <3>4 DEF AuthorizeIsSound, Frame
      <3> QED BY <1>1, <1>2, <3>4, <3>5 DEF TxIsSound
    <2>3. CASE \E a \in Attempts, d \in Dispatches, o \in Owners : beginClaim(a, d, o)
      <3>1. PICK a \in Attempts, d \in Dispatches, o \in Owners : beginClaim(a, d, o)
        BY <2>3
      <3>2. d \in DOMAIN outbox /\ a \notin DOMAIN attempts /\ NoLiveClaim(d, o)
        BY <3>1 DEF beginClaim
      <3>3. outbox[d].expiresAt \in Nat /\ outbox[d].issuedAt <= now
        BY <3>2 DEF Safety, Shape, PastOnly, Frame
      <3>4. ClaimExpiry(d) \in Nat /\ ClaimExpiry(d) <= outbox[d].expiresAt
        BY <1>1, <3>3, MinOfThree DEF ClaimExpiry
      <3>5. NextGeneration(d) \in Nat
        BY <3>2, NextNumbers, OfOutboxFinite DEF Safety
      <3> DEFINE row == [dispatch |-> d, owner |-> o, generation |-> NextGeneration(d),
                         claimedAt |-> now, expiresAt |-> ClaimExpiry(d), releasedAt |-> None]
      <3>6. row \in Attempt /\ row.dispatch = d /\ row.claimedAt = now /\ row.releasedAt = None
            /\ row.expiresAt = ClaimExpiry(d)
        BY <1>1, <3>4, <3>5 DEF Attempt
      <3>7. tx' = [kind |-> "claim", at |-> now, id |-> a, attempt |-> row]
        BY <3>1 DEF beginClaim
      <3> HIDE DEF row
      <3>8. \A b \in OfOutbox(d) : EndOf(b) <= now
        <4>1. \A b \in OfOutbox(d) : b \in DOMAIN attempts /\ ~IsLive(b)
          BY <3>2 DEF NoLiveClaim, OfOutbox
        <4>2. \A b \in DOMAIN attempts : attempts[b].expiresAt \in Nat
          BY DEF Safety, Shape, Attempt
        <4> QED BY <1>1, <4>1, <4>2 DEF IsLive, EndOf, Safety, PastOnly
      <3>9. ClaimIsSound'
        BY <1>2, <3>1, <3>2, <3>3, <3>4, <3>6, <3>7, <3>8 DEF ClaimIsSound, OfOutbox, EndOf
      <3> QED BY <1>1, <1>2, <3>7, <3>9 DEF TxIsSound
    <2>4. CASE \E a \in Attempts : beginRelease(a)
      <3>1. PICK a \in Attempts : beginRelease(a)
        BY <2>4
      <3>2. tx' = [kind |-> "release", at |-> now, id |-> a] /\ a \in DOMAIN attempts /\ IsLive(a)
        BY <3>1 DEF beginRelease
      <3>3. ReleaseIsSound'
        BY <1>2, <3>2 DEF ReleaseIsSound, IsLive
      <3> QED BY <1>1, <1>2, <3>2, <3>3 DEF TxIsSound
    <2> QED BY <2>1, <2>2, <2>3, <2>4
  <1> QED BY <1>2, <1>3, TablesStayKeeps, OutputsStay DEF Safety

\* The controllers write, report and give up.
LEMMA ControllerKeeps ==
    ASSUME TimeAssumption, Safety,
           \/ \E a \in Attempts, d \in DOMAIN outbox : handoff(a, outbox[d])
           \/ \E w \in writes : transportTakes(w) \/ writeCompletes(w) \/ writeFails(w) \/ writeTimesOut(w)
    PROVE  Safety'
  <1>1. now \in Nat /\ MaxWriteTimeout \in Nat
    BY DEF Safety, Shape, TimeAssumption
  <1>2. TablesStay /\ UNCHANGED <<now, outbox, attempts, tx>>
    <2>1. UNCHANGED <<now, durable, tx>>
      BY DEF handoff, transportTakes, writeCompletes, writeFails, writeTimesOut
    <2> QED BY <1>1, <2>1 DEF durable, TablesStay, Safety, Shape
  <1>3. Outputs'
    <2> SUFFICES /\ \A w \in writes' : WriteIsBound(w)
                 /\ \A l \in lines' : LineIsBound(l)
                 /\ \A r \in reports' : ReportIsTimely(r)
      BY <1>2 DEF Outputs, WriteIsBound, LineIsBound, ReportIsTimely
    <2>0. Outputs
      BY DEF Safety
    <2>1. CASE \E a \in Attempts, d \in DOMAIN outbox : handoff(a, outbox[d])
      <3>1. PICK a \in Attempts, d \in DOMAIN outbox : handoff(a, outbox[d])
        BY <2>1
      <3> DEFINE end == Min({attempts[a].expiresAt, now + MaxWriteTimeout})
      <3>2. a \in DOMAIN attempts /\ outbox[d] = outbox[attempts[a].dispatch]
        BY <3>1 DEF handoff, IsBound
      <3>3. end \in Nat
        <4>1. attempts[a].expiresAt \in Nat
          BY <3>2 DEF Safety, Shape, Attempt
        <4>2. now + MaxWriteTimeout \in Nat
          BY <1>1
        <4> QED BY <4>1, <4>2, MinOfTwo
      <3> DEFINE w == [attempt |-> a, frame |-> outbox[d], taken |-> FALSE, deadline |-> end]
      <3>4. writes' = writes \cup {w} /\ UNCHANGED <<lines, reports>>
        BY <3>1 DEF handoff
      <3> HIDE DEF end
      <3>5. WriteIsBound(w)
        BY <3>1, <3>2, <3>3 DEF WriteIsBound, Write, Safety, Shape
      <3> QED BY <2>0, <3>4, <3>5 DEF Outputs
    <2>2. CASE \E w \in writes : transportTakes(w)
      <3>1. PICK w \in writes : transportTakes(w)
        BY <2>2
      <3> DEFINE l == [attempt |-> w.attempt, frame |-> w.frame]
      <3> DEFINE v == [w EXCEPT !.taken = TRUE]
      <3>2. WriteIsBound(w)
        BY <2>0, <3>1 DEF Outputs
      <3>3. lines' = lines \cup {l} /\ writes' = (writes \ {w}) \cup {v} /\ reports' = reports
        BY <3>1 DEF transportTakes
      <3>4. LineIsBound(l) /\ WriteIsBound(v)
        BY <3>2 DEF LineIsBound, WriteIsBound, Write
      <3> QED BY <2>0, <3>3, <3>4 DEF Outputs
    <2>3. CASE \E w \in writes : writeCompletes(w)
      <3>1. PICK w \in writes : writeCompletes(w)
        BY <2>3
      <3> DEFINE r == [attempt |-> w.attempt, at |-> now]
      <3>2. WriteIsBound(w)
        BY <2>0, <3>1 DEF Outputs
      <3>3. reports' = reports \cup {r} /\ writes' = writes \ {w} /\ lines' = lines /\ now < attempts[w.attempt].expiresAt
        BY <3>1 DEF writeCompletes, MayReport
      <3>4. ReportIsTimely(r)
        BY <1>1, <3>2, <3>3 DEF ReportIsTimely, WriteIsBound, Safety, PastOnly
      <3> QED BY <2>0, <3>3, <3>4 DEF Outputs
    <2>4. CASE \E w \in writes : writeFails(w) \/ writeTimesOut(w)
      <3>1. writes' \subseteq writes /\ UNCHANGED <<lines, reports>>
        BY <2>4 DEF writeFails, writeTimesOut
      <3> QED BY <2>0, <3>1 DEF Outputs
    <2> QED BY <2>1, <2>2, <2>3, <2>4
  <1> QED BY <1>2, <1>3, TablesStayKeeps, TxStays DEF Safety
-----------------------------------------------------------------------------
(* Steps that write a row *)

\* The trigger accepts a frame: it gets the next number, and every claim keeps its frame.
LEMMA AuthorizationKeeps ==
    ASSUME TimeAssumption, Safety, prepareDispatchAuthorization
    PROVE  Safety'
  <1>0. PICK f, d : f = tx.frame /\ d = tx.frame.dispatch
    OBVIOUS
  <1>1. /\ tx # None /\ tx.kind = "authorize" /\ now < f.expiresAt /\ f.sequence = NextSequence
        /\ outbox' = Put(outbox, d, f) /\ tx' = None
        /\ UNCHANGED <<now, heartbeatAt, prepared, attempts, writes, lines, reports>>
    BY <1>0 DEF prepareDispatchAuthorization
  <1>2. /\ f \in Frame /\ d \in Dispatches /\ d \notin DOMAIN outbox
        /\ f.issuedAt <= now /\ f.expiresAt <= SessionEnd
    BY <1>0, <1>1 DEF Safety, TxIsSound, AuthorizeIsSound
  <1>3. f.dispatch = d
    BY <1>0
  <1>4. /\ DOMAIN outbox' = DOMAIN outbox \cup {d}
        /\ outbox'[d] = f
        /\ \A x \in DOMAIN outbox : outbox'[x] = outbox[x]
    BY <1>1, <1>2 DEF Put
  <1>5. /\ IsFiniteSet(DOMAIN outbox')
        /\ Cardinality(DOMAIN outbox) \in Nat
        /\ 1 .. Cardinality(DOMAIN outbox') = (1 .. Cardinality(DOMAIN outbox)) \cup {Cardinality(DOMAIN outbox) + 1}
    <2>1. IsFiniteSet(DOMAIN outbox)
      BY DEF Safety, Shape
    <2> QED BY <1>2, <1>4, <2>1, OneMore
  <1>6. Shape'
    BY <1>1, <1>2, <1>3, <1>4, <1>5 DEF Safety, Shape
  <1>7. PastOnly'
    BY <1>1, <1>2, <1>4 DEF Safety, PastOnly
  <1>8. TxIsSound'
    BY <1>1 DEF TxIsSound
  <1>9. \A a \in DOMAIN attempts : attempts[a].dispatch \in DOMAIN outbox
                                   /\ outbox'[attempts[a].dispatch] = outbox[attempts[a].dispatch]
    BY <1>4 DEF Safety, Shape
  <1>10. Outputs'
    <2>1. \A w \in writes : WriteIsBound(w)'
      BY <1>1, <1>9 DEF Safety, Outputs, WriteIsBound
    <2>2. \A l \in lines : LineIsBound(l)'
      BY <1>1, <1>9 DEF Safety, Outputs, LineIsBound
    <2>3. \A r \in reports : ReportIsTimely(r)'
      BY <1>1 DEF Safety, Outputs, ReportIsTimely
    <2> QED BY <1>1, <2>1, <2>2, <2>3 DEF Outputs
  <1>11. NumbersAreGapless'
    <2>1. f.sequence = Cardinality(DOMAIN outbox) + 1
      BY <1>1, NextNumbers
    <2>2. {outbox'[x].sequence : x \in DOMAIN outbox'} = {outbox[x].sequence : x \in DOMAIN outbox} \cup {f.sequence}
      BY <1>4
    <2>3. {outbox'[x].sequence : x \in DOMAIN outbox'} = 1 .. Cardinality(DOMAIN outbox')
      BY <1>5, <2>1, <2>2 DEF Safety, NumbersAreGapless
    <2>4. \A x : OfOutbox(x)' = OfOutbox(x)
      BY <1>1 DEF OfOutbox
    <2>5. OfOutbox(d) = {}
      BY <1>2 DEF OfOutbox, Safety, Shape
    <2>6. {attempts[a].generation : a \in OfOutbox(d)} = 1 .. Cardinality(OfOutbox(d))
      <3>1. Cardinality(OfOutbox(d)) = 0
        BY <2>5, FS_EmptySet
      <3> QED BY <2>5, <3>1
    <2>7. \A x \in DOMAIN outbox' : {attempts[a].generation : a \in OfOutbox(x)} = 1 .. Cardinality(OfOutbox(x))
      BY <1>4, <2>6 DEF Safety, NumbersAreGapless
    <2> QED BY <1>1, <2>3, <2>4, <2>7 DEF NumbersAreGapless
  <1>12. WindowsAreDisjoint' /\ AuthorityIsNested'
    BY <1>1, <1>9 DEF Safety, WindowsAreDisjoint, AuthorityIsNested
  <1> QED BY <1>6, <1>7, <1>8, <1>10, <1>11, <1>12 DEF Safety

\* The trigger accepts a claim: every earlier one on the frame is over.
LEMMA ClaimKeeps ==
    ASSUME TimeAssumption, Safety, claimDispatchEgressHandoff
    PROVE  Safety'
  <1>0. PICK r, d, id : r = tx.attempt /\ d = tx.attempt.dispatch /\ id = tx.id
    OBVIOUS
  <1>1. /\ tx # None /\ tx.kind = "claim" /\ now < r.expiresAt /\ r.generation = NextGeneration(d)
        /\ attempts' = Put(attempts, id, r) /\ tx' = None
        /\ UNCHANGED <<now, heartbeatAt, prepared, outbox, writes, lines, reports>>
    BY <1>0 DEF claimDispatchEgressHandoff
  <1>2. /\ id \in Attempts /\ id \notin DOMAIN attempts
        /\ r \in Attempt /\ d \in DOMAIN outbox /\ r.releasedAt = None
        /\ r.expiresAt <= outbox[d].expiresAt /\ outbox[d].issuedAt <= r.claimedAt /\ r.claimedAt <= now
        /\ \A a \in OfOutbox(d) : EndOf(a) <= r.claimedAt
    BY <1>0, <1>1 DEF Safety, TxIsSound, ClaimIsSound
  <1>3. r.dispatch = d
    BY <1>0
  <1>4. /\ DOMAIN attempts' = DOMAIN attempts \cup {id}
        /\ attempts'[id] = r
        /\ \A x \in DOMAIN attempts : attempts'[x] = attempts[x]
    BY <1>1, <1>2 DEF Put
  <1>5. IsFiniteSet(DOMAIN attempts')
    <2>1. IsFiniteSet(DOMAIN attempts)
      BY DEF Safety, Shape
    <2> QED BY <1>2, <1>4, <2>1, OneMore
  <1>6. Shape'
    BY <1>1, <1>2, <1>3, <1>4, <1>5 DEF Safety, Shape
  <1>7. PastOnly'
    BY <1>1, <1>2, <1>4 DEF Safety, PastOnly
  <1>8. TxIsSound'
    BY <1>1 DEF TxIsSound
  <1>9. Outputs'
    <2>1. \A w \in writes : WriteIsBound(w)'
      BY <1>1, <1>4 DEF Safety, Outputs, WriteIsBound
    <2>2. \A l \in lines : LineIsBound(l)'
      BY <1>1, <1>4 DEF Safety, Outputs, LineIsBound
    <2>3. \A x \in reports : ReportIsTimely(x)'
      BY <1>1, <1>4 DEF Safety, Outputs, ReportIsTimely
    <2> QED BY <1>1, <2>1, <2>2, <2>3 DEF Outputs
  <1>10. r.generation = Cardinality(OfOutbox(d)) + 1 /\ Cardinality(OfOutbox(d)) \in Nat
    BY <1>1, <1>2, NextNumbers, OfOutboxFinite DEF Safety
  <1>11. OfOutbox(d)' = OfOutbox(d) \cup {id} /\ id \notin OfOutbox(d)
    BY <1>2, <1>3, <1>4 DEF OfOutbox
  <1>12. NumbersAreGapless'
    <2>1. \A x \in DOMAIN outbox : x # d => OfOutbox(x)' = OfOutbox(x)
      BY <1>3, <1>4 DEF OfOutbox
    <2>2. ASSUME NEW x \in DOMAIN outbox, x # d
          PROVE  {attempts'[a].generation : a \in OfOutbox(x)'} = 1 .. Cardinality(OfOutbox(x)')
      <3>1. \A a \in OfOutbox(x) : attempts'[a] = attempts[a]
        BY <1>4 DEF OfOutbox
      <3>2. {attempts[a].generation : a \in OfOutbox(x)} = 1 .. Cardinality(OfOutbox(x))
        BY <2>2 DEF Safety, NumbersAreGapless
      <3> QED BY <2>1, <2>2, <3>1, <3>2
    <2>3. {attempts'[a].generation : a \in OfOutbox(d)'} = 1 .. Cardinality(OfOutbox(d)')
      <3>1. \A a \in OfOutbox(d) : attempts'[a] = attempts[a]
        BY <1>4 DEF OfOutbox
      <3>2. {attempts'[a].generation : a \in OfOutbox(d)'} = {attempts[a].generation : a \in OfOutbox(d)} \cup {r.generation}
        BY <1>4, <1>11, <3>1
      <3>3. {attempts[a].generation : a \in OfOutbox(d)} = 1 .. Cardinality(OfOutbox(d))
        BY <1>2 DEF Safety, NumbersAreGapless
      <3>4. 1 .. Cardinality(OfOutbox(d)') = (1 .. Cardinality(OfOutbox(d))) \cup {Cardinality(OfOutbox(d)) + 1}
        BY <1>11, OneMore, OfOutboxFinite DEF Safety
      <3> QED BY <1>10, <3>2, <3>3, <3>4
    <2> QED BY <1>1, <2>2, <2>3 DEF Safety, NumbersAreGapless
  <1>13. WindowsAreDisjoint'
    <2> SUFFICES ASSUME NEW a \in DOMAIN attempts', NEW b \in DOMAIN attempts',
                        attempts'[a].dispatch = attempts'[b].dispatch,
                        attempts'[a].generation < attempts'[b].generation
                 PROVE  attempts'[b].claimedAt >= (IF attempts'[a].releasedAt = None THEN attempts'[a].expiresAt
                                                                                     ELSE attempts'[a].releasedAt)
      BY DEF WindowsAreDisjoint
    <2>1. \A x \in OfOutbox(d) : attempts[x].generation \in 1 .. Cardinality(OfOutbox(d))
      BY <1>2 DEF Safety, NumbersAreGapless
    <2>2. CASE a \in DOMAIN attempts /\ b \in DOMAIN attempts
      BY <1>4, <2>2 DEF Safety, WindowsAreDisjoint
    <2>3. CASE a \in DOMAIN attempts /\ b = id
      <3>1. a \in OfOutbox(d)
        BY <1>3, <1>4, <2>3 DEF OfOutbox
      <3>2. EndOf(a) <= r.claimedAt /\ attempts'[b] = r /\ attempts'[a] = attempts[a]
        BY <1>2, <1>4, <2>3, <3>1
      <3>3. EndOf(a) \in Nat /\ r.claimedAt \in Nat
        BY <1>2, <2>3 DEF EndOf, Safety, Shape, Attempt
      <3> QED BY <3>2, <3>3 DEF EndOf
    <2>4. CASE a = id
      <3>1. b # id
        BY <1>2, <1>4, <2>4, <1>10
      <3>2. b \in OfOutbox(d)
        BY <1>3, <1>4, <2>4, <3>1 DEF OfOutbox
      <3> QED BY <1>4, <1>10, <2>1, <2>4, <3>1, <3>2
    <2> QED BY <1>4, <2>2, <2>3, <2>4
  <1>14. AuthorityIsNested'
    <2>1. r.claimedAt < r.expiresAt /\ outbox[d].expiresAt <= SessionEnd /\ outbox[d].dispatch = d
      <3>1. r.claimedAt \in Nat /\ r.expiresAt \in Nat /\ now \in Nat
        BY <1>2 DEF Attempt, Safety, Shape, TimeAssumption
      <3> QED BY <1>1, <1>2, <3>1 DEF Safety, Shape, PastOnly
    <2> QED BY <1>1, <1>2, <1>3, <1>4, <2>1 DEF Safety, AuthorityIsNested
  <1> QED BY <1>6, <1>7, <1>8, <1>9, <1>12, <1>13, <1>14 DEF Safety

\* A release ends a live attempt early, and whoever follows it began after its end.
LEMMA ReleaseKeeps ==
    ASSUME TimeAssumption, Safety, releaseDispatchEgressHandoff
    PROVE  Safety'
  <1>0. PICK id, at : id = tx.id /\ at = tx.at
    OBVIOUS
  <1>1. /\ tx # None /\ tx.kind = "release" /\ tx' = None
        /\ attempts' = [attempts EXCEPT ![id].releasedAt = at]
        /\ UNCHANGED <<now, heartbeatAt, prepared, outbox, writes, lines, reports>>
    BY <1>0 DEF releaseDispatchEgressHandoff
  <1>2. id \in DOMAIN attempts /\ attempts[id].releasedAt = None /\ at < attempts[id].expiresAt
        /\ at \in Nat /\ at <= now
    BY <1>0, <1>1 DEF Safety, TxIsSound, ReleaseIsSound
  <1>3. \A a \in DOMAIN attempts : attempts[a] \in Attempt
    BY DEF Safety, Shape
  <1>4. /\ DOMAIN attempts' = DOMAIN attempts
        /\ \A a \in DOMAIN attempts :
             /\ attempts'[a] \in Attempt
             /\ attempts'[a].dispatch = attempts[a].dispatch
             /\ attempts'[a].generation = attempts[a].generation
             /\ attempts'[a].claimedAt = attempts[a].claimedAt
             /\ attempts'[a].expiresAt = attempts[a].expiresAt
             /\ attempts'[a].releasedAt = IF a = id THEN at ELSE attempts[a].releasedAt
    BY <1>1, <1>2, <1>3 DEF Attempt
  <1>5. Shape'
    BY <1>1, <1>4 DEF Safety, Shape
  <1>6. PastOnly'
    BY <1>1, <1>2, <1>4 DEF Safety, PastOnly
  <1>7. TxIsSound'
    BY <1>1 DEF TxIsSound
  <1>8. Outputs'
    <2>1. \A w \in writes : WriteIsBound(w)'
      BY <1>1, <1>4 DEF Safety, Outputs, WriteIsBound
    <2>2. \A l \in lines : LineIsBound(l)'
      BY <1>1, <1>4 DEF Safety, Outputs, LineIsBound
    <2>3. \A x \in reports : ReportIsTimely(x)'
      BY <1>1, <1>4 DEF Safety, Outputs, ReportIsTimely
    <2> QED BY <1>1, <2>1, <2>2, <2>3 DEF Outputs
  <1>9. NumbersAreGapless'
    <2>1. \A d : OfOutbox(d)' = OfOutbox(d)
      BY <1>4 DEF OfOutbox
    <2>2. \A d : {attempts'[a].generation : a \in OfOutbox(d)} = {attempts[a].generation : a \in OfOutbox(d)}
      BY <1>4 DEF OfOutbox
    <2> QED BY <1>1, <2>1, <2>2 DEF Safety, NumbersAreGapless
  <1>10. WindowsAreDisjoint'
    <2>1. ASSUME NEW a \in DOMAIN attempts, NEW b \in DOMAIN attempts,
                 attempts[a].dispatch = attempts[b].dispatch,
                 attempts[a].generation < attempts[b].generation
          PROVE  attempts[b].claimedAt >= (IF a = id THEN at
                                           ELSE IF attempts[a].releasedAt = None THEN attempts[a].expiresAt
                                                ELSE attempts[a].releasedAt)
      <3>1. attempts[b].claimedAt >= (IF attempts[a].releasedAt = None THEN attempts[a].expiresAt
                                                                       ELSE attempts[a].releasedAt)
        BY <2>1 DEF Safety, WindowsAreDisjoint
      <3>2. attempts[b].claimedAt \in Nat /\ attempts[a].expiresAt \in Nat
        BY <1>3, <2>1 DEF Attempt
      <3> QED BY <1>2, <3>1, <3>2
    <2>2. at # None
      BY <1>2 DEF TimeAssumption
    <2> QED BY <1>4, <2>1, <2>2 DEF WindowsAreDisjoint
  <1>11. AuthorityIsNested'
    BY <1>1, <1>4 DEF Safety, AuthorityIsNested
  <1> QED BY <1>5, <1>6, <1>7, <1>8, <1>9, <1>10, <1>11 DEF Safety

-----------------------------------------------------------------------------

\* The inductive invariant of the outbox, its claims and its controllers.
THEOREM OutboxSafety ==
    ASSUME TimeAssumption
    PROVE  OutboxSpec => []Safety
  <1>1. OutboxInit => Safety
    <2> SUFFICES ASSUME OutboxInit PROVE Safety
      OBVIOUS
    <2>1. DOMAIN outbox = {} /\ DOMAIN attempts = {} /\ writes = {} /\ lines = {} /\ reports = {} /\ tx = None
      BY DEF OutboxInit
    <2>2. IsFiniteSet({}) /\ Cardinality({}) = 0
      BY FS_EmptySet
    <2>3. Shape
      BY <2>1, <2>2 DEF OutboxInit, Shape, TimeAssumption
    <2>4. NumbersAreGapless
      BY <2>1, <2>2 DEF NumbersAreGapless
    <2>5. PastOnly /\ TxIsSound /\ Outputs /\ WindowsAreDisjoint /\ AuthorityIsNested
      BY <2>1 DEF PastOnly, TxIsSound, Outputs, WindowsAreDisjoint, AuthorityIsNested
    <2> QED BY <2>3, <2>4, <2>5 DEF Safety
  <1>2. Safety /\ [OutboxNext]_outboxVars => Safety'
    BY EnvironmentKeeps, BeginKeeps, ControllerKeeps, AuthorizationKeeps, ClaimKeeps, ReleaseKeeps DEF OutboxNext
  <1> QED BY <1>1, <1>2, PTL DEF OutboxSpec

\* The tables of the outbox, its claims and the writes of the controllers keep their types.
THEOREM OutboxTypes ==
    ASSUME TimeAssumption
    PROVE  OutboxSpec => []OutboxTypeOK
  <1>1. Safety => OutboxTypeOK
    BY DEF Safety, Shape, Outputs, WriteIsBound, Write, OutboxTypeOK
  <1> QED BY <1>1, OutboxSafety, PTL

\* Frames and attempts are numbered without a gap, attempts on one frame never overlap,
\* each lies within the authority of its frame, every line a transport takes is the one
\* frame of its claim, and success is reported only within the claim
\* (prepareDispatchAuthorization, claimDispatchEgressHandoff, BoundedBridgeEgressController).
THEOREM HandoffsAlwaysAgree ==
    ASSUME TimeAssumption
    PROVE  OutboxSpec => []HandoffsAgree
  <1>1. Safety => HandoffsAgree
    <2> SUFFICES ASSUME Safety PROVE HandoffsAgree
      OBVIOUS
    <2>1. NumbersAreGapless /\ WindowsAreDisjoint /\ AuthorityIsNested
      BY DEF Safety
    <2>2. CopiesAgree
      BY DEF Safety, Outputs, LineIsBound, CopiesAgree
    <2>3. SuccessIsWithinItsClaim
      <3> SUFFICES ASSUME NEW r \in reports
                   PROVE  /\ attempts[r.attempt].claimedAt <= r.at /\ r.at < attempts[r.attempt].expiresAt
                          /\ \A b \in OfOutbox(attempts[r.attempt].dispatch) \ {r.attempt} :
                               (/\ attempts[b].claimedAt <= r.at
                                /\ r.at < attempts[b].expiresAt
                                /\ attempts[b].generation > attempts[r.attempt].generation)
                               => attempts[r.attempt].releasedAt # None
        BY DEF SuccessIsWithinItsClaim
      <3>1. /\ r.attempt \in DOMAIN attempts /\ r.at \in Nat
            /\ attempts[r.attempt].claimedAt <= r.at /\ r.at < attempts[r.attempt].expiresAt
        BY DEF Safety, Outputs, ReportIsTimely
      <3>2. ASSUME NEW b \in OfOutbox(attempts[r.attempt].dispatch),
                   attempts[b].claimedAt <= r.at,
                   attempts[b].generation > attempts[r.attempt].generation,
                   attempts[r.attempt].releasedAt = None
            PROVE  FALSE
        <4>1. b \in DOMAIN attempts /\ attempts[r.attempt].dispatch = attempts[b].dispatch
          BY <3>2 DEF OfOutbox
        <4>2. /\ attempts[b].claimedAt \in Nat /\ attempts[r.attempt].expiresAt \in Nat
              /\ attempts[b].generation \in Nat /\ attempts[r.attempt].generation \in Nat
          BY <3>1, <4>1 DEF Safety, Shape, Attempt
        <4>3. attempts[b].claimedAt >= attempts[r.attempt].expiresAt
          BY <3>1, <3>2, <4>1, <4>2 DEF Safety, WindowsAreDisjoint
        <4> QED BY <3>1, <3>2, <4>2, <4>3
      <3> QED BY <3>1, <3>2
    <2> QED BY <2>1, <2>2, <2>3 DEF HandoffsAgree
  <1> QED BY <1>1, OutboxSafety, PTL

-----------------------------------------------------------------------------
(***************************************************************************)
(* The native calls.                                                       *)
(***************************************************************************)

Operation ==
    [at : {"none", "queued", "checking", "polling", "ready", "executed", "settled"},
     cancelled : BOOLEAN, marker : BOOLEAN, failed : BOOLEAN,
     got : {"none", "open", "passed", "closed"}, length : Nat,
     outcome : {"none", "resolved", "rejected"}]

Listener ==
    [fd : {"none", "open", "closed"}, observed : BOOLEAN, consumed : BOOLEAN, cleaned : BOOLEAN,
     busy : BOOLEAN, session : BOOLEAN, held : BOOLEAN]

Connection ==
    [fd : {"none", "open", "closed"}, phase : 0 .. 4, busy : BOOLEAN, held : BOOLEAN,
     state : {"NONE", "OPEN", "PEER_OBSERVED", "FIRST_DONE", "SECOND_DONE", "CLOSED"}]

\* The signal, the objects and the operations.
CallTypes ==
    /\ aborted \in BOOLEAN
    /\ listener \in Listener
    /\ conn \in Connection
    /\ ops \in [Kinds -> Operation]

\* An operation that is between its queueing and its promise.
IsPending(op) == op.at # "none" /\ op.at # "settled"

\* What an operation has made, read or written by the time it is where it is.
OpenerIsSound(k, op) ==
    /\ op.at = "executed" /\ ~op.failed => op.got = "open"
    /\ op.got = "passed" => op.at = "settled"
    /\ op.at = "settled" => op.got # "open" /\ (op.got = "passed" <=> op.outcome = "resolved")
    /\ k = "connect" /\ op.at \in {"checking", "polling", "ready"} => op.got = "open"

ReadIsSound(op) ==
    /\ op.at \in {"queued", "checking", "polling", "ready"} => op.length <= MaxFrame
    /\ op.at = "executed" /\ ~op.failed => MinFrame <= op.length /\ op.length <= MaxFrame
    /\ op.outcome = "resolved" => MinFrame <= op.length /\ op.length <= MaxFrame

WriteIsSound(op) ==
    /\ op.at \in {"queued", "checking", "polling", "ready"} => op.length < MaxFrame
    /\ op.at = "executed" /\ ~op.failed => op.length = MaxFrame
    /\ op.outcome = "resolved" => op.length = MaxFrame

OperationIsSound(k, op) ==
    /\ op.outcome # "none" => op.at = "settled"
    /\ op.outcome = "resolved" => ~op.cancelled
    /\ k \in Opening => OpenerIsSound(k, op)
    /\ k = "read" => ReadIsSound(op)
    /\ k = "write" => WriteIsSound(op)

\* An operation keeps the object that it works on.
AcceptKeepsListener ==
    "accept" \in Kinds /\ IsPending(ops["accept"]) => listener.fd = "open" /\ listener.busy

TransferKeepsConnection ==
    /\ IsPending(ops["read"]) \/ IsPending(ops["write"]) => conn.fd = "open" /\ conn.busy
    /\ ~(IsPending(ops["read"]) /\ IsPending(ops["write"]))

\* There is no connection before the operation that opens it has settled.
ConnectionIsMade == \A k \in Opening \cap Kinds : ops[k].at # "settled" => conn = NoConnection

CallsInv ==
    /\ CallTypes
    /\ \A k \in Kinds : OperationIsSound(k, ops[k])
    /\ AcceptKeepsListener
    /\ TransferKeepsConnection
    /\ ConnectionIsMade

\* There are always a read, a write and one way to open.
LEMMA KindsOfASide ==
    /\ Kinds \subseteq {"accept", "connect", "read", "write"}
    /\ "read" \in Kinds /\ "write" \in Kinds
    /\ ~("accept" \in Kinds /\ "connect" \in Kinds)
    /\ Opening = {"accept", "connect"}
BY DEF Kinds, Opening

LEMMA CallsInitInv == CallsInit => CallsInv
<1> SUFFICES ASSUME CallsInit PROVE CallsInv
  OBVIOUS
<1> USE KindsOfASide, FrameAssumption DEF CallsInit
<1>1. NewOperation \in Operation
  BY DEF NewOperation, Operation
<1>2. \A k \in Kinds : ops[k] = NewOperation
  OBVIOUS
<1>3. CallTypes
  <2>1. listener \in Listener
    BY DEF Listener
  <2>2. conn \in Connection
    BY DEF Connection, NoConnection
  <2> QED BY <1>1, <2>1, <2>2 DEF CallTypes
<1>4. \A k \in Kinds : OperationIsSound(k, ops[k])
  BY <1>2 DEF OperationIsSound, OpenerIsSound, ReadIsSound, WriteIsSound, NewOperation, IsPending
<1> QED
  BY <1>2, <1>3, <1>4
  DEF CallsInv, AcceptKeepsListener, TransferKeepsConnection, ConnectionIsMade, IsPending, NewOperation

\* A pool thread moves one operation that is pending and stays so, and leaves
\* the objects alone.
PoolMoves(k) ==
    \E op \in Operation :
        /\ IsPending(ops[k]) /\ IsPending(op)
        /\ OperationIsSound(k, op)
        /\ ops' = [ops EXCEPT ![k] = op]
        /\ UNCHANGED <<aborted, listener, conn>>

LEMMA PoolMovesInv ==
    ASSUME CallsInv, NEW k \in Kinds, PoolMoves(k)
    PROVE  CallsInv'
<1> USE KindsOfASide
<1>1. PICK op \in Operation :
        /\ IsPending(ops[k]) /\ IsPending(op)
        /\ OperationIsSound(k, op)
        /\ ops' = [ops EXCEPT ![k] = op]
        /\ UNCHANGED <<aborted, listener, conn>>
  BY DEF PoolMoves
<1>2. CallTypes'
  BY <1>1 DEF CallsInv, CallTypes
<1>3. \A j \in Kinds : ops'[j] = IF j = k THEN op ELSE ops[j]
  BY <1>1 DEF CallsInv, CallTypes
<1>4. \A j \in Kinds : OperationIsSound(j, ops'[j])
  BY <1>1, <1>3 DEF CallsInv
<1>5. \A j \in Kinds : IsPending(ops'[j]) <=> IsPending(ops[j])
  BY <1>1, <1>3
<1>6. AcceptKeepsListener'
  BY <1>1, <1>5 DEF CallsInv, AcceptKeepsListener
<1>7. TransferKeepsConnection'
  BY <1>1, <1>5 DEF CallsInv, TransferKeepsConnection
<1>8. ConnectionIsMade'
  BY <1>1, <1>3 DEF CallsInv, ConnectionIsMade, IsPending
<1> QED BY <1>2, <1>4, <1>6, <1>7, <1>8 DEF CallsInv

\* A fresh look at one operation that the invariant speaks of.
LEMMA OperationIsTyped ==
    ASSUME CallsInv, NEW k \in Kinds
    PROVE  ops[k] \in Operation /\ OperationIsSound(k, ops[k])
BY DEF CallsInv, CallTypes

\* It is enough to look at the new value of the operation.
LEMMA PoolMovesBy ==
    ASSUME NEW k \in Kinds, NEW op \in Operation, IsPending(ops[k]), IsPending(op),
           OperationIsSound(k, op), Becomes(k, op), UNCHANGED <<aborted, listener, conn>>
    PROVE  PoolMoves(k)
BY DEF PoolMoves, Becomes

LEMMA WaitingMoves ==
    ASSUME CallsInv, NEW k \in Kinds,
           wait_descriptor(k) \/ pollReturns(k) \/ startTransfer(k)
    PROVE  PoolMoves(k)
<1> DEFINE at(stage) == [ops[k] EXCEPT !.at = stage]
<1> USE OperationIsTyped, FrameAssumption
<1>1. ASSUME IsPending(ops[k])
      PROVE  /\ Executed(k, TRUE) \in Operation /\ IsPending(Executed(k, TRUE))
             /\ OperationIsSound(k, Executed(k, TRUE))
  BY <1>1 DEF Executed, Operation, IsPending, OperationIsSound, OpenerIsSound, ReadIsSound, WriteIsSound
<1>2. ASSUME ops[k].at = "checking"
      PROVE  /\ IsPending(ops[k])
             /\ at("polling") \in Operation /\ IsPending(at("polling"))
             /\ OperationIsSound(k, at("polling"))
  BY <1>2 DEF Operation, IsPending, OperationIsSound, OpenerIsSound, ReadIsSound, WriteIsSound
<1>3. ASSUME ops[k].at = "polling"
      PROVE  /\ IsPending(ops[k])
             /\ at("ready") \in Operation /\ IsPending(at("ready"))
             /\ OperationIsSound(k, at("ready"))
  BY <1>3 DEF Operation, IsPending, OperationIsSound, OpenerIsSound, ReadIsSound, WriteIsSound
<1>4. ASSUME ops[k].at = "queued", k \notin Opening
      PROVE  /\ IsPending(ops[k])
             /\ at("checking") \in Operation /\ IsPending(at("checking"))
             /\ OperationIsSound(k, at("checking"))
  BY <1>4 DEF Operation, IsPending, OperationIsSound, OpenerIsSound, ReadIsSound, WriteIsSound
<1>5. CASE wait_descriptor(k)
  BY <1>1, <1>2, <1>5, PoolMovesBy DEF wait_descriptor
<1>6. CASE pollReturns(k)
  BY <1>1, <1>3, <1>6, PoolMovesBy DEF pollReturns
<1>7. CASE startTransfer(k)
  BY <1>4, <1>7, PoolMovesBy DEF startTransfer
<1> QED BY <1>5, <1>6, <1>7

LEMMA AcceptingMoves ==
    ASSUME CallsInv, startAccepting \/ executeAccept
    PROVE  "accept" \in Kinds /\ PoolMoves("accept")
<1> DEFINE op == ops["accept"]
<1>0. "accept" \in Kinds
  BY DEF startAccepting, executeAccept
<1>1. op \in Operation /\ OperationIsSound("accept", op)
  BY <1>0, OperationIsTyped
<1> USE <1>0, <1>1 DEF Operation, IsPending, OperationIsSound, OpenerIsSound, Opening
<1>2. CASE startAccepting
  <2> DEFINE new == [op EXCEPT !.at = "checking"]
  <2>1. new \in Operation /\ IsPending(new) /\ IsPending(op) /\ OperationIsSound("accept", new)
    BY <1>2 DEF startAccepting
  <2> QED BY <1>2, <2>1, PoolMovesBy DEF startAccepting
<1>3. CASE executeAccept
  <2> DEFINE made == [Executed("accept", FALSE) EXCEPT !.got = "open"]
  <2>1. IsPending(op)
    BY <1>3 DEF executeAccept
  <2>2. made \in Operation /\ IsPending(made) /\ OperationIsSound("accept", made)
    BY <1>3 DEF executeAccept, Executed
  <2>3. /\ Again("accept") \in Operation /\ IsPending(Again("accept"))
        /\ OperationIsSound("accept", Again("accept"))
    BY <1>3 DEF executeAccept, Again
  <2>4. /\ Executed("accept", TRUE) \in Operation /\ IsPending(Executed("accept", TRUE))
        /\ OperationIsSound("accept", Executed("accept", TRUE))
    BY <1>3 DEF executeAccept, Executed
  <2> HIDE DEF made
  <2>5. /\ Becomes("accept", made) \/ Becomes("accept", Again("accept"))
           \/ Becomes("accept", Executed("accept", TRUE))
        /\ UNCHANGED <<aborted, listener, conn>>
    BY <1>3 DEF executeAccept, made
  <2> QED BY <2>1, <2>2, <2>3, <2>4, <2>5, PoolMovesBy
<1> QED BY <1>2, <1>3

LEMMA ConnectingMoves ==
    ASSUME CallsInv, startConnecting \/ executeConnect
    PROVE  "connect" \in Kinds /\ PoolMoves("connect")
<1> DEFINE op == ops["connect"]
<1>0. "connect" \in Kinds
  BY DEF startConnecting, executeConnect
<1>1. op \in Operation /\ OperationIsSound("connect", op)
  BY <1>0, OperationIsTyped
<1> USE <1>0, <1>1 DEF Operation, IsPending, OperationIsSound, OpenerIsSound, Opening
<1>2. CASE startConnecting
  <2>1. PICK stage \in {"checking", "executed"}, failed \in BOOLEAN :
            Becomes("connect", [op EXCEPT !.at = stage, !.failed = failed, !.got = "open"])
    BY <1>2 DEF startConnecting
  <2> DEFINE new == [op EXCEPT !.at = stage, !.failed = failed, !.got = "open"]
  <2>2. new \in Operation /\ IsPending(new) /\ IsPending(op) /\ OperationIsSound("connect", new)
    BY <1>2 DEF startConnecting
  <2> QED BY <1>2, <2>1, <2>2, PoolMovesBy DEF startConnecting
<1>3. CASE executeConnect
  <2>1. PICK failed \in BOOLEAN : Becomes("connect", Executed("connect", failed))
    BY <1>3 DEF executeConnect
  <2>2. /\ Executed("connect", failed) \in Operation /\ IsPending(Executed("connect", failed))
        /\ IsPending(op) /\ OperationIsSound("connect", Executed("connect", failed))
    BY <1>3 DEF executeConnect, Executed
  <2> QED BY <1>3, <2>1, <2>2, PoolMovesBy DEF executeConnect
<1> QED BY <1>2, <1>3

\* What a transfer adds to the length, and how a read ends.
Longer(op, n) == [op EXCEPT !.length = @ + n]

LEMMA LongerOperation ==
    ASSUME NEW op \in Operation, NEW n \in Nat
    PROVE  /\ Longer(op, n) \in Operation
           /\ Longer(op, n).length = op.length + n
           /\ Longer(op, n).outcome = op.outcome
<1>1. op.length + n \in Nat
  BY DEF Operation
<1> QED BY <1>1 DEF Longer, Operation

LEMMA ReadEnd ==
    ASSUME NEW op \in Operation, op.outcome = "none"
    PROVE  ReadEnds(op) \in Operation /\ IsPending(ReadEnds(op)) /\ OperationIsSound("read", ReadEnds(op))
<1>1. PICK failed \in BOOLEAN : (failed <=> (op.length < MinFrame \/ op.length > MaxFrame))
  OBVIOUS
<1>2. ReadEnds(op) = [op EXCEPT !.at = "executed", !.failed = failed]
  BY <1>1 DEF ReadEnds
<1>3. op.length \in Nat
  BY DEF Operation
<1>4. ~failed => MinFrame <= op.length /\ op.length <= MaxFrame
  BY <1>1, <1>3, FrameAssumption
<1>5. ReadEnds(op) \in Operation
  BY <1>2 DEF Operation
<1> QED
  BY <1>2, <1>4, <1>5 DEF Operation, IsPending, OperationIsSound, ReadIsSound, Opening

LEMMA ReadingMoves ==
    ASSUME CallsInv, executeRead
    PROVE  PoolMoves("read")
<1> DEFINE op == ops["read"]
<1>1. op \in Operation /\ OperationIsSound("read", op) /\ op.at = "ready"
  BY OperationIsTyped, KindsOfASide DEF executeRead
<1>2. op.length \in Nat /\ op.length <= MaxFrame /\ op.outcome = "none" /\ IsPending(op)
  BY <1>1 DEF Operation, OperationIsSound, ReadIsSound, IsPending
<1> USE <1>1, <1>2, FrameAssumption
<1>3. /\ Again("read") \in Operation /\ IsPending(Again("read"))
      /\ OperationIsSound("read", Again("read"))
  BY DEF Again, Operation, IsPending, OperationIsSound, ReadIsSound, Opening
<1>4. /\ Executed("read", TRUE) \in Operation /\ IsPending(Executed("read", TRUE))
      /\ OperationIsSound("read", Executed("read", TRUE))
  BY DEF Executed, Operation, IsPending, OperationIsSound, ReadIsSound, Opening
<1>5. ReadEnds(op) \in Operation /\ IsPending(ReadEnds(op)) /\ OperationIsSound("read", ReadEnds(op))
  BY ReadEnd
<1>6. ASSUME NEW n \in 1 .. MaxFrame + 1 - op.length, Longer(op, n).length <= MaxFrame
      PROVE  LET new == [Longer(op, n) EXCEPT !.at = "checking"]
             IN  new \in Operation /\ IsPending(new) /\ OperationIsSound("read", new)
  <2>0. n \in Nat
    OBVIOUS
  <2>1. PICK l \in Operation : l = Longer(op, n) /\ l.length <= MaxFrame /\ l.outcome = "none"
    <3>1. Longer(op, n) \in Operation /\ Longer(op, n).length = op.length + n /\ Longer(op, n).outcome = op.outcome
      BY <2>0, LongerOperation
    <3> QED BY <1>6, <3>1
  <2> DEFINE new == [l EXCEPT !.at = "checking"]
  <2>2. new \in Operation /\ IsPending(new) /\ OperationIsSound("read", new)
    BY <2>1 DEF Operation, IsPending, OperationIsSound, ReadIsSound, Opening
  <2> QED BY <2>1, <2>2
<1>7. ASSUME NEW n \in 1 .. MaxFrame + 1 - op.length
      PROVE  LET new == ReadEnds(Longer(op, n))
             IN  new \in Operation /\ IsPending(new) /\ OperationIsSound("read", new)
  <2>1. n \in Nat
    OBVIOUS
  <2>2. Longer(op, n) \in Operation /\ Longer(op, n).outcome = "none"
    BY <2>1, LongerOperation
  <2> QED BY <2>2, ReadEnd
<1>8. \/ \E n \in 1 .. MaxFrame + 1 - op.length :
            \/ Longer(op, n).length <= MaxFrame /\ Becomes("read", [Longer(op, n) EXCEPT !.at = "checking"])
            \/ Becomes("read", ReadEnds(Longer(op, n)))
      \/ Becomes("read", ReadEnds(op)) \/ Becomes("read", Again("read"))
      \/ Becomes("read", Executed("read", TRUE))
  BY DEF executeRead, Longer
<1>9. UNCHANGED <<aborted, listener, conn>>
  BY DEF executeRead
<1> QED
  BY <1>3, <1>4, <1>5, <1>6, <1>7, <1>8, <1>9, PoolMovesBy, KindsOfASide

LEMMA WritingMoves ==
    ASSUME CallsInv, executeWrite
    PROVE  PoolMoves("write")
<1> DEFINE op == ops["write"]
<1>1. op \in Operation /\ OperationIsSound("write", op) /\ op.at = "ready"
  BY OperationIsTyped, KindsOfASide DEF executeWrite
<1>2. op.length \in Nat /\ op.length < MaxFrame /\ op.outcome = "none" /\ IsPending(op)
  BY <1>1 DEF Operation, OperationIsSound, WriteIsSound, IsPending
<1> USE <1>1, <1>2, FrameAssumption
<1>3. /\ Again("write") \in Operation /\ IsPending(Again("write"))
      /\ OperationIsSound("write", Again("write"))
  BY DEF Again, Operation, IsPending, OperationIsSound, WriteIsSound, Opening
<1>4. /\ Executed("write", TRUE) \in Operation /\ IsPending(Executed("write", TRUE))
      /\ OperationIsSound("write", Executed("write", TRUE))
  BY DEF Executed, Operation, IsPending, OperationIsSound, WriteIsSound, Opening
<1>5. ASSUME NEW n \in 1 .. MaxFrame - op.length, Longer(op, n).length < MaxFrame
      PROVE  LET new == [Longer(op, n) EXCEPT !.at = "checking"]
             IN  new \in Operation /\ IsPending(new) /\ OperationIsSound("write", new)
  <2>0. n \in Nat
    OBVIOUS
  <2>1. PICK l \in Operation : l = Longer(op, n) /\ l.length < MaxFrame /\ l.outcome = "none"
    <3>1. Longer(op, n) \in Operation /\ Longer(op, n).length = op.length + n /\ Longer(op, n).outcome = op.outcome
      BY <2>0, LongerOperation
    <3> QED BY <1>5, <3>1
  <2> DEFINE new == [l EXCEPT !.at = "checking"]
  <2>2. new \in Operation /\ IsPending(new) /\ OperationIsSound("write", new)
    BY <2>1 DEF Operation, IsPending, OperationIsSound, WriteIsSound, Opening
  <2> QED BY <2>1, <2>2
<1>6. ASSUME NEW n \in 1 .. MaxFrame - op.length, NEW failed \in BOOLEAN,
             ~(Longer(op, n).length < MaxFrame)
      PROVE  LET new == [Longer(op, n) EXCEPT !.at = "executed", !.failed = failed]
             IN  new \in Operation /\ IsPending(new) /\ OperationIsSound("write", new)
  <2>0. n \in Nat
    OBVIOUS
  <2>1. PICK l \in Operation : l = Longer(op, n) /\ l.length = MaxFrame /\ l.outcome = "none"
    <3>1. Longer(op, n) \in Operation /\ Longer(op, n).length = op.length + n /\ Longer(op, n).outcome = op.outcome
      BY <2>0, LongerOperation
    <3> QED BY <1>6, <3>1
  <2> DEFINE new == [l EXCEPT !.at = "executed", !.failed = failed]
  <2>2. new \in Operation /\ IsPending(new) /\ OperationIsSound("write", new)
    BY <2>1 DEF Operation, IsPending, OperationIsSound, WriteIsSound, Opening
  <2> QED BY <2>1, <2>2
<1>7. \/ \E n \in 1 .. MaxFrame - op.length, failed \in BOOLEAN :
            \/ Longer(op, n).length < MaxFrame /\ Becomes("write", [Longer(op, n) EXCEPT !.at = "checking"])
            \/ /\ ~(Longer(op, n).length < MaxFrame)
               /\ Becomes("write", [Longer(op, n) EXCEPT !.at = "executed", !.failed = failed])
      \/ Becomes("write", Again("write"))
      \/ Becomes("write", Executed("write", TRUE))
  BY DEF executeWrite, Longer
<1>8. UNCHANGED <<aborted, listener, conn>>
  BY DEF executeWrite
<1> QED
  BY <1>3, <1>4, <1>5, <1>6, <1>7, <1>8, PoolMovesBy, KindsOfASide

LEMMA PoolStepInv ==
    ASSUME CallsInv, NEW k \in Kinds, PoolStep(k)
    PROVE  CallsInv'
<1>1. PoolMoves(k)
  BY WaitingMoves, AcceptingMoves, ConnectingMoves, ReadingMoves, WritingMoves DEF PoolStep
<1> QED BY <1>1, PoolMovesInv

LEMMA AbortInv ==
    ASSUME CallsInv, abort
    PROVE  CallsInv'
<1> USE KindsOfASide, OperationIsTyped
<1>1. \A k \in Kinds : Pending(k) <=> IsPending(ops[k])
  BY DEF Pending, IsPending
<1>2. \A k \in Kinds :
        ops'[k] = IF IsPending(ops[k]) THEN abort_operation(ops[k]) ELSE ops[k]
  BY <1>1 DEF abort
<1>3. \A k \in Kinds : ops'[k] \in Operation
  <2> TAKE k \in Kinds
  <2>0. ops[k] \in Operation
    OBVIOUS
  <2>1. abort_operation(ops[k]) \in Operation
    BY <2>0 DEF abort_operation, Operation
  <2> QED BY <1>2, <2>1
<1>4. CallTypes'
  BY <1>3 DEF CallsInv, CallTypes, abort
<1>5. \A k \in Kinds : IsPending(ops[k]) => OperationIsSound(k, abort_operation(ops[k]))
  BY DEF abort_operation, Operation, OperationIsSound, OpenerIsSound, ReadIsSound, WriteIsSound, IsPending
<1>6. \A k \in Kinds : OperationIsSound(k, ops'[k])
  BY <1>2, <1>5
<1>7. \A k \in Kinds : ops'[k].at = ops[k].at
  BY <1>2 DEF abort_operation, Operation
<1>8. AcceptKeepsListener' /\ TransferKeepsConnection' /\ ConnectionIsMade'
  BY <1>7 DEF CallsInv, AcceptKeepsListener, TransferKeepsConnection, ConnectionIsMade, IsPending, abort
<1> QED BY <1>4, <1>6, <1>8 DEF CallsInv

LEMMA SettledIsSound ==
    ASSUME CallsInv, NEW k \in Kinds, NEW made \in BOOLEAN, ops[k].at = "executed"
    PROVE  /\ Settled(k, made) \in Operation
           /\ Settled(k, made).at = "settled"
           /\ OperationIsSound(k, Settled(k, made))
<1>1. ops[k] \in Operation /\ OperationIsSound(k, ops[k])
  BY OperationIsTyped
<1>2. PICK good \in BOOLEAN : (good <=> Succeeded(k, made))
  OBVIOUS
<1>3. good => ~ops[k].failed /\ ~ops[k].cancelled
  BY <1>2 DEF Succeeded
<1>4. Settled(k, made) =
        [ops[k] EXCEPT !.at = "settled",
                       !.outcome = IF good THEN "resolved" ELSE "rejected",
                       !.got = IF @ = "open" THEN (IF good THEN "passed" ELSE "closed") ELSE @]
  BY <1>2 DEF Settled
<1>5. Settled(k, made) \in Operation
  BY <1>1, <1>4 DEF Operation
<1>6. /\ Settled(k, made).at = "settled"
      /\ Settled(k, made).outcome = IF good THEN "resolved" ELSE "rejected"
      /\ Settled(k, made).got = IF ops[k].got = "open" THEN (IF good THEN "passed" ELSE "closed") ELSE ops[k].got
      /\ Settled(k, made).cancelled = ops[k].cancelled
      /\ Settled(k, made).length = ops[k].length
  BY <1>1, <1>4 DEF Operation
<1>7. k \in Opening => OpenerIsSound(k, Settled(k, made))
  BY <1>1, <1>3, <1>6 DEF OperationIsSound, OpenerIsSound
<1>8. k = "read" => ReadIsSound(Settled(k, made))
  BY <1>1, <1>3, <1>6 DEF OperationIsSound, ReadIsSound
<1>9. k = "write" => WriteIsSound(Settled(k, made))
  BY <1>1, <1>3, <1>6 DEF OperationIsSound, WriteIsSound
<1> QED BY <1>3, <1>5, <1>6, <1>7, <1>8, <1>9 DEF OperationIsSound

\* One operation changes and the objects may.
LEMMA OneOperationChanges ==
    ASSUME CallsInv, NEW k \in Kinds, NEW op \in Operation, OperationIsSound(k, op), Becomes(k, op)
    PROVE  /\ ops' \in [Kinds -> Operation]
           /\ \A j \in Kinds : OperationIsSound(j, ops'[j])
           /\ ops'[k] = op
           /\ \A j \in Kinds \ {k} : ops'[j] = ops[j]
<1>1. ops' = [ops EXCEPT ![k] = op] /\ ops \in [Kinds -> Operation]
  BY DEF Becomes, CallsInv, CallTypes
<1>2. ops'[k] = op /\ \A j \in Kinds \ {k} : ops'[j] = ops[j]
  BY <1>1
<1>3. \A j \in Kinds : OperationIsSound(j, ops'[j])
  BY <1>2 DEF CallsInv
<1> QED BY <1>1, <1>2, <1>3

\* While nothing has been opened nothing is transferred.
LEMMA NothingToTransfer ==
    ASSUME CallsInv, conn = NoConnection
    PROVE  ~IsPending(ops["read"]) /\ ~IsPending(ops["write"])
BY DEF CallsInv, TransferKeepsConnection, NoConnection

LEMMA CompleteOpeningInv ==
    ASSUME CallsInv, NEW made \in BOOLEAN,
           ("accept" \in Kinds /\ completeAccept(made)) \/ ("connect" \in Kinds /\ completeConnect(made))
    PROVE  CallsInv'
<1> USE KindsOfASide
<1>1. PICK k \in Opening \cap Kinds :
        /\ ops[k].at = "executed"
        /\ Becomes(k, Settled(k, made))
        /\ conn' = IF Succeeded(k, made) THEN NewConnection ELSE conn
        /\ \/ listener' = [listener EXCEPT !.busy = FALSE, !.session = Succeeded(k, made)]
           \/ listener' = listener
        /\ UNCHANGED aborted
  <2>1. CASE "accept" \in Kinds /\ completeAccept(made)
    BY <2>1 DEF completeAccept
  <2>2. CASE "connect" \in Kinds /\ completeConnect(made)
    BY <2>2 DEF completeConnect
  <2> QED BY <2>1, <2>2
<1>2. conn = NoConnection
  BY <1>1 DEF CallsInv, ConnectionIsMade
<1>3. ~IsPending(ops["read"]) /\ ~IsPending(ops["write"])
  BY <1>2, NothingToTransfer
<1>4. /\ Settled(k, made) \in Operation
      /\ Settled(k, made).at = "settled"
      /\ OperationIsSound(k, Settled(k, made))
  BY <1>1, SettledIsSound
<1>5. /\ ops' \in [Kinds -> Operation]
      /\ \A j \in Kinds : OperationIsSound(j, ops'[j])
      /\ ops'[k] = Settled(k, made)
      /\ \A j \in Kinds \ {k} : ops'[j] = ops[j]
  BY <1>1, <1>4, OneOperationChanges
<1>6. listener' \in Listener
  <2>1. PICK good \in BOOLEAN : (good <=> Succeeded(k, made))
    OBVIOUS
  <2>2. listener \in Listener
    BY DEF CallsInv, CallTypes
  <2>3. [listener EXCEPT !.busy = FALSE, !.session = good] \in Listener
    BY <2>2 DEF Listener
  <2>4. Succeeded(k, made) = good
    BY <2>1 DEF Succeeded
  <2> QED BY <1>1, <2>2, <2>3, <2>4
<1>7. conn' \in Connection
  BY <1>1, <1>2 DEF NewConnection, NoConnection, Connection
<1>8. CallTypes'
  BY <1>1, <1>5, <1>6, <1>7 DEF CallsInv, CallTypes
<1>9. AcceptKeepsListener' /\ ConnectionIsMade'
  BY <1>1, <1>4, <1>5 DEF AcceptKeepsListener, ConnectionIsMade, IsPending
<1>10. TransferKeepsConnection'
  BY <1>1, <1>3, <1>5 DEF TransferKeepsConnection
<1> QED BY <1>5, <1>8, <1>9, <1>10 DEF CallsInv

LEMMA CompleteOperationInv ==
    ASSUME CallsInv, NEW k \in Kinds, NEW made \in BOOLEAN, complete_operation(k, made)
    PROVE  CallsInv'
<1> USE KindsOfASide
<1>1. /\ k \notin Opening /\ ops[k].at = "executed" /\ IsPending(ops[k])
      /\ Becomes(k, Settled(k, made))
      /\ UNCHANGED <<aborted, listener>>
  BY DEF complete_operation, IsPending
<1>2. k \in {"read", "write"}
  BY <1>1
<1>3. conn \in Connection /\ conn.fd = "open"
  BY <1>1, <1>2 DEF CallsInv, CallTypes, TransferKeepsConnection
<1>4. PICK phase \in 0 .. 4 : conn' = [conn EXCEPT !.busy = FALSE, !.phase = phase]
  <2> DEFINE moved == Side = "client" /\ ~ops[k].failed /\ ~ops[k].cancelled
             phase == IF moved THEN (IF k = "write" THEN 2 ELSE 3) ELSE conn.phase
  <2>1. conn' = [conn EXCEPT !.busy = FALSE, !.phase = phase]
    BY <1>3 DEF complete_operation, Connection
  <2>2. phase \in 0 .. 4
    <3>1. conn.phase \in 0 .. 4
      BY <1>3 DEF Connection
    <3> HIDE DEF moved
    <3> QED BY <3>1
  <2> QED BY <2>1, <2>2
<1>5. conn' \in Connection
  BY <1>3, <1>4 DEF Connection
<1>6. /\ Settled(k, made) \in Operation
      /\ Settled(k, made).at = "settled"
      /\ OperationIsSound(k, Settled(k, made))
  BY <1>1, SettledIsSound
<1>7. /\ ops' \in [Kinds -> Operation]
      /\ \A j \in Kinds : OperationIsSound(j, ops'[j])
      /\ ops'[k] = Settled(k, made)
      /\ \A j \in Kinds \ {k} : ops'[j] = ops[j]
  BY <1>1, <1>6, OneOperationChanges
<1>8. CallTypes'
  BY <1>1, <1>5, <1>7 DEF CallsInv, CallTypes
<1>9. AcceptKeepsListener'
  BY <1>1, <1>7 DEF CallsInv, AcceptKeepsListener
<1>10. TransferKeepsConnection'
  BY <1>1, <1>2, <1>6, <1>7 DEF CallsInv, TransferKeepsConnection, IsPending
<1>11. ConnectionIsMade'
  BY <1>1, <1>3, <1>7 DEF CallsInv, ConnectionIsMade, NoConnection
<1> QED BY <1>7, <1>8, <1>9, <1>10, <1>11 DEF CallsInv

\* The objects change and the operations do not: what is busy stays as it is,
\* and no connection appears.
ObjectsMove ==
    /\ UNCHANGED <<aborted, ops>>
    /\ listener' \in Listener /\ conn' \in Connection
    /\ listener.fd = "open" /\ listener.busy => listener'.fd = "open" /\ listener'.busy
    /\ (IsPending(ops["read"]) \/ IsPending(ops["write"])) => conn'.fd = "open" /\ conn'.busy
    /\ conn = NoConnection => conn' = NoConnection

LEMMA ObjectsMoveInv ==
    ASSUME CallsInv, ObjectsMove
    PROVE  CallsInv'
<1> USE KindsOfASide DEF ObjectsMove
<1>1. CallTypes'
  BY DEF CallsInv, CallTypes
<1>2. AcceptKeepsListener' /\ TransferKeepsConnection' /\ ConnectionIsMade'
  BY DEF CallsInv, AcceptKeepsListener, TransferKeepsConnection, ConnectionIsMade
<1> QED BY <1>1, <1>2 DEF CallsInv

LEMMA ListenerCallsMove ==
    ASSUME CallsInv,
           creationEvidence \/ closeAndUnlinkOwned \/ dropListener \/ finalize_listener
    PROVE  ObjectsMove
<1>1. listener \in Listener /\ conn \in Connection /\ UNCHANGED <<aborted, conn, ops>>
  BY DEF CallsInv, CallTypes, creationEvidence, closeAndUnlinkOwned, dropListener, finalize_listener
<1>2. listener' \in Listener
  BY <1>1 DEF Listener, creationEvidence, closeAndUnlinkOwned, dropListener, finalize_listener
<1>3. listener.fd = "open" /\ listener.busy => listener'.fd = "open" /\ listener'.busy
  BY <1>1 DEF Listener, creationEvidence, closeAndUnlinkOwned, dropListener, finalize_listener
<1>4. (IsPending(ops["read"]) \/ IsPending(ops["write"])) => conn.fd = "open" /\ conn.busy
  BY DEF CallsInv, TransferKeepsConnection
<1> QED BY <1>1, <1>2, <1>3, <1>4 DEF ObjectsMove

LEMMA ConnectionCallsMove ==
    ASSUME CallsInv,
           peerCredentials \/ dropConnection \/ close \/ finalize_connection
    PROVE  ObjectsMove
<1>1. listener \in Listener /\ conn \in Connection /\ UNCHANGED <<aborted, ops>>
  BY DEF CallsInv, CallTypes, peerCredentials, dropConnection, close, finalize_connection
<1>2. listener' = listener \/ listener' = [listener EXCEPT !.session = FALSE]
  BY DEF peerCredentials, dropConnection, close, finalize_connection
<1>3. /\ listener' \in Listener
      /\ listener.fd = "open" /\ listener.busy => listener'.fd = "open" /\ listener'.busy
  BY <1>1, <1>2 DEF Listener
<1>4. (IsPending(ops["read"]) \/ IsPending(ops["write"])) => conn.fd = "open" /\ conn.busy
  BY DEF CallsInv, TransferKeepsConnection
<1>5. conn # NoConnection
  BY DEF NoConnection, peerCredentials, dropConnection, close, finalize_connection
<1> DEFINE Phases == 0 .. 4
<1>0. 1 \in Phases /\ 4 \in Phases /\ conn.phase \in Phases
  BY <1>1 DEF Connection
<1>6. CASE peerCredentials
  <2>1. conn' = [conn EXCEPT !.state = "PEER_OBSERVED", !.phase = 1]
    BY <1>6 DEF peerCredentials
  <2>2. conn' \in Connection /\ conn'.fd = conn.fd /\ conn'.busy = conn.busy
    BY <1>0, <1>1, <2>1 DEF Connection
  <2> QED BY <1>1, <1>3, <1>4, <1>5, <2>2 DEF ObjectsMove
<1>7. CASE dropConnection
  <2>1. conn' \in Connection /\ conn'.fd = conn.fd /\ conn'.busy = conn.busy
    BY <1>1, <1>7 DEF Connection, dropConnection
  <2> QED BY <1>1, <1>3, <1>4, <1>5, <2>1 DEF ObjectsMove
<1>8. CASE close
  <2>1. Closed \in Connection
    BY <1>0, <1>1 DEF Closed, Connection
  <2>2. CASE MayClose
    <3>1. conn' = [Closed EXCEPT !.state = "CLOSED"]
      BY <1>8, <2>2 DEF close
    <3>2. conn' \in Connection
      BY <2>1, <3>1 DEF Connection
    <3> QED BY <1>1, <1>3, <1>4, <1>5, <2>2, <3>2 DEF ObjectsMove, MayClose
  <2>3. CASE ~MayClose
    <3>1. conn' = [conn EXCEPT !.state = "CLOSED"]
      BY <1>8, <2>3 DEF close
    <3>2. conn' \in Connection /\ conn'.fd = conn.fd /\ conn'.busy = conn.busy
      BY <1>1, <3>1 DEF Connection
    <3> QED BY <1>1, <1>3, <1>4, <1>5, <3>2 DEF ObjectsMove
  <2> QED BY <2>2, <2>3
<1>9. CASE finalize_connection
  <2>1. conn' \in Connection
    BY <1>0, <1>1, <1>9 DEF Closed, Connection, finalize_connection
  <2>2. ~IsPending(ops["read"]) /\ ~IsPending(ops["write"])
    BY <1>9 DEF finalize_connection, Pending, IsPending
  <2> QED BY <1>1, <1>3, <1>5, <2>1, <2>2 DEF ObjectsMove
<1> QED BY <1>6, <1>7, <1>8, <1>9

\* A queued operation is a new one.
LEMMA QueuedIsSound ==
    LET queued == [NewOperation EXCEPT !.at = "queued"]
    IN  /\ queued \in Operation /\ queued.at = "queued"
        /\ \A k \in Kinds : OperationIsSound(k, queued)
<1> DEFINE queued == [NewOperation EXCEPT !.at = "queued"]
<1>1. NewOperation \in Operation
  BY DEF NewOperation, Operation
<1>2. queued \in Operation
  BY <1>1 DEF Operation
<1>3. /\ queued.at = "queued" /\ queued.outcome = "none" /\ queued.got = "none" /\ queued.length = 0
  BY DEF NewOperation
<1> HIDE DEF queued
<1>4. \A k \in Kinds : OperationIsSound(k, queued)
  BY <1>3, FrameAssumption DEF OperationIsSound, OpenerIsSound, ReadIsSound, WriteIsSound
<1> QED BY <1>2, <1>3, <1>4 DEF queued

LEMMA QueueOpeningInv ==
    ASSUME CallsInv, acceptAuthorizedUnixSocket \/ connectUnixSocket
    PROVE  CallsInv'
<1> USE KindsOfASide
<1> DEFINE queued == [NewOperation EXCEPT !.at = "queued"]
<1>0. listener \in Listener /\ conn \in Connection
  BY DEF CallsInv, CallTypes
<1>1. PICK k \in Opening \cap Kinds :
        /\ ops[k].at = "none"
        /\ Becomes(k, queued)
        /\ UNCHANGED <<aborted, conn>>
        /\ listener' \in Listener
        /\ k = "accept" => listener'.fd = "open" /\ listener'.busy
        /\ k = "connect" => listener' = listener
  <2>1. CASE acceptAuthorizedUnixSocket
    <3>1. /\ listener' = [listener EXCEPT !.consumed = TRUE, !.busy = TRUE]
          /\ listener.fd = "open"
      BY <2>1 DEF acceptAuthorizedUnixSocket
    <3>2. listener' \in Listener /\ listener'.fd = "open" /\ listener'.busy
      BY <1>0, <3>1 DEF Listener
    <3> QED BY <2>1, <3>2 DEF acceptAuthorizedUnixSocket, queue_operation
  <2>2. CASE connectUnixSocket
    BY <1>0, <2>2 DEF connectUnixSocket, queue_operation
  <2> QED BY <2>1, <2>2
<1>2. queued \in Operation /\ OperationIsSound(k, queued) /\ queued.at = "queued"
  BY QueuedIsSound
<1> HIDE DEF queued
<1>3. /\ ops' \in [Kinds -> Operation]
      /\ \A j \in Kinds : OperationIsSound(j, ops'[j])
      /\ ops'[k] = queued
      /\ \A j \in Kinds \ {k} : ops'[j] = ops[j]
  BY <1>1, <1>2, OneOperationChanges
<1>4. CallTypes'
  BY <1>0, <1>1, <1>3 DEF CallsInv, CallTypes
<1>5. AcceptKeepsListener'
  BY <1>1, <1>3 DEF CallsInv, AcceptKeepsListener
<1>6. TransferKeepsConnection'
  BY <1>1, <1>3 DEF CallsInv, TransferKeepsConnection
<1>7. ConnectionIsMade'
  BY <1>1, <1>3 DEF CallsInv, ConnectionIsMade
<1> QED BY <1>3, <1>4, <1>5, <1>6, <1>7 DEF CallsInv

LEMMA CallInv ==
    ASSUME CallsInv, NEW k \in Kinds, call(k)
    PROVE  CallsInv'
<1> USE KindsOfASide
<1> DEFINE queued == [NewOperation EXCEPT !.at = "queued"]
<1>0. /\ conn \in Connection /\ conn.held /\ conn # NoConnection
      /\ k \in {"read", "write"}
      /\ UNCHANGED <<aborted, listener>>
  BY DEF CallsInv, CallTypes, call, NoConnection
<1>1. StateAfter(k) \in {"FIRST_DONE", "SECOND_DONE"}
  BY DEF StateAfter
<1>2. PhaseQueued(k) \in 0 .. 4
  <2>1. conn.phase \in 0 .. 4
    BY <1>0 DEF Connection
  <2> QED BY <2>1 DEF PhaseQueued, PhaseBefore
<1>3. CASE Accepts(k)
  <2>1. /\ Becomes(k, queued)
        /\ conn' = [conn EXCEPT !.state = StateAfter(k), !.phase = PhaseQueued(k), !.busy = TRUE]
    BY <1>3 DEF call, queue_operation
  <2>2. conn.fd = "open" /\ ~conn.busy
    BY <1>3 DEF Accepts
  <2>3. conn' \in Connection /\ conn'.fd = "open" /\ conn'.busy
    BY <1>0, <1>1, <1>2, <2>1, <2>2 DEF Connection
  <2>4. queued \in Operation /\ OperationIsSound(k, queued) /\ queued.at = "queued"
    BY QueuedIsSound
  <2> HIDE DEF queued
  <2>5. /\ ops' \in [Kinds -> Operation]
        /\ \A j \in Kinds : OperationIsSound(j, ops'[j])
        /\ ops'[k] = queued
        /\ \A j \in Kinds \ {k} : ops'[j] = ops[j]
    BY <2>1, <2>4, OneOperationChanges
  <2>6. CallTypes'
    BY <1>0, <2>3, <2>5 DEF CallsInv, CallTypes
  <2>7. ~IsPending(ops["read"]) /\ ~IsPending(ops["write"])
    BY <2>2 DEF CallsInv, TransferKeepsConnection
  <2>8. AcceptKeepsListener'
    BY <1>0, <2>5 DEF CallsInv, AcceptKeepsListener
  <2>9. TransferKeepsConnection'
    BY <1>0, <2>3, <2>5, <2>7 DEF TransferKeepsConnection
  <2>10. ConnectionIsMade'
    BY <1>0, <2>5 DEF CallsInv, ConnectionIsMade
  <2> QED BY <2>5, <2>6, <2>8, <2>9, <2>10 DEF CallsInv
<1>4. CASE ~Accepts(k)
  <2>1. conn' = [conn EXCEPT !.state = StateAfter(k)] /\ UNCHANGED ops
    BY <1>4 DEF call
  <2>2. conn' \in Connection /\ conn'.fd = conn.fd /\ conn'.busy = conn.busy
    BY <1>0, <1>1, <2>1 DEF Connection
  <2>3. (IsPending(ops["read"]) \/ IsPending(ops["write"])) => conn.fd = "open" /\ conn.busy
    BY DEF CallsInv, TransferKeepsConnection
  <2>4. listener \in Listener
    BY DEF CallsInv, CallTypes
  <2>5. ObjectsMove
    BY <1>0, <2>1, <2>2, <2>3, <2>4 DEF ObjectsMove
  <2> QED BY <2>5, ObjectsMoveInv
<1> QED BY <1>3, <1>4

LEMMA CallsNextInv ==
    ASSUME CallsInv, [CallsNext]_callVars
    PROVE  CallsInv'
<1>1. CASE abort
  BY <1>1, AbortInv
<1>2. ASSUME NEW k \in Kinds, PoolStep(k)
      PROVE  CallsInv'
  BY <1>2, PoolStepInv
<1>3. ASSUME NEW k \in Kinds, Completion(k)
      PROVE  CallsInv'
  <2>1. PICK made \in BOOLEAN :
            \/ complete_operation(k, made)
            \/ k = "accept" /\ completeAccept(made)
            \/ k = "connect" /\ completeConnect(made)
    BY <1>3 DEF Completion
  <2> QED BY <2>1, CompleteOperationInv, CompleteOpeningInv
<1>4. ASSUME NEW k \in Kinds, call(k)
      PROVE  CallsInv'
  BY <1>4, CallInv
<1>5. CASE acceptAuthorizedUnixSocket \/ connectUnixSocket
  BY <1>5, QueueOpeningInv
<1>6. CASE creationEvidence \/ closeAndUnlinkOwned \/ dropListener \/ finalize_listener
  BY <1>6, ListenerCallsMove, ObjectsMoveInv
<1>7. CASE peerCredentials \/ dropConnection \/ close \/ finalize_connection
  BY <1>7, ConnectionCallsMove, ObjectsMoveInv
<1>8. CASE UNCHANGED callVars
  BY <1>8 DEF callVars, CallsInv, CallTypes, AcceptKeepsListener, TransferKeepsConnection, ConnectionIsMade
<1> QED
  BY <1>1, <1>2, <1>3, <1>4, <1>5, <1>6, <1>7, <1>8 DEF CallsNext

\* The operations of both addons keep the objects they work on, and each holds
\* what its stage says (the flags of linux-retained-native-listener.c and
\* -client.c).
THEOREM CallsAreSound == CallsSpec => []CallsInv
<1>1. CallsInv /\ [CallsNext]_callVars => CallsInv'
  BY CallsNextInv
<1> QED BY CallsInitInv, <1>1, PTL DEF CallsSpec

\* Whatever the threads, the callbacks and the collector do, and whatever the
\* lengths of a frame: no thread works on a closed descriptor or on one that
\* another uses, none is left to nobody, and no aborted call has a result.
THEOREM DescriptorsStaySafe == CallsSpec => []DescriptorsAreSafe
<1>1. CallsInv => DescriptorsAreSafe
  <2> SUFFICES ASSUME CallsInv PROVE DescriptorsAreSafe
    OBVIOUS
  <2> USE KindsOfASide
  <2>1. DOMAIN ops = Kinds
    BY DEF CallsInv, CallTypes
  <2>2. \A k \in Kinds : Running(k) => IsPending(ops[k])
    BY DEF Running, IsPending
  <2>3. DescriptorsAreAlive
    BY <2>1, <2>2 DEF DescriptorsAreAlive, CallsInv, AcceptKeepsListener, TransferKeepsConnection
  <2>4. NothingIsOrphaned
    BY <2>1 DEF NothingIsOrphaned, CallsInv, OperationIsSound, OpenerIsSound
  <2>5. ResolvedIsComplete
    <3> SUFFICES ASSUME NEW k \in Kinds, ops[k].outcome = "resolved"
                 PROVE  /\ ~ops[k].cancelled
                        /\ k = "read" => ops[k].length \in MinFrame .. MaxFrame
                        /\ k = "write" => ops[k].length = MaxFrame
      BY <2>1 DEF ResolvedIsComplete
    <3>1. OperationIsSound(k, ops[k]) /\ ops[k].length \in Nat
      BY OperationIsTyped DEF Operation
    <3> QED BY <3>1, FrameAssumption DEF OperationIsSound, ReadIsSound, WriteIsSound
  <2> QED BY <2>3, <2>4, <2>5 DEF DescriptorsAreSafe
<1> QED BY <1>1, CallsAreSound, PTL

----------------------------------------------------------------------------
\* Accounts, workspaces and who belongs to them.

\* What identifies a membership, the keys of a request, and a request.
MemberId == [workspace : Emails, user : Emails, via : Invitations \cup {None}]

KeyLists == Seq({"account", "invitee", "workspace"} \X Emails)

Operations == {"idle", "login", "switch", "invite", "accept", "claim", "changeRole", "remove"}

Call ==
    [op : Operations, user : Emails \cup {None}, session : Sessions \cup {None},
     target : Emails \cup Invitations \cup MemberId \cup {None}, keys : KeyLists, locks : Nat,
     read : BOOLEAN, found : SUBSET {"member", "account", "pending"}, again : BOOLEAN]

\* A workspace that another member would not fill beyond every plan.
roomIn(w) == \E plan \in Plans : headcount(w) < plan

\* Rows are of accounts and of workspaces that exist; only the address that
\* registered a workspace is its founder, and one who came by an invitation is
\* who used it.
RowsAreSound ==
    \A n \in DOMAIN members :
        /\ workspaces[members[n].workspace] # None
        /\ members[n].role = "FOUNDER" => members[n].user = members[n].workspace
        /\ members[n].via # None =>
              LET i == members[n].via IN
              /\ invitations[i] # None
              /\ invitations[i].admitted = 1 /\ invitations[i].acceptedBy = members[n].user
              /\ ~invitations[i].claimPending /\ invitations[i].workspace = members[n].workspace

\* A workspace keeps its founder and stays within a plan.
WorkspacesAreSound ==
    \A w \in Emails : workspaces[w] # None => isFounder(w, w) /\ \E plan \in Plans : headcount(w) <= plan

\* An invitation that is open, or open to a claim, has admitted nobody.
InvitationsAreSound ==
    \A i \in Invitations : invitations[i] # None =>
        /\ workspaces[invitations[i].workspace] # None
        /\ invitations[i].admitted \in {0, 1}
        /\ invitations[i].acceptedBy = None => ~invitations[i].claimPending /\ invitations[i].admitted = 0
        /\ invitations[i].claimPending => invitations[i].admitted = 0

SessionsAreSound == \A s \in Sessions : sessions[s] # None => sessions[s].user \in accounts

\* What a request knows, and what it still knows when it has its locks and has
\* read what it depends on.
InSession(c) ==
    /\ c.session \in Sessions /\ sessions[c.session] # None
    /\ c.user \in accounts /\ sessions[c.session].user = c.user

SwitchIsSound(c) ==
    /\ InSession(c) /\ c.target \in Emails /\ c.keys = <<Account(c.user)>>
    /\ c.read => belongs(c.user, c.target)

AcceptIsSound(c) ==
    /\ c.user \in Emails /\ c.target \in Invitations /\ invitations[c.target] # None
    /\ c.keys = acceptKeys(c.target, c.user)
    /\ c.read => roomIn(invitations[c.target].workspace)

ClaimIsMade(c) ==
    /\ InSession(c) /\ c.target \in Invitations /\ invitations[c.target] # None
    /\ c.keys = claimKeys(c.target, c.user)
    /\ c.read => ("member" \in c.found <=> belongs(c.user, invitations[c.target].workspace))
    /\ c.read /\ "member" \notin c.found => roomIn(invitations[c.target].workspace)

ManagementIsSound(c) == c.target \in MemberId /\ c.keys = memberKeys(c.target)

RequestIsSound(c) ==
    /\ c \in Call /\ c.locks <= Len(c.keys) /\ (c.read => c.locks = Len(c.keys))
    /\ c.op \in {"idle", "login"} => c.keys = <<>>
    /\ c.op = "login" => c.user \in accounts /\ c.target \in Emails
    /\ c.op = "switch" => SwitchIsSound(c)
    /\ c.op = "invite" => c.target \in Emails /\ c.keys = <<Workspace(c.target)>>
    /\ c.op = "accept" => AcceptIsSound(c)
    /\ c.op = "claim" => ClaimIsMade(c)
    /\ c.op \in {"changeRole", "remove"} => ManagementIsSound(c)

RequestsAreSound == calls \in [Calls -> Call] /\ \A k \in Calls : RequestIsSound(calls[k])

LocksAreExclusive == \A j, k \in Calls : j # k => held(calls[j]) \cap held(calls[k]) = {}

TablesHold ==
    /\ MembersTypeOK /\ RowsAreSound /\ WorkspacesAreSound /\ InvitationsAreSound /\ SessionsAreSound
    /\ SessionsFollowMembership

MembersInvariant == TablesHold /\ RequestsAreSound /\ LocksAreExclusive

-----------------------------------------------------------------------------
(* Rows *)

\* What a membership is made of.
LEMMA RowsAreTyped ==
    ASSUME MembersTypeOK, NEW n \in DOMAIN members
    PROVE  /\ members[n] \in MemberRow /\ n \in 1 .. Len(members) /\ Len(members) \in Nat
           /\ members[n].user \in Emails /\ members[n].workspace \in Emails
           /\ members[n].role \in Roles \cup {"FOUNDER"} /\ members[n].via \in Invitations \cup {None}
<1>1. members \in Seq(MemberRow)
  BY DEF MembersTypeOK
<1>2. members[n] \in MemberRow /\ n \in 1 .. Len(members) /\ Len(members) \in Nat
  BY <1>1
<1> QED BY <1>2 DEF MemberRow

\* Memberships of a workspace can be counted.
LEMMA HeadcountIsNatural ==
    ASSUME MembersTypeOK, NEW w
    PROVE  /\ IsFiniteSet({n \in DOMAIN members : members[n].workspace = w})
           /\ headcount(w) \in Nat
<1> DEFINE S == {n \in DOMAIN members : members[n].workspace = w}
<1>1. Len(members) \in Nat /\ DOMAIN members = 1 .. Len(members)
  BY DEF MembersTypeOK
<1>2. IsFiniteSet(1 .. Len(members))
  BY <1>1, FS_Interval
<1>3. S \subseteq 1 .. Len(members)
  BY <1>1
<1>4. IsFiniteSet(S)
  BY <1>2, <1>3, FS_Subset
<1> QED BY <1>4, FS_CardinalityType DEF headcount

\* A new row at the end.
LEMMA RowsAfterAppend ==
    ASSUME MembersTypeOK, NEW m \in MemberRow, members' = Append(members, m)
    PROVE  /\ members' \in Seq(MemberRow)
           /\ DOMAIN members' = DOMAIN members \cup {Len(members) + 1}
           /\ Len(members) + 1 \notin DOMAIN members
           /\ members'[Len(members) + 1] = m
           /\ \A n \in DOMAIN members : members'[n] = members[n]
<1>1. members \in Seq(MemberRow) /\ Len(members) \in Nat /\ DOMAIN members = 1 .. Len(members)
  BY DEF MembersTypeOK
<1>2. members' \in Seq(MemberRow) /\ Len(members') = Len(members) + 1
  BY <1>1
<1>3. DOMAIN members' = 1 .. Len(members) + 1
  BY <1>1, <1>2
<1>4. DOMAIN members' = DOMAIN members \cup {Len(members) + 1} /\ Len(members) + 1 \notin DOMAIN members
  BY <1>1, <1>3
<1>5. members'[Len(members) + 1] = m /\ \A n \in DOMAIN members : members'[n] = members[n]
  BY <1>1
<1> QED BY <1>2, <1>4, <1>5

\* Its user belongs to its workspace, which has one member more; all else is as before.
LEMMA FactsAfterAppend ==
    ASSUME MembersTypeOK, NEW m \in MemberRow, members' = Append(members, m)
    PROVE  /\ \A u, w : belongs(u, w)' <=> belongs(u, w) \/ (u = m.user /\ w = m.workspace)
           /\ \A u, w : isFounder(u, w)' <=>
                 isFounder(u, w) \/ (u = m.user /\ w = m.workspace /\ m.role = "FOUNDER")
           /\ \A w : w # m.workspace => headcount(w)' = headcount(w)
           /\ headcount(m.workspace)' = headcount(m.workspace) + 1
<1>1. /\ DOMAIN members' = DOMAIN members \cup {Len(members) + 1}
      /\ Len(members) + 1 \notin DOMAIN members
      /\ members'[Len(members) + 1] = m
      /\ \A n \in DOMAIN members : members'[n] = members[n]
  BY RowsAfterAppend
<1>2. \A u, w : belongs(u, w)' <=> belongs(u, w) \/ (u = m.user /\ w = m.workspace)
  BY <1>1 DEF belongs
<1>3. \A u, w : isFounder(u, w)' <=>
          isFounder(u, w) \/ (u = m.user /\ w = m.workspace /\ m.role = "FOUNDER")
  BY <1>1 DEF isFounder
<1>4. ASSUME NEW w, w # m.workspace PROVE headcount(w)' = headcount(w)
  <2>1. {n \in DOMAIN members' : members'[n].workspace = w} = {n \in DOMAIN members : members[n].workspace = w}
    BY <1>1, <1>4
  <2> QED BY <2>1 DEF headcount
<1>5. headcount(m.workspace)' = headcount(m.workspace) + 1
  <2> DEFINE S == {n \in DOMAIN members : members[n].workspace = m.workspace}
             T == {n \in DOMAIN members' : members'[n].workspace = m.workspace}
  <2>1. T = S \cup {Len(members) + 1} /\ Len(members) + 1 \notin S
    BY <1>1
  <2>2. IsFiniteSet(S)
    BY HeadcountIsNatural
  <2>3. PICK C : C = S
    OBVIOUS
  <2>4. Cardinality(C \cup {Len(members) + 1}) = Cardinality(C) + 1
    <3> HIDE DEF S
    <3> QED BY <2>1, <2>2, <2>3, FS_AddElement
  <2> QED BY <2>1, <2>3, <2>4 DEF headcount
<1> QED BY <1>2, <1>3, <1>4, <1>5

\* A row that is taken out.
LEMMA RowsAfterRemoval ==
    ASSUME MembersTypeOK, NEW n \in DOMAIN members, members' = Without(members, n)
    PROVE  /\ members' \in Seq(MemberRow)
           /\ DOMAIN members' = 1 .. Len(members) - 1
           /\ \A i \in DOMAIN members' :
                 \E j \in DOMAIN members : j = (IF i < n THEN i ELSE i + 1) /\ j # n /\ members'[i] = members[j]
           /\ \A j \in DOMAIN members : j # n =>
                 \E i \in DOMAIN members' : j = (IF i < n THEN i ELSE i + 1) /\ members'[i] = members[j]
<1>1. /\ members \in Seq(MemberRow) /\ Len(members) \in Nat /\ DOMAIN members = 1 .. Len(members)
      /\ n \in 1 .. Len(members)
  BY DEF MembersTypeOK
<1>2. DOMAIN members' = 1 .. Len(members) - 1
  BY DEF Without
<1>3. ASSUME NEW i \in DOMAIN members'
      PROVE  \E j \in DOMAIN members : j = (IF i < n THEN i ELSE i + 1) /\ j # n /\ members'[i] = members[j]
  BY <1>1, <1>2 DEF Without
<1>4. ASSUME NEW j \in DOMAIN members, j # n
      PROVE  \E i \in DOMAIN members' : j = (IF i < n THEN i ELSE i + 1) /\ members'[i] = members[j]
  <2>1. CASE j < n
    <3>1. j \in DOMAIN members' /\ members'[j] = members[j]
      BY <1>1, <1>2, <2>1 DEF Without
    <3> QED BY <2>1, <3>1
  <2>2. CASE j > n
    <3>1. /\ j - 1 \in DOMAIN members' /\ ~(j - 1 < n) /\ (j - 1) + 1 = j
          /\ members'[j - 1] = members[(j - 1) + 1]
      BY <1>1, <1>2, <2>2 DEF Without
    <3> QED BY <3>1
  <2> QED BY <1>1, <1>4, <2>1, <2>2
<1>5. \A i \in 1 .. Len(members) - 1 : members'[i] \in MemberRow
  BY <1>1, <1>2, <1>3
<1>6. members' = [i \in 1 .. Len(members) - 1 |-> IF i < n THEN members[i] ELSE members[i + 1]]
  BY DEF Without
<1>7. members' \in [1 .. Len(members) - 1 -> MemberRow]
  BY <1>5, <1>6
<1>8. Len(members) - 1 \in Nat
  BY <1>1
<1>9. members' \in Seq(MemberRow)
  BY <1>7, <1>8
<1> QED BY <1>2, <1>3, <1>4, <1>9

\* Its user has left its workspace, founders stay, and no workspace has grown.
LEMMA FactsAfterRemoval ==
    ASSUME MembersTypeOK, NEW n \in DOMAIN members, members' = Without(members, n)
    PROVE  /\ \A u, w : belongs(u, w)' <=>
                 belongs(u, w) /\ ~(u = members[n].user /\ w = members[n].workspace)
           /\ members[n].role # "FOUNDER" => \A u, w : isFounder(u, w)' <=> isFounder(u, w)
           /\ \A w : headcount(w)' \in Nat /\ headcount(w)' <= headcount(w)
<1>1. /\ \A i \in DOMAIN members' :
            \E j \in DOMAIN members : j = (IF i < n THEN i ELSE i + 1) /\ j # n /\ members'[i] = members[j]
      /\ \A j \in DOMAIN members : j # n =>
            \E i \in DOMAIN members' : j = (IF i < n THEN i ELSE i + 1) /\ members'[i] = members[j]
      /\ DOMAIN members' = 1 .. Len(members) - 1
  BY RowsAfterRemoval
<1>2. \A m \in DOMAIN members :
          members[m].user = members[n].user /\ members[m].workspace = members[n].workspace => m = n
  BY DEF MembersTypeOK
<1>3. ASSUME NEW u, NEW w
      PROVE  belongs(u, w)' <=> belongs(u, w) /\ ~(u = members[n].user /\ w = members[n].workspace)
  <2>1. ASSUME belongs(u, w)'
        PROVE  belongs(u, w) /\ ~(u = members[n].user /\ w = members[n].workspace)
    <3>1. PICK i \in DOMAIN members' : members'[i].user = u /\ members'[i].workspace = w
      BY <2>1 DEF belongs
    <3>2. PICK j \in DOMAIN members : j # n /\ members'[i] = members[j]
      BY <1>1
    <3> QED BY <1>2, <3>1, <3>2 DEF belongs
  <2>2. ASSUME belongs(u, w), ~(u = members[n].user /\ w = members[n].workspace) PROVE belongs(u, w)'
    <3>1. PICK j \in DOMAIN members : members[j].user = u /\ members[j].workspace = w
      BY <2>2 DEF belongs
    <3>2. j # n
      BY <2>2, <3>1
    <3>3. PICK i \in DOMAIN members' : members'[i] = members[j]
      BY <1>1, <3>2
    <3> QED BY <3>1, <3>3 DEF belongs
  <2> QED BY <2>1, <2>2
<1>4. ASSUME members[n].role # "FOUNDER", NEW u, NEW w PROVE isFounder(u, w)' <=> isFounder(u, w)
  <2>1. ASSUME isFounder(u, w)' PROVE isFounder(u, w)
    <3>1. PICK i \in DOMAIN members' :
              members'[i].user = u /\ members'[i].workspace = w /\ members'[i].role = "FOUNDER"
      BY <2>1 DEF isFounder
    <3>2. PICK j \in DOMAIN members : j # n /\ members'[i] = members[j]
      BY <1>1
    <3> QED BY <3>1, <3>2 DEF isFounder
  <2>2. ASSUME isFounder(u, w) PROVE isFounder(u, w)'
    <3>1. PICK j \in DOMAIN members :
              members[j].user = u /\ members[j].workspace = w /\ members[j].role = "FOUNDER"
      BY <2>2 DEF isFounder
    <3>2. j # n
      BY <1>4, <3>1
    <3>3. PICK i \in DOMAIN members' : members'[i] = members[j]
      BY <1>1, <3>2
    <3> QED BY <3>1, <3>3 DEF isFounder
  <2> QED BY <2>1, <2>2
<1>5. ASSUME NEW w PROVE headcount(w)' \in Nat /\ headcount(w)' <= headcount(w)
  <2> DEFINE S == {j \in DOMAIN members : members[j].workspace = w}
             T == {i \in DOMAIN members' : members'[i].workspace = w}
             f == [i \in T |-> IF i < n THEN i ELSE i + 1]
  <2>1. Len(members) \in Nat /\ DOMAIN members = 1 .. Len(members) /\ n \in 1 .. Len(members)
    BY DEF MembersTypeOK
  <2>2. ASSUME NEW i \in T PROVE f[i] \in S
    <3>1. PICK j \in DOMAIN members : j = (IF i < n THEN i ELSE i + 1) /\ members'[i] = members[j]
      BY <1>1
    <3> QED BY <3>1
  <2>3. ASSUME NEW i \in T, NEW j \in T, f[i] = f[j] PROVE i = j
    <3>1. i \in DOMAIN members' /\ j \in DOMAIN members' /\ DOMAIN members' = 1 .. Len(members) - 1
      BY <1>1
    <3>2. i \in Nat /\ j \in Nat /\ n \in Nat
      BY <2>1, <3>1
    <3> QED BY <2>3, <3>2
  <2>4. f \in Injection(T, S)
    BY <2>2, <2>3 DEF Injection, IsInjective
  <2>5. IsFiniteSet(S) /\ headcount(w) \in Nat
    BY HeadcountIsNatural
  <2>6. PICK g, A, B : g = f /\ A = T /\ B = S
    OBVIOUS
  <2>7. IsFiniteSet(A) /\ Cardinality(A) <= Cardinality(B)
    <3> HIDE DEF f, S, T
    <3> QED BY <2>4, <2>5, <2>6, FS_Injection
  <2>8. Cardinality(A) \in Nat
    BY <2>7, FS_CardinalityType
  <2>9. headcount(w)' = Cardinality(T) /\ headcount(w) = Cardinality(S)
    BY DEF headcount
  <2> QED BY <2>6, <2>7, <2>8, <2>9
<1> QED BY <1>3, <1>4, <1>5

\* Rows that get another role.
RolesChange(M, role) ==
    members' = [n \in DOMAIN members |->
                   IF n \in M THEN [members[n] EXCEPT !.role = role] ELSE members[n]]

\* Some rows get another role.
LEMMA RowsAfterRoleChange ==
    ASSUME MembersTypeOK, NEW M, NEW role \in Roles, RolesChange(M, role)
    PROVE  /\ members' \in Seq(MemberRow) /\ DOMAIN members' = DOMAIN members
           /\ \A n \in DOMAIN members :
                 /\ members'[n].user = members[n].user /\ members'[n].workspace = members[n].workspace
                 /\ members'[n].via = members[n].via
                 /\ members'[n].role = IF n \in M THEN role ELSE members[n].role
<1>1. members \in Seq(MemberRow) /\ Len(members) \in Nat /\ DOMAIN members = 1 .. Len(members)
  BY DEF MembersTypeOK
<1>2. ASSUME NEW n \in DOMAIN members
      PROVE  /\ members'[n] \in MemberRow
             /\ members'[n].user = members[n].user /\ members'[n].workspace = members[n].workspace
             /\ members'[n].via = members[n].via
             /\ members'[n].role = IF n \in M THEN role ELSE members[n].role
  <2>1. members[n] \in MemberRow
    BY <1>1
  <2>2. members'[n] = IF n \in M THEN [members[n] EXCEPT !.role = role] ELSE members[n]
    BY DEF RolesChange
  <2> QED BY <2>1, <2>2 DEF MemberRow
<1>3. DOMAIN members' = DOMAIN members
  BY DEF RolesChange
<1>4. members' \in [1 .. Len(members) -> MemberRow]
  BY <1>1, <1>2 DEF RolesChange
<1>5. members' \in Seq(MemberRow)
  BY <1>1, <1>4
<1> QED BY <1>2, <1>3, <1>5

\* When none of them is a founder's, everybody stays where and what they were.
LEMMA FactsAfterRoleChange ==
    ASSUME MembersTypeOK, MembersAssumption, NEW M, NEW role \in Roles, RolesChange(M, role),
           \A n \in DOMAIN members : n \in M => members[n].role # "FOUNDER"
    PROVE  /\ \A u, w : belongs(u, w)' <=> belongs(u, w)
           /\ \A u, w : isFounder(u, w)' <=> isFounder(u, w)
           /\ \A w : headcount(w)' = headcount(w)
<1>1. /\ DOMAIN members' = DOMAIN members
      /\ \A n \in DOMAIN members :
            /\ members'[n].user = members[n].user /\ members'[n].workspace = members[n].workspace
            /\ members'[n].role = IF n \in M THEN role ELSE members[n].role
  BY RowsAfterRoleChange
<1>2. role # "FOUNDER"
  BY DEF MembersAssumption
<1>3. \A u, w : belongs(u, w)' <=> belongs(u, w)
  BY <1>1 DEF belongs
<1>4. \A n \in DOMAIN members : members'[n].role = "FOUNDER" <=> members[n].role = "FOUNDER"
  BY <1>1, <1>2
<1>5. \A u, w : isFounder(u, w)' <=> isFounder(u, w)
  BY <1>1, <1>4 DEF isFounder
<1>6. ASSUME NEW w PROVE headcount(w)' = headcount(w)
  <2>1. {n \in DOMAIN members' : members'[n].workspace = w} = {n \in DOMAIN members : members[n].workspace = w}
    BY <1>1
  <2> QED BY <2>1 DEF headcount
<1> QED BY <1>3, <1>5, <1>6

-----------------------------------------------------------------------------
(* Requests and locks *)

\* What a request holds that has taken none, both and the only one of its locks.
LEMMA NothingHeld ==
    ASSUME NEW c, c.locks = 0
    PROVE  held(c) = {}
BY DEF held

LEMMA AllHeld ==
    ASSUME NEW c, NEW a, NEW b, c.keys = <<a, b>>, c.locks = Len(c.keys)
    PROVE  a \in held(c) /\ b \in held(c)
<1>1. c.locks = 2 /\ c.keys[1] = a /\ c.keys[2] = b
  OBVIOUS
<1> QED BY <1>1 DEF held

LEMMA OneHeld ==
    ASSUME NEW c, NEW a, c.keys = <<a>>, c.locks = Len(c.keys)
    PROVE  a \in held(c)
<1>1. c.locks = 1 /\ c.keys[1] = a
  OBVIOUS
<1> QED BY <1>1 DEF held

\* A request that is over knows nothing and holds nothing.
LEMMA IdleIsSound == RequestIsSound(Idle) /\ Idle.locks = 0 /\ Idle \in Call
<1>1. <<>> \in KeyLists
  BY DEF KeyLists
<1>2. /\ Idle.op = "idle" /\ Idle.keys = <<>> /\ Idle.locks = 0 /\ Idle.read = FALSE
  BY DEF Idle, Request
<1>3. Idle \in Call
  BY <1>1 DEF Idle, Request, Call, Operations
<1> QED BY <1>2, <1>3 DEF RequestIsSound

\* A request that changes nothing but itself.
LEMMA OneRequestMoves ==
    ASSUME MembersInvariant, NEW k \in Calls, NEW c, RequestIsSound(c),
           calls' = [calls EXCEPT ![k] = c],
           \A j \in Calls : j # k => held(c) \cap held(calls[j]) = {},
           UNCHANGED <<now, accounts, workspaces, members, invitations, sessions>>
    PROVE  MembersInvariant'
<1>1. calls \in [Calls -> Call] /\ c \in Call
  BY DEF MembersInvariant, RequestsAreSound, RequestIsSound
<1>2. TablesHold'
  <2>1. MembersTypeOK'
    BY DEF MembersInvariant, TablesHold, MembersTypeOK
  <2>2. RowsAreSound' /\ InvitationsAreSound' /\ SessionsAreSound'
    BY DEF MembersInvariant, TablesHold, RowsAreSound, InvitationsAreSound, SessionsAreSound
  <2>3. WorkspacesAreSound'
    BY DEF MembersInvariant, TablesHold, WorkspacesAreSound, isFounder, headcount
  <2>4. SessionsFollowMembership'
    BY DEF MembersInvariant, TablesHold, SessionsFollowMembership, liveSession, belongs
  <2> QED BY <2>1, <2>2, <2>3, <2>4 DEF TablesHold
<1>3. ASSUME NEW d, RequestIsSound(d) PROVE RequestIsSound(d)'
  BY <1>3 DEF RequestIsSound, SwitchIsSound, AcceptIsSound, ClaimIsMade, ManagementIsSound, InSession, roomIn,
         belongs, headcount, acceptKeys, claimKeys
<1>4. \A j \in Calls : RequestIsSound(calls'[j])
  BY <1>1 DEF MembersInvariant, RequestsAreSound
<1>5. \A j \in Calls : RequestIsSound(calls[j])'
  BY <1>3, <1>4
<1>6. calls' \in [Calls -> Call]
  BY <1>1
<1>7. LocksAreExclusive'
  <2>1. \A i, j \in Calls : i # j => held(calls[i]) \cap held(calls[j]) = {}
    BY DEF MembersInvariant, LocksAreExclusive
  <2>2. ASSUME NEW i \in Calls, NEW j \in Calls, i # j PROVE held(calls'[i]) \cap held(calls'[j]) = {}
    <3>1. calls'[k] = c /\ \A h \in Calls : h # k => calls'[h] = calls[h]
      BY <1>1
    <3>2. CASE i = k
      BY <2>2, <3>1, <3>2
    <3>3. CASE j = k
      BY <2>2, <3>1, <3>3
    <3> QED BY <2>1, <2>2, <3>1, <3>2, <3>3
  <2> QED BY <2>2 DEF LocksAreExclusive, held
<1> QED BY <1>2, <1>5, <1>6, <1>7 DEF MembersInvariant, RequestsAreSound

\* A request ends without a change.
LEMMA RequestEnds ==
    ASSUME MembersInvariant, NEW k \in Calls, Finish(k),
           UNCHANGED <<now, accounts, workspaces, members, invitations, sessions>>
    PROVE  MembersInvariant'
<1>1. held(Idle) = {} /\ RequestIsSound(Idle)
  BY IdleIsSound, NothingHeld
<1> QED BY <1>1, OneRequestMoves DEF Finish

\* A request begins without locks.
LEMMA RequestBegins ==
    ASSUME MembersInvariant, NEW k \in Calls, NEW c, Begin(k, c), c.locks = 0, RequestIsSound(c),
           UNCHANGED <<now, accounts, workspaces, members, invitations, sessions>>
    PROVE  MembersInvariant'
<1>1. held(c) = {}
  BY NothingHeld
<1> QED BY <1>1, OneRequestMoves DEF Begin

\* The next key is nobody's.
LEMMA LockIsTaken ==
    ASSUME MembersInvariant, NEW k \in Calls, lockTransactionKey(k)
    PROVE  MembersInvariant'
<1> DEFINE c == calls[k]
           d == [c EXCEPT !.locks = c.locks + 1]
<1>1. c \in Call /\ RequestIsSound(c)
  BY DEF MembersInvariant, RequestsAreSound
<1>2. calls' = [calls EXCEPT ![k] = d]
  BY DEF lockTransactionKey
<1>3. /\ d \in Call /\ d.locks = c.locks + 1 /\ d.op = c.op /\ d.user = c.user /\ d.session = c.session
      /\ d.target = c.target /\ d.keys = c.keys /\ d.read = c.read /\ d.found = c.found
      /\ c.locks \in Nat /\ c.keys \in KeyLists
  BY <1>1 DEF Call
<1>31. Len(c.keys) \in Nat
  BY <1>3 DEF KeyLists
<1>4. c.locks < Len(c.keys) /\ \A j \in Calls : j # k => c.keys[c.locks + 1] \notin held(calls[j])
  BY DEF lockTransactionKey, waitsFor
<1>5. d.locks <= Len(d.keys) /\ ~c.read
  BY <1>1, <1>3, <1>31, <1>4 DEF RequestIsSound
<1>6. held(d) = held(c) \cup {c.keys[c.locks + 1]}
  BY <1>3 DEF held
<1>7. RequestIsSound(d)
  <2> HIDE DEF c, d
  <2> QED
    BY <1>1, <1>3, <1>5 DEF RequestIsSound, SwitchIsSound, AcceptIsSound, ClaimIsMade, ManagementIsSound, InSession
<1>8. \A j \in Calls : j # k => held(d) \cap held(calls[j]) = {}
  BY <1>4, <1>6 DEF MembersInvariant, LocksAreExclusive
<1> HIDE DEF d
<1> QED BY <1>2, <1>7, <1>8, OneRequestMoves DEF lockTransactionKey

\* The lists of keys that requests lock.
LEMMA KeysAreKeys ==
    /\ <<>> \in KeyLists
    /\ \A u \in Emails : <<Account(u)>> \in KeyLists /\ <<Workspace(u)>> \in KeyLists
    /\ \A u, w \in Emails : <<Account(u), Workspace(w)>> \in KeyLists
    /\ \A u, w \in Emails : <<Invitee(u), Workspace(w)>> \in KeyLists
<1>1. \A u \in Emails : Account(u) \in {"account", "invitee", "workspace"} \X Emails /\ Workspace(u) \in {"account", "invitee", "workspace"} \X Emails
                          /\ Invitee(u) \in {"account", "invitee", "workspace"} \X Emails
  BY DEF Account, Workspace, Invitee
<1>2. ASSUME NEW T, NEW a \in T, NEW b \in T PROVE <<>> \in Seq(T) /\ <<a>> \in Seq(T) /\ <<a, b>> \in Seq(T)
  OBVIOUS
<1>3. <<>> \in KeyLists
  BY DEF KeyLists
<1> QED BY <1>1, <1>2, <1>3 DEF KeyLists

\* What the rows are made of.
LEMMA SessionsAreTyped ==
    ASSUME TablesHold, NEW s \in Sessions, sessions[s] # None
    PROVE  /\ sessions[s] \in SessionRow /\ sessions[s].user \in Emails /\ sessions[s].workspace \in Emails
           /\ sessions[s].expiresAt \in Nat /\ sessions[s].user \in accounts
BY DEF TablesHold, MembersTypeOK, SessionRow, SessionsAreSound

\* What an invitation is made of, and that its workspace exists.
LEMMA InvitationsAreTyped ==
    ASSUME TablesHold, NEW i \in Invitations, invitations[i] # None
    PROVE  /\ invitations[i] \in InvitationRow /\ invitations[i].workspace \in Emails /\ invitations[i].role \in Roles
           /\ invitations[i].acceptedBy \in Emails \cup {None}
           /\ workspaces[invitations[i].workspace] # None
           /\ workspaces[invitations[i].workspace] \in WorkspaceRow
BY DEF TablesHold, MembersTypeOK, InvitationRow, InvitationsAreSound

\* Every request that begins knows its session, its target and its keys.
LEMMA RequestsBegin ==
    ASSUME MembersInvariant, NEW k \in Calls,
           \/ \E e \in Emails : login(k, e)
           \/ \E s \in Sessions, w \in Emails : switchWorkspace(k, s, w)
           \/ \E s \in Sessions : createInvitation(k, s)
           \/ \E i \in Invitations, e \in Emails : acceptInvitation(k, i, e)
           \/ \E s \in Sessions, i \in Invitations : acceptInvitationForAuthenticatedUser(k, s, i)
           \/ \E op \in {"changeRole", "remove"}, s \in Sessions, n \in DOMAIN members : manageMember(k, op, s, n)
    PROVE  MembersInvariant'
<1>0. TablesHold /\ MembersTypeOK /\ accounts \subseteq Emails
  BY DEF MembersInvariant, TablesHold, MembersTypeOK
<1>1. ASSUME NEW e \in Emails, login(k, e) PROVE MembersInvariant'
  <2>1. PICK n \in DOMAIN members : Begin(k, Request("login", e, None, members[n].workspace, <<>>))
    BY <1>1 DEF login
  <2>2. members[n].workspace \in Emails
    BY <1>0, RowsAreTyped
  <2>3. PICK c : c = Request("login", e, None, members[n].workspace, <<>>)
    OBVIOUS
  <2>4. c \in Call /\ c.op = "login" /\ c.user = e /\ c.target = members[n].workspace /\ c.keys = <<>>
        /\ c.locks = 0 /\ c.read = FALSE
    BY <2>2, <2>3, KeysAreKeys DEF Operations, Request, Call
  <2>5. RequestIsSound(c)
    BY <1>1, <2>2, <2>4 DEF RequestIsSound, login
  <2> QED BY <1>1, <2>1, <2>3, <2>4, <2>5, RequestBegins DEF login
<1>2. ASSUME NEW s \in Sessions, NEW w \in Emails, switchWorkspace(k, s, w) PROVE MembersInvariant'
  <2>1. sessions[s].user \in Emails /\ sessions[s].user \in accounts /\ sessions[s] # None
    BY <1>0, <1>2, SessionsAreTyped DEF switchWorkspace, canActivate, liveSession
  <2>2. PICK u : u = sessions[s].user
    OBVIOUS
  <2>3. PICK c : c = Request("switch", u, s, w, <<Account(u)>>)
    OBVIOUS
  <2>4. c \in Call /\ c.op = "switch" /\ c.user = u /\ c.target = w /\ c.keys = <<Account(u)>> /\ c.session = s
        /\ c.locks = 0 /\ c.read = FALSE
    BY <2>1, <2>2, <2>3, KeysAreKeys DEF Operations, Request, Call
  <2>5. RequestIsSound(c)
    BY <2>1, <2>2, <2>4 DEF RequestIsSound, SwitchIsSound, InSession
  <2> QED BY <1>2, <2>2, <2>3, <2>4, <2>5, RequestBegins DEF switchWorkspace, switchKeys
<1>3. ASSUME NEW s \in Sessions, createInvitation(k, s) PROVE MembersInvariant'
  <2>1. sessions[s].user \in Emails /\ sessions[s].workspace \in Emails
    BY <1>0, <1>3, SessionsAreTyped DEF createInvitation, canActivate, liveSession
  <2>2. PICK u, w : u = sessions[s].user /\ w = sessions[s].workspace
    OBVIOUS
  <2>3. PICK c : c = Request("invite", u, None, w, <<Workspace(w)>>)
    OBVIOUS
  <2>4. c \in Call /\ c.op = "invite" /\ c.user = u /\ c.target = w /\ c.keys = <<Workspace(w)>>
        /\ c.locks = 0 /\ c.read = FALSE
    BY <2>1, <2>2, <2>3, KeysAreKeys DEF Operations, Request, Call
  <2>5. RequestIsSound(c)
    BY <2>1, <2>2, <2>4 DEF RequestIsSound
  <2> QED BY <1>3, <2>2, <2>3, <2>4, <2>5, RequestBegins DEF createInvitation
<1>4. ASSUME NEW i \in Invitations, NEW e \in Emails, acceptInvitation(k, i, e) PROVE MembersInvariant'
  <2>1. invitations[i] # None /\ invitations[i].workspace \in Emails
    BY <1>0, <1>4, InvitationsAreTyped DEF acceptInvitation, assertInvitationActive
  <2>3. PICK c : c = Request("accept", e, None, i, acceptKeys(i, e))
    OBVIOUS
  <2>4. acceptKeys(i, e) \in KeyLists
    BY <2>1, KeysAreKeys DEF acceptKeys
  <2>5. c \in Call /\ c.op = "accept" /\ c.user = e /\ c.target = i /\ c.keys = acceptKeys(i, e)
        /\ c.locks = 0 /\ c.read = FALSE
    BY <2>3, <2>4, KeysAreKeys DEF Operations, Request, Call
  <2>6. 0 <= Len(c.keys)
    BY <2>4, <2>5
  <2>7. RequestIsSound(c)
    BY <2>1, <2>5, <2>6 DEF RequestIsSound, AcceptIsSound
  <2> QED BY <1>4, <2>3, <2>5, <2>7, RequestBegins DEF acceptInvitation
<1>5. ASSUME NEW s \in Sessions, NEW i \in Invitations, acceptInvitationForAuthenticatedUser(k, s, i)
      PROVE  MembersInvariant'
  <2>1. /\ sessions[s].user \in Emails /\ sessions[s].user \in accounts /\ sessions[s] # None
        /\ invitations[i] # None /\ invitations[i].workspace \in Emails
    BY <1>0, <1>5, SessionsAreTyped, InvitationsAreTyped
       DEF acceptInvitationForAuthenticatedUser, canActivate, liveSession, claimableByActor
  <2>2. PICK u : u = sessions[s].user
    OBVIOUS
  <2>3. PICK c : c = Request("claim", u, s, i, claimKeys(i, u))
    OBVIOUS
  <2>4. claimKeys(i, u) \in KeyLists
    BY <2>1, <2>2, KeysAreKeys DEF claimKeys
  <2>5. c \in Call /\ c.op = "claim" /\ c.user = u /\ c.target = i /\ c.keys = claimKeys(i, u) /\ c.session = s
        /\ c.locks = 0 /\ c.read = FALSE
    BY <2>1, <2>2, <2>3, <2>4, KeysAreKeys DEF Operations, Request, Call
  <2>6. 0 <= Len(c.keys)
    BY <2>4, <2>5
  <2>7. RequestIsSound(c)
    BY <2>1, <2>2, <2>5, <2>6 DEF RequestIsSound, ClaimIsMade, InSession
  <2> QED BY <1>5, <2>2, <2>3, <2>5, <2>7, RequestBegins DEF acceptInvitationForAuthenticatedUser
<1>6. ASSUME NEW op \in {"changeRole", "remove"}, NEW s \in Sessions, NEW n \in DOMAIN members,
             manageMember(k, op, s, n)
      PROVE  MembersInvariant'
  <2>1. sessions[s].user \in Emails
    BY <1>0, <1>6, SessionsAreTyped DEF manageMember, canActivate, liveSession
  <2>2. PICK u, m : u = sessions[s].user /\ m = idOf(members[n])
    OBVIOUS
  <2>3. m \in MemberId /\ m.user = members[n].user /\ m.workspace = members[n].workspace
        /\ m.user \in Emails /\ m.workspace \in Emails
    BY <1>0, <2>2, RowsAreTyped DEF MemberId, idOf
  <2>4. memberKeys(members[n]) = memberKeys(m) /\ memberKeys(m) \in KeyLists
    BY <2>3, KeysAreKeys DEF memberKeys
  <2>5. PICK c : c = Request(op, u, None, m, memberKeys(m))
    OBVIOUS
  <2>6. c \in Call /\ c.op = op /\ c.user = u /\ c.target = m /\ c.keys = memberKeys(m)
        /\ c.locks = 0 /\ c.read = FALSE
    BY <2>1, <2>2, <2>3, <2>4, <2>5, KeysAreKeys DEF Operations, Request, Call
  <2>7. 0 <= Len(c.keys)
    BY <2>4, <2>6
  <2>8. RequestIsSound(c)
    BY <2>3, <2>6, <2>7 DEF RequestIsSound, ManagementIsSound
  <2> QED BY <1>6, <2>2, <2>4, <2>5, <2>6, <2>8, RequestBegins DEF manageMember
<1> QED BY <1>1, <1>2, <1>3, <1>4, <1>5, <1>6

-----------------------------------------------------------------------------
(* Reads *)

WithFacts(c, facts) == [c EXCEPT !.read = TRUE, !.found = facts]

\* A request with all its locks keeps what it has read.
LEMMA RequestReads ==
    ASSUME MembersInvariant, NEW k \in Calls, NEW facts, Read(k, facts),
           calls[k].locks = Len(calls[k].keys), RequestIsSound(WithFacts(calls[k], facts)),
           UNCHANGED <<now, accounts, workspaces, members, invitations, sessions>>
    PROVE  MembersInvariant'
<1> DEFINE d == WithFacts(calls[k], facts)
<1>1. calls[k] \in Call /\ calls \in [Calls -> Call]
  BY DEF MembersInvariant, RequestsAreSound
<1>2. calls' = [calls EXCEPT ![k] = d]
  BY DEF Read, WithFacts
<1>3. d.keys = calls[k].keys /\ d.locks = calls[k].locks
  BY <1>1 DEF WithFacts, Call
<1>4. held(d) = held(calls[k])
  BY <1>3 DEF held
<1>5. \A j \in Calls : j # k => held(d) \cap held(calls[j]) = {}
  BY <1>4 DEF MembersInvariant, LocksAreExclusive
<1> HIDE DEF d
<1> QED BY <1>2, <1>5, OneRequestMoves DEF d

\* Reading changes nothing else of a request.
LEMMA FactsAreFound ==
    ASSUME NEW c \in Call, NEW facts \in SUBSET {"member", "account", "pending"}
    PROVE  LET d == WithFacts(c, facts) IN
           /\ d \in Call /\ d.op = c.op /\ d.user = c.user /\ d.session = c.session /\ d.target = c.target
           /\ d.keys = c.keys /\ d.locks = c.locks /\ d.read = TRUE /\ d.found = facts
BY DEF WithFacts, Call

\* A place that the plan of today has is a place that some plan has.
LEMMA CapacityIsRoom ==
    ASSUME MembersAssumption, TablesHold, NEW w \in Emails, workspaces[w] # None, hasCapacity(w)
    PROVE  roomIn(w)
<1>1. workspaces[w].plan \in Plans \cup {Trial}
  BY DEF TablesHold, MembersTypeOK, WorkspaceRow
<1>2. headcount(w) \in Nat /\ headcount(w) < workspaces[w].plan
  BY HeadcountIsNatural DEF TablesHold, hasCapacity
<1>3. PICK plan \in Plans : Trial <= plan /\ plan \in Nat /\ Trial \in Nat
  BY DEF MembersAssumption
<1>4. CASE workspaces[w].plan \in Plans
  BY <1>2, <1>4 DEF roomIn
<1>5. CASE workspaces[w].plan = Trial
  BY <1>2, <1>3, <1>5 DEF roomIn
<1> QED BY <1>1, <1>4, <1>5

\* switchWorkspace, acceptInvitation and acceptInvitationForAuthenticatedUser read
\* what they then know.
LEMMA RequestsRead ==
    ASSUME MembersAssumption, MembersInvariant, NEW k \in Calls,
           readSwitch(k) \/ readAcceptance(k) \/ readClaim(k)
    PROVE  MembersInvariant'
<1> DEFINE c == calls[k]
<1>1. c \in Call /\ RequestIsSound(c) /\ TablesHold
  BY DEF MembersInvariant, RequestsAreSound
<1>2. CASE readSwitch(k)
  <2>1. CASE liveSession(c.session) /\ belongs(c.user, c.target)
    <3>1. Ready(k, "switch") /\ Read(k, {"member"})
      BY <1>2, <2>1 DEF readSwitch
    <3>2. PICK d : d = WithFacts(c, {"member"})
      OBVIOUS
    <3>3. /\ d \in Call /\ d.op = c.op /\ d.user = c.user /\ d.session = c.session /\ d.target = c.target
          /\ d.keys = c.keys /\ d.locks = c.locks /\ d.read = TRUE
      BY <1>1, <3>2 DEF WithFacts, Call
    <3>4. c.op = "switch" /\ c.locks = Len(c.keys)
      BY <3>1 DEF Ready
    <3>5. RequestIsSound(d)
      BY <1>1, <2>1, <3>3, <3>4 DEF RequestIsSound, SwitchIsSound, InSession
    <3> QED BY <1>2, <3>1, <3>2, <3>4, <3>5, RequestReads DEF readSwitch
  <2>2. CASE ~(liveSession(c.session) /\ belongs(c.user, c.target))
    BY <1>2, <2>2, RequestEnds DEF readSwitch
  <2> QED BY <2>1, <2>2
<1>3. CASE readAcceptance(k)
  <2>1. CASE assertInvitationActive(c.target) /\ hasCapacity(invitations[c.target].workspace)
    <3>1. PICK facts : facts = (IF c.user \in accounts THEN {"account"} ELSE {})
      OBVIOUS
    <3>2. Ready(k, "accept") /\ Read(k, facts)
      BY <1>3, <2>1, <3>1 DEF readAcceptance
    <3>3. c.op = "accept" /\ c.locks = Len(c.keys)
      BY <3>2 DEF Ready
    <3>4. AcceptIsSound(c)
      BY <1>1, <3>3 DEF RequestIsSound
    <3>5. roomIn(invitations[c.target].workspace)
      <4>1. c.target \in Invitations /\ invitations[c.target] # None
        BY <3>4 DEF AcceptIsSound
      <4>2. invitations[c.target].workspace \in Emails /\ workspaces[invitations[c.target].workspace] # None
        BY <1>1, <4>1, InvitationsAreTyped
      <4> QED BY <1>1, <2>1, <4>2, CapacityIsRoom
    <3>6. PICK d : d = WithFacts(c, facts)
      OBVIOUS
    <3>7. /\ d \in Call /\ d.op = c.op /\ d.user = c.user /\ d.session = c.session /\ d.target = c.target
          /\ d.keys = c.keys /\ d.locks = c.locks /\ d.read = TRUE
      <4>1. facts \in SUBSET {"member", "account", "pending"}
        BY <3>1
      <4> QED BY <1>1, <3>6, <4>1, FactsAreFound
    <3>8. AcceptIsSound(d)
      BY <3>4, <3>5, <3>7 DEF AcceptIsSound
    <3>9. RequestIsSound(d)
      BY <1>1, <3>3, <3>7, <3>8 DEF RequestIsSound
    <3> QED BY <1>3, <3>2, <3>3, <3>6, <3>9, RequestReads DEF readAcceptance
  <2>2. CASE ~(assertInvitationActive(c.target) /\ hasCapacity(invitations[c.target].workspace))
    BY <1>3, <2>2, RequestEnds DEF readAcceptance
  <2> QED BY <2>1, <2>2
<1>4. CASE readClaim(k)
  <2>0. PICK member : member = belongs(c.user, invitations[c.target].workspace)
    OBVIOUS
  <2>1. CASE /\ liveSession(c.session) /\ claimableByActor(c.target, c.user)
             /\ member \/ hasCapacity(invitations[c.target].workspace)
    <3>1. PICK facts : facts = (IF member THEN {"member"} ELSE {})
                               \cup (IF invitations[c.target].claimPending THEN {"pending"} ELSE {})
      OBVIOUS
    <3>2. Ready(k, "claim") /\ Read(k, facts)
      BY <1>4, <2>0, <2>1, <3>1 DEF readClaim
    <3>3. c.op = "claim" /\ c.locks = Len(c.keys)
      BY <3>2 DEF Ready
    <3>4. ClaimIsMade(c)
      BY <1>1, <3>3 DEF RequestIsSound
    <3>5. ~member => roomIn(invitations[c.target].workspace)
      <4>1. c.target \in Invitations /\ invitations[c.target] # None
        BY <3>4 DEF ClaimIsMade
      <4>2. invitations[c.target].workspace \in Emails /\ workspaces[invitations[c.target].workspace] # None
        BY <1>1, <4>1, InvitationsAreTyped
      <4> QED BY <1>1, <2>1, <4>2, CapacityIsRoom
    <3>6. PICK d : d = WithFacts(c, facts)
      OBVIOUS
    <3>7. facts \in SUBSET {"member", "account", "pending"} /\ ("member" \in facts <=> member)
      BY <3>1
    <3>8. /\ d \in Call /\ d.op = c.op /\ d.user = c.user /\ d.session = c.session /\ d.target = c.target
          /\ d.keys = c.keys /\ d.locks = c.locks /\ d.read = TRUE /\ d.found = facts
      BY <1>1, <3>6, <3>7, FactsAreFound
    <3>9. ClaimIsMade(d)
      BY <2>0, <3>4, <3>5, <3>7, <3>8 DEF ClaimIsMade, InSession
    <3>10. RequestIsSound(d)
      BY <1>1, <3>3, <3>8, <3>9 DEF RequestIsSound
    <3> QED BY <1>4, <3>2, <3>3, <3>6, <3>10, RequestReads DEF readClaim
  <2>2. CASE ~(/\ liveSession(c.session) /\ claimableByActor(c.target, c.user)
               /\ member \/ hasCapacity(invitations[c.target].workspace))
    BY <1>4, <2>0, <2>2, RequestEnds DEF readClaim
  <2> QED BY <2>1, <2>2
<1> QED BY <1>2, <1>3, <1>4

\* The transaction of an acceptance that lost its address begins again, or is given up.
LEMMA AcceptanceRetries ==
    ASSUME MembersInvariant, NEW k \in Calls, calls[k].op = "accept", retryAcceptance(k), UNCHANGED <<now, sessions>>
    PROVE  MembersInvariant'
<1> DEFINE c == calls[k]
<1>1. c \in Call /\ RequestIsSound(c) /\ calls \in [Calls -> Call]
  BY DEF MembersInvariant, RequestsAreSound
<1>2. CASE c.again
  <2>1. Finish(k)
    BY <1>1, <1>2 DEF retryAcceptance, Finish
  <2> QED BY <2>1, RequestEnds DEF retryAcceptance
<1>3. CASE ~c.again
  <2>1. PICK d : d = [c EXCEPT !.again = TRUE, !.read = FALSE, !.found = {}, !.locks = 0]
    OBVIOUS
  <2>2. calls' = [calls EXCEPT ![k] = d]
    BY <1>1, <1>3, <2>1 DEF retryAcceptance
  <2>3. /\ d \in Call /\ d.op = c.op /\ d.user = c.user /\ d.target = c.target /\ d.keys = c.keys
        /\ d.locks = 0 /\ d.read = FALSE /\ c.keys \in KeyLists
    BY <1>1, <2>1 DEF Call
  <2>4. Len(d.keys) \in Nat
    BY <2>3 DEF KeyLists
  <2>5. RequestIsSound(d)
    BY <1>1, <2>3, <2>4 DEF RequestIsSound, AcceptIsSound
  <2>6. held(d) = {}
    BY <2>3, NothingHeld
  <2> QED BY <2>2, <2>5, <2>6, OneRequestMoves DEF retryAcceptance
<1> QED BY <1>2, <1>3

-----------------------------------------------------------------------------
(* What the tables may do under a request *)

KeepsKnowledge(c) ==
    /\ accounts \subseteq accounts'
    /\ \A i \in Invitations : invitations[i] # None =>
          invitations'[i] # None /\ invitations'[i].workspace = invitations[i].workspace
    /\ \A s \in Sessions : sessions[s] # None => sessions'[s] # None /\ sessions'[s].user = sessions[s].user
    /\ \A u \in accounts, w \in Emails : Account(u) \in held(c) => (belongs(u, w)' <=> belongs(u, w))
    /\ \A w \in Emails : workspaces[w] # None /\ Workspace(w) \in held(c) /\ roomIn(w) => roomIn(w)'

\* A request whose knowledge a step keeps is as sound after it.
LEMMA KnowledgeStays ==
    ASSUME TablesHold, NEW c, RequestIsSound(c), KeepsKnowledge(c)
    PROVE  RequestIsSound(c)'
<1>1. InSession(c) => InSession(c)'
  BY DEF InSession, KeepsKnowledge
<1>2. ASSUME c.op = "switch" PROVE SwitchIsSound(c)'
  <2>1. SwitchIsSound(c)
    BY <1>2 DEF RequestIsSound
  <2>2. ASSUME c.read PROVE belongs(c.user, c.target)'
    <3>1. Account(c.user) \in held(c)
      BY <2>1, <2>2, OneHeld DEF SwitchIsSound, RequestIsSound
    <3> QED BY <2>1, <2>2, <3>1 DEF SwitchIsSound, InSession, KeepsKnowledge
  <2> QED BY <1>1, <2>1, <2>2 DEF SwitchIsSound
<1>3. ASSUME c.op = "accept" PROVE AcceptIsSound(c)'
  <2>1. AcceptIsSound(c)
    BY <1>3 DEF RequestIsSound
  <2>2. PICK w : w = invitations[c.target].workspace
    OBVIOUS
  <2>3. w \in Emails /\ workspaces[w] # None
    BY <2>1, <2>2, InvitationsAreTyped DEF AcceptIsSound
  <2>4. invitations'[c.target] # None /\ invitations'[c.target].workspace = w
    BY <2>1, <2>2 DEF AcceptIsSound, KeepsKnowledge
  <2>5. ASSUME c.read PROVE roomIn(w)'
    <3>1. Workspace(w) \in held(c)
      BY <2>1, <2>2, <2>5, AllHeld DEF AcceptIsSound, acceptKeys, RequestIsSound
    <3> QED BY <2>1, <2>2, <2>3, <2>5, <3>1 DEF AcceptIsSound, KeepsKnowledge
  <2>6. c.keys = acceptKeys(c.target, c.user)'
    BY <2>1, <2>2, <2>4 DEF AcceptIsSound, acceptKeys
  <2>7. c.read => roomIn(invitations[c.target].workspace)'
    BY <2>4, <2>5 DEF roomIn, headcount
  <2> QED BY <2>1, <2>4, <2>6, <2>7 DEF AcceptIsSound
<1>4. ASSUME c.op = "claim" PROVE ClaimIsMade(c)'
  <2>1. ClaimIsMade(c)
    BY <1>4 DEF RequestIsSound
  <2>2. PICK w : w = invitations[c.target].workspace
    OBVIOUS
  <2>3. w \in Emails /\ workspaces[w] # None
    BY <2>1, <2>2, InvitationsAreTyped DEF ClaimIsMade
  <2>4. invitations'[c.target] # None /\ invitations'[c.target].workspace = w
    BY <2>1, <2>2 DEF ClaimIsMade, KeepsKnowledge
  <2>5. ASSUME c.read PROVE Account(c.user) \in held(c) /\ Workspace(w) \in held(c)
    BY <2>1, <2>2, <2>5, AllHeld DEF ClaimIsMade, claimKeys, RequestIsSound
  <2>6. c.read => ("member" \in c.found <=> belongs(c.user, w)')
    BY <2>1, <2>2, <2>3, <2>5 DEF ClaimIsMade, InSession, KeepsKnowledge
  <2>7. c.read /\ "member" \notin c.found => roomIn(w)'
    BY <2>1, <2>2, <2>3, <2>5 DEF ClaimIsMade, KeepsKnowledge
  <2>8. c.keys = claimKeys(c.target, c.user)'
    BY <2>1, <2>2, <2>4 DEF ClaimIsMade, claimKeys
  <2>9. c.read => ("member" \in c.found <=> belongs(c.user, invitations[c.target].workspace)')
    BY <2>4, <2>6 DEF belongs
  <2>10. c.read /\ "member" \notin c.found => roomIn(invitations[c.target].workspace)'
    BY <2>4, <2>7 DEF roomIn, headcount
  <2> QED BY <1>1, <2>1, <2>4, <2>8, <2>9, <2>10 DEF ClaimIsMade
<1>5. c.op = "login" => c.user \in accounts' /\ c.target \in Emails
  BY DEF RequestIsSound, KeepsKnowledge
<1>6. c.op \in {"changeRole", "remove"} => ManagementIsSound(c)'
  BY DEF RequestIsSound, ManagementIsSound
<1> QED BY <1>2, <1>3, <1>4, <1>5, <1>6 DEF RequestIsSound

\* A request that writes and ends, or a step of nobody's request.
LEMMA TablesMove ==
    ASSUME MembersInvariant, NEW k, (k \in Calls /\ Finish(k)) \/ calls' = calls,
           TablesHold', \A j \in Calls : j # k \/ calls' = calls => KeepsKnowledge(calls[j])
    PROVE  MembersInvariant'
<1>1. /\ calls \in [Calls -> Call] /\ TablesHold /\ \A j \in Calls : RequestIsSound(calls[j])
      /\ \A i, j \in Calls : i # j => held(calls[i]) \cap held(calls[j]) = {}
  BY DEF MembersInvariant, RequestsAreSound, LocksAreExclusive
<1>2. RequestIsSound(Idle)' /\ held(Idle) = {} /\ Idle \in Call
  <2>1. Idle.op = "idle" /\ RequestIsSound(Idle) /\ Idle \in Call /\ held(Idle) = {}
    BY IdleIsSound, NothingHeld DEF Idle, Request
  <2> QED BY <2>1 DEF RequestIsSound
<1>3. ASSUME NEW j \in Calls PROVE RequestIsSound(calls[j])'
  <2>1. CASE calls'[j] = calls[j] /\ (j # k \/ calls' = calls)
    <3>1. PICK c : c = calls[j]
      OBVIOUS
    <3>2. RequestIsSound(c)'
      BY <1>1, <2>1, <3>1, KnowledgeStays
    <3> QED BY <2>1, <3>1, <3>2
  <2>2. CASE calls'[j] = Idle
    BY <1>2, <2>2
  <2> QED BY <1>1, <2>1, <2>2 DEF Finish
<1>4. calls' \in [Calls -> Call]
  BY <1>1, <1>2 DEF Finish
<1>5. ASSUME NEW i \in Calls, NEW j \in Calls, i # j PROVE held(calls'[i]) \cap held(calls'[j]) = {}
  BY <1>1, <1>2, <1>5 DEF Finish
<1>6. LocksAreExclusive'
  BY <1>5 DEF LocksAreExclusive, held
<1> QED BY <1>3, <1>4, <1>6 DEF MembersInvariant, RequestsAreSound

-----------------------------------------------------------------------------
(* Steps that leave the memberships alone *)

\* Without a change of members nobody joins, leaves or makes room.
LEMMA RowsStay ==
    ASSUME members' = members
    PROVE  /\ \A u, w : belongs(u, w)' <=> belongs(u, w)
           /\ \A u, w : isFounder(u, w)' <=> isFounder(u, w)
           /\ \A w : headcount(w)' = headcount(w) /\ (roomIn(w)' <=> roomIn(w))
BY DEF belongs, isFounder, headcount, roomIn

\* Such a step keeps what every request knows.
LEMMA SameRowsKeepKnowledge ==
    ASSUME members' = members, accounts' = accounts, NEW c,
           \A i \in Invitations : invitations[i] # None =>
              invitations'[i] # None /\ invitations'[i].workspace = invitations[i].workspace,
           \A s \in Sessions : sessions[s] # None => sessions'[s] # None /\ sessions'[s].user = sessions[s].user
    PROVE  KeepsKnowledge(c)
BY RowsStay DEF KeepsKnowledge

\* Sessions that move: each is as it was, or not live, or in a workspace of its user.
LEMMA SessionsMove ==
    ASSUME TablesHold, members' = members, accounts' = accounts, now' \in Nat, now <= now',
           workspaces' = workspaces, invitations' = invitations,
           sessions' \in [Sessions -> SessionRow \cup {None}],
           \A s \in Sessions : sessions'[s] # None => sessions'[s].user \in accounts,
           \A s \in Sessions :
              \/ sessions'[s] = sessions[s] \/ sessions'[s] = None
              \/ sessions'[s].revoked \/ ~sessions'[s].chosen
              \/ belongs(sessions'[s].user, sessions'[s].workspace)
    PROVE  TablesHold'
<1>1. MembersTypeOK'
  BY DEF TablesHold, MembersTypeOK
<1>2. RowsAreSound' /\ InvitationsAreSound' /\ SessionsAreSound'
  BY DEF TablesHold, RowsAreSound, InvitationsAreSound, SessionsAreSound
<1>3. WorkspacesAreSound'
  BY RowsStay DEF TablesHold, WorkspacesAreSound
<1>4. ASSUME NEW s \in Sessions, liveSession(s)', ~belongs(sessions[s].user, sessions[s].workspace)'
      PROVE  ~sessions'[s].chosen
  <2>1. ~belongs(sessions'[s].user, sessions'[s].workspace)
    BY <1>4 DEF belongs
  <2>2. CASE sessions'[s] = sessions[s]
    <3>1. sessions[s] # None
      BY <1>4, <2>2 DEF liveSession
    <3>2. now \in Nat /\ sessions[s].expiresAt \in Nat
      BY <3>1, SessionsAreTyped DEF TablesHold, MembersTypeOK
    <3>3. liveSession(s)
      BY <1>4, <2>2, <3>2 DEF liveSession
    <3> QED BY <2>1, <2>2, <3>3 DEF TablesHold, SessionsFollowMembership
  <2>3. CASE sessions'[s] = None
    BY <1>4, <2>3 DEF liveSession
  <2>4. CASE sessions'[s].revoked
    BY <1>4, <2>4 DEF liveSession
  <2> QED BY <2>1, <2>2, <2>3, <2>4
<1>5. SessionsFollowMembership'
  BY <1>4 DEF SessionsFollowMembership
<1> QED BY <1>1, <1>2, <1>3, <1>5 DEF TablesHold

\* Sessions only expire.
LEMMA TimeMoves ==
    ASSUME MembersInvariant, TimePasses
    PROVE  MembersInvariant'
<1>1. now \in Nat /\ now' \in Nat /\ now <= now' /\ TablesHold /\ sessions \in [Sessions -> SessionRow \cup {None}]
  BY DEF TimePasses, MembersInvariant, TablesHold, MembersTypeOK
<1>2. TablesHold'
  BY <1>1, SessionsMove DEF TimePasses, TablesHold, SessionsAreSound
<1>3. \A j \in Calls : KeepsKnowledge(calls[j])
  BY SameRowsKeepKnowledge DEF TimePasses
<1> QED BY <1>2, <1>3, TablesMove DEF TimePasses

\* A session is revoked by its user.
LEMMA LogoutMoves ==
    ASSUME MembersInvariant, MembersAssumption, NEW s \in Sessions, logout(s)
    PROVE  MembersInvariant'
<1>1. TablesHold /\ sessions \in [Sessions -> SessionRow \cup {None}] /\ now \in Nat /\ sessions[s] \in SessionRow
  BY DEF logout, MembersInvariant, TablesHold, MembersTypeOK
<1>2. PICK r : r = [sessions[s] EXCEPT !.revoked = TRUE]
  OBVIOUS
<1>3. r \in SessionRow /\ r.user = sessions[s].user /\ r.revoked
  BY <1>1, <1>2 DEF SessionRow
<1>4. sessions' = [sessions EXCEPT ![s] = r]
  BY <1>2 DEF logout
<1>5. r # None
  BY <1>3 DEF MembersAssumption
<1>6. sessions' \in [Sessions -> SessionRow \cup {None}] /\ sessions'[s] = r
      /\ \A t \in Sessions : t # s => sessions'[t] = sessions[t]
  BY <1>1, <1>3, <1>4
<1>7. \A t \in Sessions : sessions'[t] # None => sessions'[t].user \in accounts
  BY <1>1, <1>3, <1>6 DEF logout, TablesHold, SessionsAreSound
<1>8. TablesHold'
  BY <1>1, <1>3, <1>6, <1>7, SessionsMove DEF logout
<1>9. \A t \in Sessions : sessions[t] # None => sessions'[t] # None /\ sessions'[t].user = sessions[t].user
  BY <1>3, <1>5, <1>6
<1>10. \A j \in Calls : KeepsKnowledge(calls[j])
  BY <1>9, SameRowsKeepKnowledge DEF logout
<1> QED BY <1>8, <1>10, TablesMove DEF logout

\* Sign-in places a session that nobody chose.
LEMMA SessionIsCreated ==
    ASSUME MembersInvariant, MembersAssumption, NEW k \in Calls, NEW s \in Sessions, createSession(k, s)
    PROVE  MembersInvariant'
<1>1. /\ TablesHold /\ sessions \in [Sessions -> SessionRow \cup {None}] /\ now \in Nat /\ sessions[s] = None
      /\ accounts \subseteq Emails
  BY DEF createSession, MembersInvariant, TablesHold, MembersTypeOK
<1>2. calls[k].user \in accounts /\ calls[k].target \in Emails
  BY DEF createSession, MembersInvariant, RequestsAreSound, RequestIsSound
<1>3. PICK r : r = [user |-> calls[k].user, workspace |-> calls[k].target, expiresAt |-> now + Lifetime,
                    revoked |-> FALSE, chosen |-> FALSE]
  OBVIOUS
<1>4. r \in SessionRow /\ r.user \in accounts /\ ~r.chosen
  BY <1>1, <1>2, <1>3 DEF SessionRow, MembersAssumption
<1>5. sessions' = [sessions EXCEPT ![s] = r]
  BY <1>3 DEF createSession
<1>6. sessions' \in [Sessions -> SessionRow \cup {None}] /\ sessions'[s] = r
      /\ \A t \in Sessions : t # s => sessions'[t] = sessions[t]
  BY <1>1, <1>4, <1>5
<1>7. \A t \in Sessions : sessions'[t] # None => sessions'[t].user \in accounts
  BY <1>1, <1>4, <1>6 DEF TablesHold, SessionsAreSound
<1>8. TablesHold'
  BY <1>1, <1>4, <1>6, <1>7, SessionsMove DEF createSession
<1>9. \A t \in Sessions : sessions[t] # None => sessions'[t] # None /\ sessions'[t].user = sessions[t].user
  BY <1>1, <1>6
<1>10. \A j \in Calls : KeepsKnowledge(calls[j])
  BY <1>9, SameRowsKeepKnowledge DEF createSession
<1> QED BY <1>8, <1>10, TablesMove DEF createSession

\* A session that is moved to another workspace.
LEMMA SessionEnters ==
    ASSUME MembersTypeOK, MembersAssumption, NEW s \in Sessions, sessions[s] # None, NEW w \in Emails,
           sessions' = enter(s, w)
    PROVE  /\ sessions' \in [Sessions -> SessionRow \cup {None}]
           /\ \A t \in Sessions : t # s => sessions'[t] = sessions[t]
           /\ sessions'[s] # None /\ sessions'[s].user = sessions[s].user /\ sessions'[s].workspace = w
<1>1. sessions \in [Sessions -> SessionRow \cup {None}] /\ sessions[s] \in SessionRow
  BY DEF MembersTypeOK
<1>2. PICK r : r = [sessions[s] EXCEPT !.workspace = w, !.chosen = TRUE]
  OBVIOUS
<1>3. r \in SessionRow /\ r.user = sessions[s].user /\ r.workspace = w
  BY <1>1, <1>2 DEF SessionRow
<1>4. sessions' = [sessions EXCEPT ![s] = r]
  BY <1>2 DEF enter
<1>5. r # None
  BY <1>3 DEF MembersAssumption
<1> QED BY <1>1, <1>3, <1>4, <1>5

\* The account lock kept the membership that the switch had read.
LEMMA SwitchCommits ==
    ASSUME MembersInvariant, MembersAssumption, NEW k \in Calls, commitSwitch(k)
    PROVE  MembersInvariant'
<1> DEFINE c == calls[k]
<1>1. TablesHold /\ MembersTypeOK /\ now \in Nat /\ sessions \in [Sessions -> SessionRow \cup {None}]
  BY DEF MembersInvariant, TablesHold, MembersTypeOK
<1>2. c.read /\ SwitchIsSound(c)
  BY DEF commitSwitch, MembersInvariant, RequestsAreSound, RequestIsSound
<1>3. /\ c.session \in Sessions /\ sessions[c.session] # None /\ sessions[c.session].user = c.user
      /\ c.target \in Emails /\ belongs(c.user, c.target)
  BY <1>2 DEF SwitchIsSound, InSession
<1>4. CASE liveSession(c.session)
  <2>1. sessions' = enter(c.session, c.target)
    BY <1>4 DEF commitSwitch
  <2>2. /\ sessions' \in [Sessions -> SessionRow \cup {None}]
        /\ \A t \in Sessions : t # c.session => sessions'[t] = sessions[t]
        /\ sessions'[c.session] # None /\ sessions'[c.session].user = sessions[c.session].user
        /\ sessions'[c.session].workspace = c.target
    BY <1>1, <1>3, <2>1, SessionEnters
  <2>3. \A t \in Sessions : sessions'[t] # None => sessions'[t].user \in accounts
    BY <1>1, <1>3, <2>2 DEF TablesHold, SessionsAreSound
  <2>4. \A t \in Sessions : sessions'[t] = sessions[t] \/ belongs(sessions'[t].user, sessions'[t].workspace)
    BY <1>3, <2>2
  <2>5. TablesHold'
    BY <1>1, <2>2, <2>3, <2>4, SessionsMove DEF commitSwitch
  <2>6. \A t \in Sessions : sessions[t] # None => sessions'[t] # None /\ sessions'[t].user = sessions[t].user
    BY <2>2
  <2>7. \A j \in Calls : KeepsKnowledge(calls[j])
    BY <2>6, SameRowsKeepKnowledge DEF commitSwitch
  <2> QED BY <2>5, <2>7, TablesMove DEF commitSwitch
<1>5. CASE ~liveSession(c.session)
  BY <1>5, RequestEnds DEF commitSwitch
<1> QED BY <1>4, <1>5

\* The plan or the mode of a workspace changes.
LEMMA WorkspacesMove ==
    ASSUME MembersTypeOK, MembersAssumption, NEW w \in Emails, workspaces[w] # None,
           \/ \E plan \in Plans : workspaces' = [workspaces EXCEPT ![w].plan = plan]
           \/ workspaces' = [workspaces EXCEPT ![w].mode = "COLLABORATIVE"]
    PROVE  /\ workspaces' \in [Emails -> WorkspaceRow \cup {None}]
           /\ \A v \in Emails : workspaces'[v] # None <=> workspaces[v] # None
<1>1. workspaces \in [Emails -> WorkspaceRow \cup {None}] /\ workspaces[w] \in WorkspaceRow
  BY DEF MembersTypeOK
<1>2. ASSUME NEW r \in WorkspaceRow, workspaces' = [workspaces EXCEPT ![w] = r]
      PROVE  /\ workspaces' \in [Emails -> WorkspaceRow \cup {None}]
             /\ \A v \in Emails : workspaces'[v] # None <=> workspaces[v] # None
  <2>1. r # None
    BY DEF MembersAssumption
  <2> QED BY <1>1, <1>2, <2>1
<1>3. ASSUME NEW plan \in Plans PROVE [workspaces[w] EXCEPT !.plan = plan] \in WorkspaceRow
  BY <1>1 DEF WorkspaceRow
<1>4. [workspaces[w] EXCEPT !.mode = "COLLABORATIVE"] \in WorkspaceRow
  BY <1>1 DEF WorkspaceRow
<1>5. ASSUME NEW plan \in Plans, workspaces' = [workspaces EXCEPT ![w].plan = plan]
      PROVE  workspaces' = [workspaces EXCEPT ![w] = [workspaces[w] EXCEPT !.plan = plan]]
  BY <1>5
<1>6. ASSUME workspaces' = [workspaces EXCEPT ![w].mode = "COLLABORATIVE"]
      PROVE  workspaces' = [workspaces EXCEPT ![w] = [workspaces[w] EXCEPT !.mode = "COLLABORATIVE"]]
  BY <1>6
<1> QED BY <1>2, <1>3, <1>4, <1>5, <1>6

\* A plan is changed under the requests: what room some plan gives does not depend on it.
LEMMA PlanMoves ==
    ASSUME MembersInvariant, MembersAssumption, NEW w \in Upgraded, NEW plan \in Plans, changePlan(w, plan)
    PROVE  MembersInvariant'
<1>1. TablesHold /\ MembersTypeOK /\ w \in Emails
  BY DEF MembersInvariant, TablesHold, MembersAssumption
<1>2. /\ workspaces' \in [Emails -> WorkspaceRow \cup {None}]
      /\ \A v \in Emails : workspaces'[v] # None <=> workspaces[v] # None
  BY <1>1, WorkspacesMove DEF changePlan
<1>3. MembersTypeOK'
  BY <1>1, <1>2 DEF MembersTypeOK, changePlan
<1>4. RowsAreSound'
  <2>1. \A n \in DOMAIN members : members[n].workspace \in Emails
    BY <1>1, RowsAreTyped
  <2> QED BY <1>1, <1>2, <2>1 DEF changePlan, TablesHold, RowsAreSound
<1>5. InvitationsAreSound'
  <2>1. \A i \in Invitations : invitations[i] # None => invitations[i].workspace \in Emails
    BY <1>1, InvitationsAreTyped
  <2> QED BY <1>1, <1>2, <2>1 DEF changePlan, TablesHold, InvitationsAreSound
<1>6. WorkspacesAreSound'
  BY <1>1, <1>2, RowsStay DEF changePlan, TablesHold, WorkspacesAreSound
<1>7. SessionsAreSound' /\ SessionsFollowMembership'
  BY <1>1 DEF changePlan, TablesHold, SessionsAreSound, SessionsFollowMembership, liveSession, belongs
<1>8. TablesHold'
  BY <1>3, <1>4, <1>5, <1>6, <1>7 DEF TablesHold
<1>9. \A j \in Calls : KeepsKnowledge(calls[j])
  BY SameRowsKeepKnowledge DEF changePlan
<1> QED BY <1>8, <1>9, TablesMove DEF changePlan

\* One invitation changes that no row came from.
LEMMA InvitationMoves ==
    ASSUME TablesHold, NEW i \in Invitations, NEW r \in InvitationRow, invitations' = [invitations EXCEPT ![i] = r],
           invitations[i] = None \/ invitations[i].admitted = 0,
           UNCHANGED <<now, accounts, workspaces, members, sessions>>,
           workspaces[r.workspace] # None, r.admitted = 0, r.acceptedBy = None => ~r.claimPending
    PROVE  TablesHold'
<1>1. /\ invitations' \in [Invitations -> InvitationRow \cup {None}] /\ invitations'[i] = r
      /\ \A j \in Invitations : j # i => invitations'[j] = invitations[j]
  BY DEF TablesHold, MembersTypeOK
<1>2. MembersTypeOK'
  BY <1>1 DEF TablesHold, MembersTypeOK
<1>3. ASSUME NEW n \in DOMAIN members, members[n].via # None
      PROVE  invitations'[members[n].via] = invitations[members[n].via]
  <2>1. members[n].via \in Invitations /\ invitations[members[n].via] # None
        /\ invitations[members[n].via].admitted = 1
    BY <1>3, RowsAreTyped DEF TablesHold, RowsAreSound
  <2> QED BY <1>1, <2>1
<1>4. RowsAreSound'
  BY <1>3 DEF TablesHold, RowsAreSound
<1>5. InvitationsAreSound'
  BY <1>1 DEF TablesHold, InvitationsAreSound
<1>6. WorkspacesAreSound'
  BY RowsStay DEF TablesHold, WorkspacesAreSound
<1>7. SessionsAreSound' /\ SessionsFollowMembership'
  BY DEF TablesHold, SessionsAreSound, SessionsFollowMembership, liveSession, belongs
<1> QED BY <1>2, <1>4, <1>5, <1>6, <1>7 DEF TablesHold

\* A founder invites.
LEMMA InvitationIsMade ==
    ASSUME MembersInvariant, MembersAssumption, NEW k \in Calls, NEW i \in Invitations, NEW role \in Roles,
           commitInvitation(k, i, role)
    PROVE  MembersInvariant'
<1> DEFINE c == calls[k]
<1>1. TablesHold /\ MembersTypeOK /\ now \in Nat
  BY DEF MembersInvariant, TablesHold, MembersTypeOK
<1>2. c.target \in Emails
  BY DEF commitInvitation, Ready, MembersInvariant, RequestsAreSound, RequestIsSound
<1>3. CASE isFounder(c.user, c.target) /\ hasCapacity(c.target)
  <2>1. PICK r : r = [workspace |-> c.target, role |-> role, expiresAt |-> now + Lifetime,
                      acceptedBy |-> None, claimPending |-> FALSE, admitted |-> 0]
    OBVIOUS
  <2>2. r \in InvitationRow /\ r.workspace = c.target /\ r.admitted = 0 /\ ~r.claimPending
    BY <1>1, <1>2, <2>1 DEF InvitationRow, MembersAssumption
  <2>3. invitations' = [invitations EXCEPT ![i] = r] /\ invitations[i] = None
    BY <1>3, <2>1 DEF commitInvitation
  <2>4. workspaces[c.target] # None
    BY <1>1, <1>3 DEF isFounder, TablesHold, RowsAreSound
  <2>5. TablesHold'
    BY <1>1, <2>2, <2>3, <2>4, InvitationMoves DEF commitInvitation
  <2>6. \A j \in Invitations : invitations[j] # None =>
            invitations'[j] # None /\ invitations'[j].workspace = invitations[j].workspace
    BY <1>1, <2>3 DEF MembersTypeOK
  <2>7. \A j \in Calls : KeepsKnowledge(calls[j])
    BY <2>6, SameRowsKeepKnowledge DEF commitInvitation
  <2> QED BY <2>5, <2>7, TablesMove DEF commitInvitation
<1>4. CASE ~(isFounder(c.user, c.target) /\ hasCapacity(c.target))
  BY <1>4, RequestEnds DEF commitInvitation
<1> QED BY <1>3, <1>4

\* The bearer of a token leaves a claim and joins nothing.
LEMMA ClaimIsDeferred ==
    ASSUME MembersInvariant, MembersAssumption, NEW k \in Calls, calls[k].op = "accept",
           invitations[calls[k].target].acceptedBy = None, deferClaim(k, calls[k].target), UNCHANGED <<now, sessions>>
    PROVE  MembersInvariant'
<1> DEFINE c == calls[k]
           i == c.target
<1>1. TablesHold /\ MembersTypeOK
  BY DEF MembersInvariant, TablesHold
<1>2. c.user \in Emails /\ i \in Invitations /\ invitations[i] # None
  BY DEF MembersInvariant, RequestsAreSound, RequestIsSound, AcceptIsSound
<1>3. /\ invitations[i] \in InvitationRow /\ workspaces[invitations[i].workspace] # None
      /\ invitations[i].admitted = 0
  BY <1>1, <1>2, InvitationsAreTyped DEF TablesHold, InvitationsAreSound
<1>4. PICK r : r = [invitations[i] EXCEPT !.acceptedBy = c.user, !.claimPending = TRUE]
  OBVIOUS
<1>5. /\ r \in InvitationRow /\ r.workspace = invitations[i].workspace /\ r.admitted = 0
      /\ r.acceptedBy = c.user
  BY <1>2, <1>3, <1>4 DEF InvitationRow
<1>6. invitations' = [invitations EXCEPT ![i] = r]
  BY <1>4 DEF deferClaim
<1>7. r # None /\ r.acceptedBy # None
  BY <1>2, <1>5 DEF MembersAssumption
<1>8. TablesHold'
  BY <1>1, <1>2, <1>3, <1>5, <1>6, <1>7, InvitationMoves DEF deferClaim
<1>9. \A j \in Invitations : invitations[j] # None =>
          invitations'[j] # None /\ invitations'[j].workspace = invitations[j].workspace
  BY <1>1, <1>2, <1>5, <1>6, <1>7 DEF MembersTypeOK
<1>10. \A j \in Calls : KeepsKnowledge(calls[j])
  BY <1>9, SameRowsKeepKnowledge DEF deferClaim
<1> QED BY <1>8, <1>10, TablesMove DEF deferClaim

-----------------------------------------------------------------------------
(* Steps that change the memberships *)

\* A row that is new: its user had none in its workspace.
LEMMA AppendKeepsTypes ==
    ASSUME MembersTypeOK, NEW m \in MemberRow, members' = Append(members, m), ~belongs(m.user, m.workspace),
           accounts \subseteq accounts', m.user \in accounts'
    PROVE  /\ members' \in Seq(MemberRow)
           /\ \A n \in DOMAIN members' : members'[n].user \in accounts'
           /\ \A p, n \in DOMAIN members' :
                 members'[p].user = members'[n].user /\ members'[p].workspace = members'[n].workspace => p = n
<1>1. /\ members' \in Seq(MemberRow)
      /\ DOMAIN members' = DOMAIN members \cup {Len(members) + 1}
      /\ members'[Len(members) + 1] = m
      /\ \A n \in DOMAIN members : members'[n] = members[n]
  BY RowsAfterAppend
<1>2. \A n \in DOMAIN members : members[n].user \in accounts
  BY DEF MembersTypeOK
<1>3. \A p, n \in DOMAIN members :
          members[p].user = members[n].user /\ members[p].workspace = members[n].workspace => p = n
  BY DEF MembersTypeOK
<1>4. \A n \in DOMAIN members : ~(members[n].user = m.user /\ members[n].workspace = m.workspace)
  BY DEF belongs
<1>5. ASSUME NEW p \in DOMAIN members', NEW n \in DOMAIN members',
             members'[p].user = members'[n].user, members'[p].workspace = members'[n].workspace
      PROVE  p = n
  <2>1. CASE p \in DOMAIN members /\ n \in DOMAIN members
    BY <1>1, <1>3, <1>5, <2>1
  <2>2. CASE p \notin DOMAIN members /\ n \in DOMAIN members
    BY <1>1, <1>4, <1>5, <2>2
  <2>3. CASE p \in DOMAIN members /\ n \notin DOMAIN members
    BY <1>1, <1>4, <1>5, <2>3
  <2> QED BY <1>1, <2>1, <2>2, <2>3
<1> QED BY <1>1, <1>2, <1>5

\* An account, a workspace and its founder come together.
LEMMA RegistrationKeepsTables ==
    ASSUME MembersAssumption, TablesHold, NEW e \in Registrants, register(e)
    PROVE  /\ TablesHold' /\ workspaces[e] = None
           /\ \A u, w : belongs(u, w)' <=> belongs(u, w) \/ (u = e /\ w = e)
           /\ \A w : w # e => headcount(w)' = headcount(w)
<1> DEFINE m == [workspace |-> e, user |-> e, role |-> "FOUNDER", via |-> None]
<1>1. MembersTypeOK /\ e \in Emails /\ e \notin accounts /\ accounts' = accounts \cup {e}
      /\ members' = Append(members, m)
  BY DEF TablesHold, MembersAssumption, register, createRegistration
<1>2. m \in MemberRow /\ m.user = e /\ m.workspace = e /\ m.role = "FOUNDER" /\ m.via = None
  BY <1>1 DEF MemberRow
<1>3. \A n \in DOMAIN members : members[n].user # e
  BY <1>1 DEF MembersTypeOK
<1>4. \A w : ~belongs(e, w) /\ ~isFounder(e, w)
  BY <1>3 DEF belongs, isFounder
<1>5. workspaces[e] = None
  BY <1>1, <1>4 DEF TablesHold, WorkspacesAreSound
<1> HIDE DEF m
<1>6. /\ \A u, w : belongs(u, w)' <=> belongs(u, w) \/ (u = e /\ w = e)
      /\ \A u, w : isFounder(u, w)' <=> isFounder(u, w) \/ (u = e /\ w = e)
      /\ \A w : w # e => headcount(w)' = headcount(w)
      /\ headcount(e)' = headcount(e) + 1
  BY <1>1, <1>2, FactsAfterAppend
<1>7. headcount(e) = 0
  <2>1. \A n \in DOMAIN members : members[n].workspace # e
    BY <1>5 DEF TablesHold, RowsAreSound
  <2>2. {n \in DOMAIN members : members[n].workspace = e} = {}
    BY <2>1
  <2> QED BY <2>2, FS_EmptySet DEF headcount
<1>8. PICK r : r = [mode |-> "SINGLE_FOUNDER", plan |-> Trial]
  OBVIOUS
<1>9. r \in WorkspaceRow /\ r # None
  BY <1>8 DEF WorkspaceRow, MembersAssumption
<1>10. /\ workspaces' \in [Emails -> WorkspaceRow \cup {None}] /\ workspaces'[e] = r
       /\ \A w \in Emails : w # e => workspaces'[w] = workspaces[w]
  BY <1>1, <1>8, <1>9 DEF MembersTypeOK, register, createRegistration, startTrialSubscription
<1>11. MembersTypeOK'
  <2>1. /\ members' \in Seq(MemberRow)
        /\ \A n \in DOMAIN members' : members'[n].user \in accounts'
        /\ \A p, n \in DOMAIN members' :
              members'[p].user = members'[n].user /\ members'[p].workspace = members'[n].workspace => p = n
    BY <1>1, <1>2, <1>4, AppendKeepsTypes
  <2> QED BY <1>1, <1>10, <2>1 DEF MembersTypeOK, register
<1>12. RowsAreSound'
  <2>1. /\ DOMAIN members' = DOMAIN members \cup {Len(members) + 1}
        /\ members'[Len(members) + 1] = m
        /\ \A n \in DOMAIN members : members'[n] = members[n]
    BY <1>1, <1>2, RowsAfterAppend
  <2>2. \A n \in DOMAIN members : members[n].workspace \in Emails
    BY <1>1, RowsAreTyped
  <2> QED BY <1>2, <1>9, <1>10, <2>1, <2>2 DEF TablesHold, RowsAreSound, register
<1>13. WorkspacesAreSound'
  <2>1. ASSUME NEW w \in Emails, workspaces'[w] # None
        PROVE  isFounder(w, w)' /\ \E plan \in Plans : headcount(w)' <= plan
    <3>1. CASE w = e
      <4>1. PICK plan \in Plans : Trial <= plan /\ plan \in Nat /\ Trial \in Nat \ {0}
        BY DEF MembersAssumption
      <4> QED BY <1>6, <1>7, <3>1, <4>1
    <3>2. CASE w # e
      BY <1>6, <1>10, <2>1, <3>2 DEF TablesHold, WorkspacesAreSound
    <3> QED BY <3>1, <3>2
  <2> QED BY <2>1 DEF WorkspacesAreSound
<1>14. InvitationsAreSound'
  <2>1. \A i \in Invitations : invitations[i] # None =>
            invitations[i].workspace \in Emails /\ workspaces[invitations[i].workspace] # None
    BY InvitationsAreTyped
  <2> QED BY <1>5, <1>10, <2>1 DEF TablesHold, InvitationsAreSound, register
<1>15. SessionsAreSound' /\ SessionsFollowMembership'
  <2>1. SessionsAreSound'
    BY <1>1 DEF TablesHold, SessionsAreSound, register
  <2>2. ASSUME NEW s \in Sessions, liveSession(s)', ~belongs(sessions[s].user, sessions[s].workspace)'
        PROVE  ~sessions'[s].chosen
    <3>1. sessions' = sessions /\ now' = now
      BY DEF register
    <3>2. liveSession(s)
      BY <2>2, <3>1 DEF liveSession
    <3>3. PICK u, w : u = sessions[s].user /\ w = sessions[s].workspace
      OBVIOUS
    <3>4. ~belongs(u, w)'
      BY <2>2, <3>1, <3>3 DEF belongs
    <3> QED BY <1>6, <3>1, <3>2, <3>3, <3>4 DEF TablesHold, SessionsFollowMembership
  <2> QED BY <2>1, <2>2 DEF SessionsFollowMembership
<1>16. TablesHold'
  BY <1>11, <1>12, <1>13, <1>14, <1>15 DEF TablesHold
<1> QED BY <1>5, <1>6, <1>16

\* No request knows anything of an account or a workspace that was not there.
LEMMA RegistrationMoves ==
    ASSUME MembersAssumption, MembersInvariant, NEW e \in Registrants, register(e)
    PROVE  MembersInvariant'
<1>1. TablesHold /\ e \notin accounts /\ accounts' = accounts \cup {e}
  BY DEF MembersInvariant, register, createRegistration
<1>2. /\ TablesHold' /\ workspaces[e] = None
      /\ \A u, w : belongs(u, w)' <=> belongs(u, w) \/ (u = e /\ w = e)
      /\ \A w : w # e => headcount(w)' = headcount(w)
  BY <1>1, RegistrationKeepsTables
<1>3. ASSUME NEW c PROVE KeepsKnowledge(c)
  <2>1. \A u \in accounts, w \in Emails : belongs(u, w)' <=> belongs(u, w)
    BY <1>1, <1>2
  <2>2. \A w \in Emails : workspaces[w] # None /\ roomIn(w) => roomIn(w)'
    BY <1>2 DEF roomIn
  <2> QED BY <1>1, <2>1, <2>2 DEF KeepsKnowledge, register
<1> QED BY <1>2, <1>3, TablesMove DEF register

\* An invitation lets its user in, or finds it there.
InvitationIsUsed(i, u, r) ==
    /\ r \in InvitationRow /\ invitations' = [invitations EXCEPT ![i] = r]
    /\ r.workspace = invitations[i].workspace /\ r.admitted = 1 /\ r.acceptedBy = u /\ ~r.claimPending
    /\ workspaces' = [workspaces EXCEPT ![invitations[i].workspace].mode = "COLLABORATIVE"]
    /\ \/ members' = members
       \/ /\ members' = admit(i, u)
          /\ ~belongs(u, invitations[i].workspace) /\ roomIn(invitations[i].workspace)

\* What the rows say once u was let into x, or found there: nothing else about anybody.
LetsIn(u, x) ==
    /\ \A v, w : belongs(v, w)' <=> belongs(v, w) \/ (members' # members /\ v = u /\ w = x)
    /\ \A v, w : isFounder(v, w)' <=> isFounder(v, w)
    /\ \A w : w # x => headcount(w)' = headcount(w)
    /\ headcount(x) \in Nat
    /\ headcount(x)' = IF members' = members THEN headcount(x) ELSE headcount(x) + 1

\* An invitation is used: its user belongs to its workspace.
LEMMA FactsAfterUse ==
    ASSUME MembersAssumption, TablesHold, NEW i \in Invitations, invitations[i] # None,
           NEW u \in Emails, NEW r, InvitationIsUsed(i, u, r), NEW x, x = invitations[i].workspace
    PROVE  LetsIn(u, x)
<1>0. MembersTypeOK
  BY DEF TablesHold
<1>1. headcount(x) \in Nat
  BY <1>0, HeadcountIsNatural
<1>2. CASE members' = members
  BY <1>1, <1>2, RowsStay DEF LetsIn
<1>3. CASE members' # members
  <2>0. PICK m : m = [workspace |-> x, user |-> u, role |-> invitations[i].role, via |-> i]
    OBVIOUS
  <2>1. members' = Append(members, m)
    BY <1>3, <2>0 DEF InvitationIsUsed, admit
  <2>2. x \in Emails /\ invitations[i].role \in Roles
    BY InvitationsAreTyped
  <2>3. /\ m \in MemberRow /\ m.user = u /\ m.workspace = x /\ m.role # "FOUNDER"
    BY <2>0, <2>2 DEF MemberRow, MembersAssumption
  <2>4. /\ \A v, w : belongs(v, w)' <=> belongs(v, w) \/ (v = m.user /\ w = m.workspace)
        /\ \A v, w : isFounder(v, w)' <=>
              isFounder(v, w) \/ (v = m.user /\ w = m.workspace /\ m.role = "FOUNDER")
        /\ \A w : w # m.workspace => headcount(w)' = headcount(w)
        /\ headcount(m.workspace)' = headcount(m.workspace) + 1
    BY <1>0, <2>1, <2>3, FactsAfterAppend
  <2> QED BY <1>1, <1>3, <2>3, <2>4 DEF LetsIn
<1> QED BY <1>2, <1>3

\* It admitted nobody before, and there was room.
LEMMA UseKeepsTables ==
    ASSUME MembersAssumption, TablesHold, NEW i \in Invitations, invitations[i] # None, invitations[i].admitted = 0,
           NEW u \in Emails, NEW r, InvitationIsUsed(i, u, r),
           now' = now, accounts \subseteq accounts', accounts' \subseteq Emails, u \in accounts',
           sessions' \in [Sessions -> SessionRow \cup {None}],
           \A s \in Sessions : sessions'[s] # None => sessions'[s].user \in accounts',
           \A s \in Sessions :
              sessions'[s] = sessions[s] \/ \E v, w : v = sessions'[s].user /\ w = sessions'[s].workspace /\ belongs(v, w)'
    PROVE  TablesHold'
<1>0. PICK x : x = invitations[i].workspace
  OBVIOUS
<1>1. MembersTypeOK
  BY DEF TablesHold
<1>2. x \in Emails /\ invitations[i].role \in Roles /\ workspaces[x] # None
  BY <1>0, InvitationsAreTyped
<1>3. /\ workspaces' \in [Emails -> WorkspaceRow \cup {None}]
      /\ \A v \in Emails : workspaces'[v] # None <=> workspaces[v] # None
  <2>1. workspaces' = [workspaces EXCEPT ![x].mode = "COLLABORATIVE"]
    BY <1>0 DEF InvitationIsUsed
  <2> QED BY <1>1, <1>2, <2>1, WorkspacesMove
<1>4. /\ invitations' \in [Invitations -> InvitationRow \cup {None}] /\ invitations'[i] = r
      /\ \A j \in Invitations : j # i => invitations'[j] = invitations[j]
  BY <1>1 DEF MembersTypeOK, InvitationIsUsed
<1>5. /\ \A v, w : belongs(v, w)' <=> belongs(v, w) \/ (members' # members /\ v = u /\ w = x)
      /\ \A v, w : isFounder(v, w)' <=> isFounder(v, w)
      /\ \A w : w # x => headcount(w)' = headcount(w)
      /\ headcount(x) \in Nat
      /\ headcount(x)' = IF members' = members THEN headcount(x) ELSE headcount(x) + 1
  <2>1. LetsIn(u, x)
    BY <1>0, FactsAfterUse
  <2> QED BY <2>1 DEF LetsIn
<1>6. CASE members' = members
  <2>1. MembersTypeOK'
    BY <1>1, <1>3, <1>4, <1>6 DEF MembersTypeOK
  <2>2. ASSUME NEW n \in DOMAIN members, members[n].via # None
        PROVE  invitations'[members[n].via] = invitations[members[n].via]
    <3>1. members[n].via \in Invitations /\ invitations[members[n].via] # None
          /\ invitations[members[n].via].admitted = 1
      BY <1>1, <2>2, RowsAreTyped DEF TablesHold, RowsAreSound
    <3> QED BY <1>4, <3>1
  <2>3. \A n \in DOMAIN members : members[n].workspace \in Emails
    BY <1>1, RowsAreTyped
  <2>4. RowsAreSound'
    BY <1>3, <1>6, <2>2, <2>3 DEF TablesHold, RowsAreSound
  <2>5. WorkspacesAreSound'
    BY <1>3, <1>6, RowsStay DEF TablesHold, WorkspacesAreSound
  <2> QED
    <3>1. InvitationsAreSound' /\ SessionsAreSound' /\ SessionsFollowMembership'
      <4>1. InvitationsAreSound'
        <5>1. \A j \in Invitations : invitations[j] # None => invitations[j].workspace \in Emails
          BY InvitationsAreTyped
        <5>2. r.acceptedBy # None
          BY DEF InvitationIsUsed, MembersAssumption
        <5> QED BY <1>0, <1>2, <1>3, <1>4, <5>1, <5>2 DEF TablesHold, InvitationsAreSound, InvitationIsUsed
      <4>2. SessionsAreSound'
        BY DEF SessionsAreSound
      <4>3. ASSUME NEW s \in Sessions, liveSession(s)', ~belongs(sessions[s].user, sessions[s].workspace)'
            PROVE  ~sessions'[s].chosen
        <5>1. sessions'[s] = sessions[s]
          BY <4>3 DEF belongs
        <5>2. liveSession(s)
          BY <4>3, <5>1 DEF liveSession
        <5>3. ~belongs(sessions[s].user, sessions[s].workspace)
          BY <1>6, <4>3, <5>1 DEF belongs
        <5> QED BY <5>1, <5>2, <5>3 DEF TablesHold, SessionsFollowMembership
      <4> QED BY <4>1, <4>2, <4>3 DEF SessionsFollowMembership
    <3> QED BY <2>1, <2>4, <2>5, <3>1 DEF TablesHold
<1>7. CASE members' # members
  <2>0. PICK m : m = [workspace |-> x, user |-> u, role |-> invitations[i].role, via |-> i]
    OBVIOUS
  <2>1. members' = Append(members, m) /\ ~belongs(u, x) /\ roomIn(x)
    BY <1>0, <1>7, <2>0 DEF InvitationIsUsed, admit
  <2>2. /\ m \in MemberRow /\ m.user = u /\ m.workspace = x /\ m.role # "FOUNDER" /\ m.via = i
    BY <1>2, <2>0 DEF MemberRow, MembersAssumption
  <2>3. /\ members' \in Seq(MemberRow)
        /\ \A n \in DOMAIN members' : members'[n].user \in accounts'
        /\ \A p, n \in DOMAIN members' :
              members'[p].user = members'[n].user /\ members'[p].workspace = members'[n].workspace => p = n
    BY <1>1, <2>1, <2>2, AppendKeepsTypes
  <2>4. MembersTypeOK'
    BY <1>1, <1>3, <1>4, <2>3 DEF MembersTypeOK
  <2>5. ASSUME NEW n \in DOMAIN members, members[n].via # None
        PROVE  invitations'[members[n].via] = invitations[members[n].via]
    <3>1. members[n].via \in Invitations /\ invitations[members[n].via] # None
          /\ invitations[members[n].via].admitted = 1
      BY <1>1, <2>5, RowsAreTyped DEF TablesHold, RowsAreSound
    <3> QED BY <1>4, <3>1
  <2>6. \A n \in DOMAIN members : members[n].workspace \in Emails
    BY <1>1, RowsAreTyped
  <2>7. /\ DOMAIN members' = DOMAIN members \cup {Len(members) + 1}
        /\ members'[Len(members) + 1] = m
        /\ \A n \in DOMAIN members : members'[n] = members[n]
    BY <1>1, <2>1, <2>2, RowsAfterAppend
  <2>8. /\ invitations'[i] # None /\ invitations'[i].admitted = 1 /\ invitations'[i].acceptedBy = u
        /\ ~invitations'[i].claimPending /\ invitations'[i].workspace = x
    BY <1>0, <1>4 DEF InvitationIsUsed, MembersAssumption
  <2>9. RowsAreSound'
    <3>1. ASSUME NEW n \in DOMAIN members'
          PROVE  /\ workspaces'[members'[n].workspace] # None
                 /\ members'[n].role = "FOUNDER" => members'[n].user = members'[n].workspace
                 /\ members'[n].via # None =>
                       LET j == members'[n].via IN
                       /\ invitations'[j] # None
                       /\ invitations'[j].admitted = 1 /\ invitations'[j].acceptedBy = members'[n].user
                       /\ ~invitations'[j].claimPending /\ invitations'[j].workspace = members'[n].workspace
      <4>1. CASE n \in DOMAIN members
        <5>1. members'[n] = members[n]
          BY <2>7, <4>1
        <5> QED BY <1>3, <2>5, <2>6, <4>1, <5>1 DEF TablesHold, RowsAreSound
      <4>2. CASE n = Len(members) + 1
        <5>1. members'[n] = m
          BY <2>7, <4>2
        <5> QED BY <1>2, <1>3, <2>2, <2>8, <5>1
      <4> QED BY <2>7, <4>1, <4>2
    <3> QED BY <3>1 DEF RowsAreSound
  <2>10. WorkspacesAreSound'
    <3>1. ASSUME NEW w \in Emails, workspaces'[w] # None
          PROVE  isFounder(w, w)' /\ \E plan \in Plans : headcount(w)' <= plan
      <4>1. workspaces[w] # None
        BY <1>3, <3>1
      <4>2. isFounder(w, w) /\ \E plan \in Plans : headcount(w) <= plan
        BY <4>1 DEF TablesHold, WorkspacesAreSound
      <4>3. CASE w # x
        BY <1>5, <4>2, <4>3
      <4>4. CASE w = x
        <5>1. PICK plan \in Plans : headcount(x) < plan /\ plan \in Nat
          BY <2>1 DEF roomIn, MembersAssumption
        <5>2. headcount(w)' = headcount(x) + 1
          BY <1>5, <1>7, <4>4
        <5> QED BY <1>5, <4>2, <5>1, <5>2
      <4> QED BY <4>3, <4>4
    <3> QED BY <3>1 DEF WorkspacesAreSound
  <2>11. InvitationsAreSound'
    <3>1. \A j \in Invitations : invitations[j] # None => invitations[j].workspace \in Emails
      BY InvitationsAreTyped
    <3>2. u # None
      BY DEF MembersAssumption
    <3> QED BY <1>2, <1>3, <1>4, <2>8, <3>1, <3>2 DEF TablesHold, InvitationsAreSound
  <2>12. SessionsAreSound'
    BY DEF SessionsAreSound
  <2>13. ASSUME NEW s \in Sessions, liveSession(s)', ~belongs(sessions[s].user, sessions[s].workspace)'
         PROVE  ~sessions'[s].chosen
    <3>1. sessions'[s] = sessions[s]
      BY <2>13 DEF belongs
    <3>2. liveSession(s)
      BY <2>13, <3>1 DEF liveSession
    <3>3. PICK v, w : v = sessions[s].user /\ w = sessions[s].workspace
      OBVIOUS
    <3>4. ~belongs(v, w)'
      BY <2>13, <3>1, <3>3 DEF belongs
    <3> QED BY <1>5, <3>1, <3>2, <3>3, <3>4 DEF TablesHold, SessionsFollowMembership
  <2>14. SessionsFollowMembership'
    BY <2>13 DEF SessionsFollowMembership
  <2> QED BY <2>4, <2>9, <2>10, <2>11, <2>12, <2>14 DEF TablesHold
<1> QED BY <1>6, <1>7

\* Whoever else has locks is about other accounts and workspaces.
LEMMA UseKeepsKnowledge ==
    ASSUME MembersAssumption, MembersInvariant, NEW k \in Calls, NEW j \in Calls, j # k,
           NEW i \in Invitations, invitations[i] # None, NEW u \in Emails, NEW r, InvitationIsUsed(i, u, r),
           Workspace(invitations[i].workspace) \in held(calls[k]),
           u \in accounts => Account(u) \in held(calls[k]),
           accounts \subseteq accounts',
           \A s \in Sessions : sessions[s] # None => sessions'[s] # None /\ sessions'[s].user = sessions[s].user
    PROVE  KeepsKnowledge(calls[j])
<1>0. PICK x : x = invitations[i].workspace
  OBVIOUS
<1>1. TablesHold /\ held(calls[j]) \cap held(calls[k]) = {}
  BY DEF MembersInvariant, LocksAreExclusive
<1>2. /\ \A v, w : belongs(v, w)' <=> belongs(v, w) \/ (members' # members /\ v = u /\ w = x)
      /\ \A w : w # x => headcount(w)' = headcount(w)
  <2>1. x = invitations[i].workspace /\ TablesHold
    BY <1>0, <1>1
  <2>2. MembersAssumption /\ InvitationIsUsed(i, u, r) /\ invitations[i] # None
    OBVIOUS
  <2>3. LetsIn(u, x)
    BY <2>1, <2>2, FactsAfterUse
  <2> QED BY <2>3, Zenon DEF LetsIn
<1>3. Workspace(x) \notin held(calls[j]) /\ (u \in accounts => Account(u) \notin held(calls[j]))
  BY <1>0, <1>1
<1>4. \A v \in accounts, w \in Emails : Account(v) \in held(calls[j]) => (belongs(v, w)' <=> belongs(v, w))
  BY <1>2, <1>3
<1>5. \A w \in Emails : Workspace(w) \in held(calls[j]) /\ roomIn(w) => roomIn(w)'
  BY <1>2, <1>3 DEF roomIn
<1>6. \A h \in Invitations : invitations[h] # None =>
          invitations'[h] # None /\ invitations'[h].workspace = invitations[h].workspace
  BY <1>1 DEF InvitationIsUsed, TablesHold, MembersTypeOK, MembersAssumption
<1> QED BY <1>4, <1>5, <1>6 DEF KeepsKnowledge

\* The bearer of a token joins with a new account.
LEMMA NewcomerJoins ==
    ASSUME MembersAssumption, MembersInvariant, NEW k \in Calls, calls[k].op = "accept", calls[k].read,
           invitations[calls[k].target].acceptedBy = None, joinAnew(k, calls[k].target), UNCHANGED <<now, sessions>>
    PROVE  MembersInvariant'
<1>0. PICK c, i, u : c = calls[k] /\ i = calls[k].target /\ u = calls[k].user
  OBVIOUS
<1>1. TablesHold /\ MembersTypeOK /\ RequestIsSound(c) /\ AcceptIsSound(c)
  BY <1>0 DEF MembersInvariant, TablesHold, RequestsAreSound, RequestIsSound
<1>2. u \in Emails /\ i \in Invitations /\ invitations[i] # None /\ u \notin accounts
      /\ c.keys = acceptKeys(i, u) /\ roomIn(invitations[i].workspace)
  BY <1>0, <1>1 DEF AcceptIsSound, joinAnew
<1>3. invitations[i] \in InvitationRow /\ invitations[i].admitted = 0 /\ ~invitations[i].claimPending
  BY <1>0, <1>1, <1>2, InvitationsAreTyped DEF TablesHold, InvitationsAreSound
<1>4. PICK r : r = [invitations[i] EXCEPT !.acceptedBy = u, !.admitted = 1]
  OBVIOUS
<1>5. /\ r \in InvitationRow /\ r.workspace = invitations[i].workspace /\ r.admitted = 1 /\ r.acceptedBy = u
      /\ ~r.claimPending
  <2>1. ~[invitations[i] EXCEPT !.acceptedBy = u, !.admitted = 1].claimPending
    BY <1>3 DEF InvitationRow
  <2>2. 1 \in Nat
    OBVIOUS
  <2> QED BY <1>2, <1>3, <1>4, <2>1, <2>2 DEF InvitationRow
<1>6. invitations' = [invitations EXCEPT ![i] = r]
  <2>1. invitations' = [invitations EXCEPT ![i] = [invitations[i] EXCEPT !.acceptedBy = u,
                                                     !.admitted = invitations[i].admitted + 1]]
    BY <1>0 DEF joinAnew
  <2>2. invitations[i].admitted + 1 = 1
    BY <1>3
  <2> QED BY <1>4, <2>1, <2>2
<1>7. \A n \in DOMAIN members : members[n].user # u
  BY <1>1, <1>2 DEF MembersTypeOK
<1>8. ~belongs(u, invitations[i].workspace)
  BY <1>7 DEF belongs
<1>9. InvitationIsUsed(i, u, r)
  BY <1>0, <1>2, <1>5, <1>6, <1>8 DEF InvitationIsUsed, joinAnew
<1>10. accounts' = accounts \cup {u} /\ accounts \subseteq Emails /\ sessions' = sessions /\ now' = now
       /\ sessions \in [Sessions -> SessionRow \cup {None}]
  BY <1>0, <1>1 DEF joinAnew, MembersTypeOK
<1>11. \A s \in Sessions : sessions'[s] # None => sessions'[s].user \in accounts'
  BY <1>1, <1>10 DEF TablesHold, SessionsAreSound
<1>12. TablesHold'
  BY <1>1, <1>2, <1>3, <1>9, <1>10, <1>11, UseKeepsTables
<1>13. Workspace(invitations[i].workspace) \in held(c)
  BY <1>0, <1>1, <1>2, AllHeld DEF acceptKeys, RequestIsSound
<1>14. \A j \in Calls : j # k => KeepsKnowledge(calls[j])
  BY <1>0, <1>2, <1>9, <1>10, <1>13, UseKeepsKnowledge
<1>15. Finish(k) /\ calls' # calls
  <2>1. calls \in [Calls -> Call] /\ Idle.op = "idle"
    BY DEF MembersInvariant, RequestsAreSound, Idle, Request
  <2> QED BY <2>1 DEF joinAnew, Finish
<1> QED BY <1>12, <1>14, <1>15, TablesMove

\* acceptInvitation, whichever way it ends.
LEMMA AcceptanceCommits ==
    ASSUME MembersAssumption, MembersInvariant, NEW k \in Calls, commitAcceptance(k)
    PROVE  MembersInvariant'
<1>1. calls[k].op = "accept" /\ calls[k].read /\ UNCHANGED <<now, sessions>>
  BY DEF commitAcceptance
<1>2. CASE invitations[calls[k].target].acceptedBy # None
  BY <1>1, <1>2, RequestEnds DEF commitAcceptance
<1>3. CASE invitations[calls[k].target].acceptedBy = None /\ deferClaim(k, calls[k].target)
  BY <1>1, <1>3, ClaimIsDeferred
<1>4. CASE invitations[calls[k].target].acceptedBy = None /\ joinAnew(k, calls[k].target)
  BY <1>1, <1>4, NewcomerJoins
<1>5. CASE retryAcceptance(k)
  BY <1>1, <1>5, AcceptanceRetries
<1> QED BY <1>2, <1>3, <1>4, <1>5 DEF commitAcceptance

\* acceptInvitationForAuthenticatedUser: account and workspace are locked since the read.
LEMMA ClaimCommits ==
    ASSUME MembersAssumption, MembersInvariant, NEW k \in Calls, commitClaim(k)
    PROVE  MembersInvariant'
<1>0. PICK c, i, u, s, x :
          /\ c = calls[k] /\ i = calls[k].target /\ u = calls[k].user /\ s = calls[k].session
          /\ x = invitations[calls[k].target].workspace
  OBVIOUS
<1>1. TablesHold /\ MembersTypeOK /\ RequestIsSound(c) /\ ClaimIsMade(c) /\ c.read
  BY <1>0 DEF MembersInvariant, TablesHold, RequestsAreSound, RequestIsSound, commitClaim
<1>2. /\ i \in Invitations /\ invitations[i] # None /\ s \in Sessions /\ sessions[s] # None
      /\ sessions[s].user = u /\ u \in accounts /\ c.keys = claimKeys(i, u)
      /\ "member" \in c.found <=> belongs(u, x)
      /\ "member" \notin c.found => roomIn(x)
  BY <1>0, <1>1 DEF ClaimIsMade, InSession
<1>3. /\ invitations[i] \in InvitationRow /\ x \in Emails /\ u \in Emails /\ u # None
      /\ accounts \subseteq Emails
  BY <1>0, <1>1, <1>2, InvitationsAreTyped DEF MembersTypeOK, MembersAssumption
<1>4. CASE consumable(k) /\ liveSession(s)
  <2>1. completeClaim(k, i)
    BY <1>0, <1>4 DEF commitClaim
  <2>2. invitations[i].admitted = 0
    BY <1>0, <1>1, <1>2, <1>4 DEF consumable, TablesHold, InvitationsAreSound
  <2>3. PICK r : r = [invitations[i] EXCEPT !.acceptedBy = u, !.claimPending = FALSE, !.admitted = 1]
    OBVIOUS
  <2>4. /\ r \in InvitationRow /\ r.workspace = x /\ r.admitted = 1 /\ r.acceptedBy = u
        /\ ~r.claimPending
    BY <1>0, <1>3, <2>3 DEF InvitationRow
  <2>5. invitations' = [invitations EXCEPT ![i] = r]
    <3>1. invitations' = [invitations EXCEPT ![i] = [invitations[i] EXCEPT !.acceptedBy = u, !.claimPending = FALSE,
                                                       !.admitted = invitations[i].admitted + 1]]
      BY <1>0, <2>1 DEF completeClaim
    <3>2. invitations[i].admitted + 1 = 1
      BY <2>2
    <3> QED BY <2>3, <3>1, <3>2
  <2>6. InvitationIsUsed(i, u, r)
    BY <1>0, <1>2, <2>1, <2>4, <2>5 DEF InvitationIsUsed, completeClaim
  <2>7. sessions' = enter(s, x)
    BY <1>0, <2>1 DEF completeClaim
  <2>8. /\ sessions' \in [Sessions -> SessionRow \cup {None}]
        /\ \A t \in Sessions : t # s => sessions'[t] = sessions[t]
        /\ sessions'[s] # None /\ sessions'[s].user = u /\ sessions'[s].workspace = x
    BY <1>1, <1>2, <1>3, <2>7, SessionEnters
  <2>9. accounts' = accounts /\ now' = now
    BY DEF commitClaim
  <2>10. \A t \in Sessions : sessions'[t] # None => sessions'[t].user \in accounts'
    BY <1>1, <1>2, <2>8, <2>9 DEF TablesHold, SessionsAreSound
  <2>11. belongs(u, x)'
    <3>1. \A v, w : belongs(v, w)' <=> belongs(v, w) \/ (members' # members /\ v = u /\ w = x)
      <4>1. LetsIn(u, x)
        BY <1>0, <1>1, <1>2, <1>3, <2>6, FactsAfterUse
      <4> QED BY <4>1, Zenon DEF LetsIn
    <3>2. CASE "member" \in c.found
      BY <1>2, <3>1, <3>2
    <3>3. CASE "member" \notin c.found
      <4>1. members' = admit(i, u) /\ Len(members) \in Nat /\ members \in Seq(MemberRow)
        BY <1>0, <1>1, <2>1, <3>3 DEF completeClaim, MembersTypeOK
      <4>2. Len(members') = Len(members) + 1
        BY <4>1 DEF admit
      <4> QED BY <3>1, <4>1, <4>2
    <3> QED BY <3>2, <3>3
  <2>12. \A t \in Sessions :
             sessions'[t] = sessions[t] \/ \E v, w : v = sessions'[t].user /\ w = sessions'[t].workspace /\ belongs(v, w)'
    BY <2>8, <2>11
  <2>13. TablesHold'
    BY <1>1, <1>2, <1>3, <2>2, <2>6, <2>8, <2>9, <2>10, <2>12, UseKeepsTables
  <2>14. Workspace(x) \in held(c) /\ Account(u) \in held(c)
    BY <1>0, <1>1, <1>2, AllHeld DEF claimKeys, RequestIsSound
  <2>15. \A t \in Sessions : sessions[t] # None => sessions'[t] # None /\ sessions'[t].user = sessions[t].user
    BY <1>2, <2>8
  <2>16. \A j \in Calls : j # k => KeepsKnowledge(calls[j])
    BY <1>0, <1>2, <1>3, <2>6, <2>9, <2>14, <2>15, UseKeepsKnowledge
  <2>17. Finish(k) /\ calls' # calls
    <3>1. calls \in [Calls -> Call] /\ Idle.op = "idle"
      BY DEF MembersInvariant, RequestsAreSound, Idle, Request
    <3> QED BY <3>1 DEF commitClaim, Finish
  <2> QED BY <2>13, <2>16, <2>17, TablesMove
<1>5. CASE ~(consumable(k) /\ liveSession(s))
  BY <1>0, <1>5, RequestEnds DEF commitClaim
<1> QED BY <1>4, <1>5

\* changeMemberRole never touches a founder, and makes none.
LEMMA RoleChanges ==
    ASSUME MembersAssumption, MembersInvariant, NEW k \in Calls, NEW role \in Roles, changeMemberRole(k, role)
    PROVE  MembersInvariant'
<1>1. TablesHold /\ MembersTypeOK
  BY DEF MembersInvariant, TablesHold
<1>2. PICK M : M = manageable(k)
  OBVIOUS
<1>3. RolesChange(M, role) /\ \A n \in DOMAIN members : n \in M => members[n].role # "FOUNDER"
  BY <1>2 DEF changeMemberRole, RolesChange, manageable
<1>4. /\ \A u, w : belongs(u, w)' <=> belongs(u, w)
      /\ \A u, w : isFounder(u, w)' <=> isFounder(u, w)
      /\ \A w : headcount(w)' = headcount(w)
  BY <1>1, <1>3, FactsAfterRoleChange
<1>5. /\ members' \in Seq(MemberRow) /\ DOMAIN members' = DOMAIN members
      /\ \A n \in DOMAIN members :
            /\ members'[n].user = members[n].user /\ members'[n].workspace = members[n].workspace
            /\ members'[n].via = members[n].via
            /\ members'[n].role = IF n \in M THEN role ELSE members[n].role
  BY <1>1, <1>3, RowsAfterRoleChange
<1>6. MembersTypeOK'
  BY <1>1, <1>5 DEF MembersTypeOK, changeMemberRole
<1>7. RowsAreSound'
  <2>1. role # "FOUNDER"
    BY DEF MembersAssumption
  <2> QED BY <1>1, <1>5, <2>1 DEF TablesHold, RowsAreSound, changeMemberRole
<1>8. WorkspacesAreSound'
  BY <1>1, <1>4 DEF TablesHold, WorkspacesAreSound, changeMemberRole
<1>9. InvitationsAreSound' /\ SessionsAreSound'
  BY <1>1 DEF TablesHold, InvitationsAreSound, SessionsAreSound, changeMemberRole
<1>10. SessionsFollowMembership'
  <2>1. ASSUME NEW s \in Sessions, liveSession(s)', ~belongs(sessions[s].user, sessions[s].workspace)'
        PROVE  ~sessions'[s].chosen
    <3>1. sessions' = sessions /\ now' = now
      BY DEF changeMemberRole
    <3>2. liveSession(s)
      BY <2>1, <3>1 DEF liveSession
    <3>3. PICK u, w : u = sessions[s].user /\ w = sessions[s].workspace
      OBVIOUS
    <3>4. ~belongs(u, w)'
      BY <2>1, <3>1, <3>3 DEF belongs
    <3> QED BY <1>1, <1>4, <3>1, <3>2, <3>3, <3>4 DEF TablesHold, SessionsFollowMembership
  <2> QED BY <2>1 DEF SessionsFollowMembership
<1>11. TablesHold'
  BY <1>6, <1>7, <1>8, <1>9, <1>10 DEF TablesHold
<1>12. \A j \in Calls : KeepsKnowledge(calls[j])
  BY <1>4 DEF KeepsKnowledge, roomIn, changeMemberRole
<1> QED BY <1>11, <1>12, TablesMove DEF changeMemberRole

\* The sessions of a user in a workspace end.
LEMMA SessionsAreRevoked ==
    ASSUME MembersTypeOK, MembersAssumption, NEW u, NEW w, sessions' = revokeSessions(u, w)
    PROVE  /\ sessions' \in [Sessions -> SessionRow \cup {None}]
           /\ \A s \in Sessions :
                 /\ sessions[s] = None => sessions'[s] = None
                 /\ sessions[s] # None => sessions'[s] # None /\ sessions'[s].user = sessions[s].user
                 /\ sessions'[s] = sessions[s] \/ sessions'[s].revoked
                 /\ sessions[s] # None /\ sessions[s].user = u /\ sessions[s].workspace = w => sessions'[s].revoked
<1>1. sessions \in [Sessions -> SessionRow \cup {None}]
  BY DEF MembersTypeOK
<1>2. ASSUME NEW s \in Sessions
      PROVE  /\ sessions'[s] \in SessionRow \cup {None}
             /\ sessions[s] = None => sessions'[s] = None
             /\ sessions[s] # None => sessions'[s] # None /\ sessions'[s].user = sessions[s].user
             /\ sessions'[s] = sessions[s] \/ sessions'[s].revoked
             /\ sessions[s] # None /\ sessions[s].user = u /\ sessions[s].workspace = w => sessions'[s].revoked
  <2>1. CASE sessions[s] # None /\ sessions[s].user = u /\ sessions[s].workspace = w
    <3>1. sessions'[s] = [sessions[s] EXCEPT !.revoked = TRUE] /\ sessions[s] \in SessionRow
      BY <1>1, <2>1 DEF revokeSessions
    <3>2. sessions'[s] \in SessionRow /\ sessions'[s].user = sessions[s].user /\ sessions'[s].revoked
      BY <3>1 DEF SessionRow
    <3> QED BY <2>1, <3>2 DEF MembersAssumption
  <2>2. CASE ~(sessions[s] # None /\ sessions[s].user = u /\ sessions[s].workspace = w)
    BY <1>1, <2>2 DEF revokeSessions
  <2> QED BY <2>1, <2>2
<1>3. sessions' \in [Sessions -> SessionRow \cup {None}]
  BY <1>1, <1>2 DEF revokeSessions
<1> QED BY <1>2, <1>3

\* removeMember: the sessions of the member in the workspace end with the row, and no
\* request that still knows the membership can have its account's lock.
LEMMA MemberLeaves ==
    ASSUME MembersAssumption, MembersInvariant, NEW k \in Calls, removeMember(k)
    PROVE  MembersInvariant'
<1>1. TablesHold /\ MembersTypeOK
  BY DEF MembersInvariant, TablesHold
<1>2. CASE removable(k) = {}
  BY <1>2, RequestEnds DEF removeMember
<1>3. CASE removable(k) # {}
  <2>1. PICK n \in removable(k) : /\ members' = Without(members, n)
                                  /\ sessions' = revokeSessions(members[n].user, members[n].workspace)
    BY <1>3 DEF removeMember
  <2>2. n \in DOMAIN members /\ members[n].role # "FOUNDER" /\ idOf(members[n]) = calls[k].target
    BY DEF removable, manageable
  <2>3. PICK u, w : u = members[n].user /\ w = members[n].workspace
    OBVIOUS
  <2>4. /\ \A v, x : belongs(v, x)' <=> belongs(v, x) /\ ~(v = u /\ x = w)
        /\ \A v, x : isFounder(v, x)' <=> isFounder(v, x)
        /\ \A x : headcount(x)' \in Nat /\ headcount(x)' <= headcount(x)
    BY <1>1, <2>1, <2>2, <2>3, FactsAfterRemoval
  <2>5. /\ members' \in Seq(MemberRow)
        /\ \A i \in DOMAIN members' :
              \E j \in DOMAIN members : j = (IF i < n THEN i ELSE i + 1) /\ j # n /\ members'[i] = members[j]
        /\ DOMAIN members' = 1 .. Len(members) - 1 /\ n \in Nat
    BY <1>1, <2>1, <2>2, RowsAfterRemoval, RowsAreTyped
  <2>6. /\ sessions' \in [Sessions -> SessionRow \cup {None}]
        /\ \A s \in Sessions :
              /\ sessions[s] = None => sessions'[s] = None
              /\ sessions[s] # None => sessions'[s] # None /\ sessions'[s].user = sessions[s].user
              /\ sessions'[s] = sessions[s] \/ sessions'[s].revoked
              /\ sessions[s] # None /\ sessions[s].user = u /\ sessions[s].workspace = w => sessions'[s].revoked
    BY <1>1, <2>1, <2>3, SessionsAreRevoked
  <2>7. UNCHANGED <<now, accounts, workspaces, invitations>> /\ Finish(k) /\ Ready(k, "remove")
    BY DEF removeMember
  <2>8. MembersTypeOK'
    <3>1. \A i \in DOMAIN members' : members'[i].user \in accounts
      BY <1>1, <2>5 DEF MembersTypeOK
    <3>2. ASSUME NEW i \in DOMAIN members', NEW j \in DOMAIN members',
                 members'[i].user = members'[j].user, members'[i].workspace = members'[j].workspace
          PROVE  i = j
      <4>1. PICK p \in DOMAIN members : p = (IF i < n THEN i ELSE i + 1) /\ members'[i] = members[p]
        BY <2>5
      <4>2. PICK q \in DOMAIN members : q = (IF j < n THEN j ELSE j + 1) /\ members'[j] = members[q]
        BY <2>5
      <4>3. p = q
        BY <1>1, <3>2, <4>1, <4>2 DEF MembersTypeOK
      <4>4. i \in Nat /\ j \in Nat
        BY <2>5
      <4> QED BY <2>5, <4>1, <4>2, <4>3, <4>4
    <3> QED BY <1>1, <2>5, <2>6, <2>7, <3>1, <3>2 DEF MembersTypeOK
  <2>9. RowsAreSound'
    BY <1>1, <2>5, <2>7 DEF TablesHold, RowsAreSound
  <2>10. WorkspacesAreSound'
    <3>1. ASSUME NEW x \in Emails, workspaces'[x] # None
          PROVE  isFounder(x, x)' /\ \E plan \in Plans : headcount(x)' <= plan
      <4>1. isFounder(x, x) /\ \E plan \in Plans : headcount(x) <= plan
        BY <1>1, <2>7, <3>1 DEF TablesHold, WorkspacesAreSound
      <4>2. PICK plan \in Plans : headcount(x) <= plan /\ plan \in Nat
        BY <4>1 DEF MembersAssumption
      <4>3. headcount(x) \in Nat
        BY <1>1, HeadcountIsNatural
      <4> QED BY <2>4, <4>1, <4>2, <4>3
    <3> QED BY <3>1 DEF WorkspacesAreSound
  <2>11. InvitationsAreSound' /\ SessionsAreSound'
    BY <1>1, <2>6, <2>7 DEF TablesHold, InvitationsAreSound, SessionsAreSound
  <2>12. SessionsFollowMembership'
    <3>1. ASSUME NEW s \in Sessions, liveSession(s)', ~belongs(sessions[s].user, sessions[s].workspace)'
          PROVE  ~sessions'[s].chosen
      <4>1. sessions'[s] = sessions[s] /\ sessions[s] # None
        BY <2>6, <3>1 DEF liveSession
      <4>2. liveSession(s)
        BY <2>7, <3>1, <4>1 DEF liveSession
      <4>3. PICK v, x : v = sessions[s].user /\ x = sessions[s].workspace
        OBVIOUS
      <4>4. ~belongs(v, x)'
        BY <3>1, <4>1, <4>3 DEF belongs
      <4>5. ~(v = u /\ x = w)
        BY <2>6, <3>1, <4>1, <4>3 DEF liveSession
      <4>6. ~belongs(v, x)
        BY <2>4, <4>4, <4>5
      <4> QED BY <1>1, <4>1, <4>2, <4>3, <4>6 DEF TablesHold, SessionsFollowMembership
    <3> QED BY <3>1 DEF SessionsFollowMembership
  <2>13. TablesHold'
    BY <2>8, <2>9, <2>10, <2>11, <2>12 DEF TablesHold
  <2>14. Account(u) \in held(calls[k])
    <3>1. PICK c : c = calls[k]
      OBVIOUS
    <3>2. c.op = "remove" /\ c.locks = Len(c.keys)
      BY <2>7, <3>1 DEF Ready
    <3>3. c.keys = memberKeys(c.target)
      BY <3>1, <3>2 DEF MembersInvariant, RequestsAreSound, RequestIsSound, ManagementIsSound
    <3>4. c.target.user = u /\ c.target.workspace = w
      BY <2>2, <2>3, <3>1 DEF idOf
    <3>5. c.keys = <<Account(u), Workspace(w)>>
      BY <3>3, <3>4 DEF memberKeys
    <3> QED BY <3>1, <3>2, <3>5, AllHeld
  <2>15. ASSUME NEW j \in Calls, j # k PROVE KeepsKnowledge(calls[j])
    <3>1. Account(u) \notin held(calls[j])
      BY <2>14, <2>15 DEF MembersInvariant, LocksAreExclusive
    <3>2. \A v \in accounts, x \in Emails : Account(v) \in held(calls[j]) => (belongs(v, x)' <=> belongs(v, x))
      BY <2>4, <3>1
    <3>3. ASSUME NEW x \in Emails, roomIn(x) PROVE roomIn(x)'
      <4>1. PICK plan \in Plans : headcount(x) < plan /\ plan \in Nat
        BY <3>3 DEF roomIn, MembersAssumption
      <4>2. headcount(x) \in Nat
        BY <1>1, HeadcountIsNatural
      <4> QED BY <2>4, <4>1, <4>2 DEF roomIn
    <3> QED BY <2>6, <2>7, <3>2, <3>3 DEF KeepsKnowledge
  <2>16. calls' # calls
    <3>1. calls \in [Calls -> Call] /\ Idle.op = "idle"
      BY DEF MembersInvariant, RequestsAreSound, Idle, Request
    <3> QED BY <2>7, <3>1 DEF Finish, Ready
  <2> QED BY <2>7, <2>13, <2>15, <2>16, TablesMove
<1> QED BY <1>2, <1>3

-----------------------------------------------------------------------------
(* The theorem *)

\* Nobody has registered.
LEMMA MembersBegin == MembersInit => MembersInvariant
<1> SUFFICES ASSUME MembersInit PROVE MembersInvariant
  OBVIOUS
<1>1. members = <<>> /\ DOMAIN members = {}
  BY DEF MembersInit
<1>2. MembersTypeOK
  <2>1. members \in Seq(MemberRow)
    BY <1>1
  <2> QED BY <1>1, <2>1 DEF MembersInit, MembersTypeOK
<1>3. TablesHold
  BY <1>1, <1>2 DEF MembersInit, TablesHold, RowsAreSound, WorkspacesAreSound, InvitationsAreSound, SessionsAreSound,
                    SessionsFollowMembership, liveSession
<1>4. RequestsAreSound
  BY IdleIsSound DEF MembersInit, RequestsAreSound
<1>5. held(Idle) = {}
  BY IdleIsSound, NothingHeld
<1>6. LocksAreExclusive
  BY <1>5 DEF MembersInit, LocksAreExclusive
<1> QED BY <1>3, <1>4, <1>6 DEF MembersInvariant

\* Every step of the requests and around them.
LEMMA MembersStep ==
    ASSUME MembersInvariant, [MembersNext]_memberVars
    PROVE  MembersInvariant'
<1> USE MembersAssumption
<1>1. CASE UNCHANGED memberVars
  <2>1. \A j \in Calls : KeepsKnowledge(calls[j])
    BY <1>1, SameRowsKeepKnowledge DEF memberVars
  <2>2. TablesHold'
    <3>1. TablesHold /\ now \in Nat /\ sessions \in [Sessions -> SessionRow \cup {None}]
      BY DEF MembersInvariant, TablesHold, MembersTypeOK
    <3> QED BY <1>1, <3>1, SessionsMove DEF memberVars, TablesHold, SessionsAreSound
  <2> QED BY <1>1, <2>1, <2>2, TablesMove DEF memberVars
<1>2. CASE TimePasses
  BY <1>2, TimeMoves
<1>3. ASSUME NEW e \in Registrants, register(e) PROVE MembersInvariant'
  BY <1>3, RegistrationMoves
<1>4. ASSUME NEW s \in Sessions, logout(s) PROVE MembersInvariant'
  BY <1>4, LogoutMoves
<1>5. ASSUME NEW w \in Upgraded, NEW plan \in Plans, changePlan(w, plan) PROVE MembersInvariant'
  BY <1>5, PlanMoves
<1>6. ASSUME NEW k \in Calls, RequestStep(k) PROVE MembersInvariant'
  <2>1. CASE lockTransactionKey(k)
    BY <2>1, LockIsTaken
  <2>2. CASE \/ \E e \in Emails : login(k, e)
             \/ \E s \in Sessions, w \in Emails : switchWorkspace(k, s, w)
             \/ \E s \in Sessions : createInvitation(k, s)
             \/ \E i \in Invitations, e \in Emails : acceptInvitation(k, i, e)
             \/ \E s \in Sessions, i \in Invitations : acceptInvitationForAuthenticatedUser(k, s, i)
             \/ \E op \in {"changeRole", "remove"}, s \in Sessions, n \in DOMAIN members : manageMember(k, op, s, n)
    BY <2>2, RequestsBegin
  <2>3. CASE readSwitch(k) \/ readAcceptance(k) \/ readClaim(k)
    BY <2>3, RequestsRead
  <2>4. ASSUME NEW s \in Sessions, createSession(k, s) PROVE MembersInvariant'
    BY <2>4, SessionIsCreated
  <2>5. CASE commitSwitch(k)
    BY <2>5, SwitchCommits
  <2>6. ASSUME NEW i \in Invitations, NEW role \in Roles, commitInvitation(k, i, role) PROVE MembersInvariant'
    BY <2>6, InvitationIsMade
  <2>7. CASE commitAcceptance(k)
    BY <2>7, AcceptanceCommits
  <2>8. CASE commitClaim(k)
    BY <2>8, ClaimCommits
  <2>9. ASSUME NEW role \in Roles, changeMemberRole(k, role) PROVE MembersInvariant'
    BY <2>9, RoleChanges
  <2>10. CASE removeMember(k)
    BY <2>10, MemberLeaves
  <2> QED BY <1>6, <2>1, <2>2, <2>3, <2>4, <2>5, <2>6, <2>7, <2>8, <2>9, <2>10 DEF RequestStep
<1> QED BY <1>1, <1>2, <1>3, <1>4, <1>5, <1>6 DEF MembersNext

\* A request waits for an account or an invitee with nothing, and for a workspace
\* with at most one of the former: its holder waits for no account.
LEMMA NobodyWaitsInACircle == MembersInvariant => LocksAreOrdered
<1> SUFFICES ASSUME MembersInvariant, NEW k \in Calls, NEW j \in Calls, waitsFor(k, j), waitsFor(j, k) PROVE FALSE
  BY DEF LocksAreOrdered
<1>1. ASSUME NEW i \in Calls, NEW h \in Calls, waitsFor(i, h), waitsFor(h, i)
      PROVE  /\ held(calls[i]) = {calls[i].keys[1]} /\ calls[i].keys[1][1] # "workspace"
             /\ calls[i].keys[calls[i].locks + 1][1] = "workspace"
  <2>1. PICK c : c = calls[i]
    OBVIOUS
  <2>2. RequestIsSound(c) /\ c \in Call /\ c.locks \in Nat
    BY <2>1 DEF MembersInvariant, RequestsAreSound, Call
  <2>3. held(c) # {}
    BY <1>1, <2>1 DEF waitsFor
  <2>4. c.locks # 0
    BY <2>3, NothingHeld
  <2>5. c.locks < Len(c.keys)
    BY <1>1, <2>1 DEF waitsFor
  <2>6. c.op \in {"accept", "claim", "changeRole", "remove"}
    <3>1. c.op \in Operations
      BY <2>2 DEF Call
    <3>2. CASE c.op \in {"idle", "login"}
      <4>1. c.keys = <<>>
        BY <2>2, <3>2 DEF RequestIsSound
      <4>2. Len(c.keys) = 0
        BY <4>1
      <4> QED BY <2>2, <2>4, <2>5, <4>2
    <3>3. CASE c.op \in {"switch", "invite"}
      <4>1. PICK a : c.keys = <<a>>
        <5>1. CASE c.op = "switch"
          BY <2>2, <5>1 DEF RequestIsSound, SwitchIsSound
        <5>2. CASE c.op = "invite"
          BY <2>2, <5>2 DEF RequestIsSound
        <5> QED BY <3>3, <5>1, <5>2
      <4>2. Len(c.keys) = 1
        BY <4>1
      <4> QED BY <2>2, <2>4, <2>5, <4>2
    <3> QED BY <3>1, <3>2, <3>3 DEF Operations
  <2>7. \E a, w : a[1] # "workspace" /\ c.keys = <<a, Workspace(w)>>
    <3>1. CASE c.op = "accept"
      BY <2>2, <3>1 DEF RequestIsSound, AcceptIsSound, acceptKeys, Invitee
    <3>2. CASE c.op = "claim"
      BY <2>2, <3>2 DEF RequestIsSound, ClaimIsMade, claimKeys, Account
    <3>3. CASE c.op \in {"changeRole", "remove"}
      BY <2>2, <3>3 DEF RequestIsSound, ManagementIsSound, memberKeys, Account
    <3> QED BY <2>6, <3>1, <3>2, <3>3
  <2>8. PICK a, w : a[1] # "workspace" /\ c.keys = <<a, Workspace(w)>>
    BY <2>7
  <2>9. Len(c.keys) = 2 /\ c.keys[1] = a /\ c.keys[2] = Workspace(w)
    BY <2>8
  <2>10. c.locks = 1
    BY <2>2, <2>4, <2>5, <2>9
  <2>11. held(c) = {c.keys[1]}
    BY <2>10 DEF held
  <2> QED BY <2>1, <2>8, <2>9, <2>10, <2>11 DEF Workspace
<1>2. calls[k].keys[calls[k].locks + 1] \in held(calls[j])
  BY DEF waitsFor
<1> QED BY <1>1, <1>2

\* The invariant says what MembershipHolds says.
LEMMA MembersAreSafe == MembersInvariant => MembershipHolds
<1> SUFFICES ASSUME MembersInvariant PROVE MembershipHolds
  OBVIOUS
<1>1. TablesHold /\ LocksAreOrdered
  BY NobodyWaitsInACircle DEF MembersInvariant
<1>2. InvitationsAdmitOnce
  BY <1>1 DEF TablesHold, RowsAreSound, InvitationsAreSound, InvitationsAdmitOnce
<1>3. WorkspacesStayWhole
  <2>1. ASSUME NEW w \in Emails, NEW u \in Emails, isFounder(u, w) PROVE u = w
    BY <1>1, <2>1 DEF TablesHold, RowsAreSound, isFounder
  <2> QED BY <1>1, <2>1 DEF TablesHold, WorkspacesAreSound, WorkspacesStayWhole
<1> QED BY <1>1, <1>2, <1>3 DEF MembershipHolds, TablesHold

\* MembershipHolds for every number of addresses, invitations, sessions and
\* concurrent requests and every choice of the plans.  Whatever removeMember races,
\* no session that switchWorkspace or acceptInvitationForAuthenticatedUser moved
\* outlives the membership it was moved for; however acceptInvitation, a claim and a
\* registration race, an invitation admits one account once and no workspace grows
\* beyond every plan; the founder stays; and the order in which lockTransactionKey is
\* called leaves no two transactions waiting for each other.
THEOREM MembershipIsKept == MembersSpec => []MembershipHolds
<1>1. MembersInit => MembersInvariant
  BY MembersBegin
<1>2. MembersInvariant /\ [MembersNext]_memberVars => MembersInvariant'
  BY MembersStep
<1>3. MembersInvariant => MembershipHolds
  BY MembersAreSafe
<1> QED BY <1>1, <1>2, <1>3, PTL DEF MembersSpec

-----------------------------------------------------------------------------
(***************************************************************************)
(* NativeListener and NativeClient: NativeSafety is what a socket, a       *)
(* connection, an attempt and a client each may rely on of the others.     *)
(* Sockets and connections are only added (SocketsGoOn, WiresGoOn), so     *)
(* that what one of them knows survives the steps of all others.           *)
(***************************************************************************)

\* The fields of the four tables.
SocketFields == {"by", "listening", "backlog", "place", "moved"}
WireFields == {"to", "asks", "sent", "reply", "up"}
ServiceFields ==
    {"pc", "aborted", "deadline", "until", "inode", "before", "client", "custody", "interrupted", "ok", "at"}
ClientFields == {"pc", "auth", "before", "fd", "active", "closed", "ok"}

\* A socket and those who wait in its backlog.
SocketIsSound(w, i, s) ==
    /\ \E T : s \in [SocketFields -> T]
    /\ s.by \in ServiceOwners \cup {"foreign"}
    /\ s.place = "aside" => s.moved = TRUE
    /\ \E n \in Nat : s.backlog \in [1 .. n -> Clients]
    /\ \A k \in DOMAIN s.backlog : s.backlog[k] \in DOMAIN w /\ w[s.backlog[k]].to = i

\* One socket is at the path.
OneAtPath(tab) == \A i, j \in DOMAIN tab : tab[i].place = "path" /\ tab[j].place = "path" => i = j

SocketsAreSound(tab, w) ==
    /\ \E S : tab \in Seq(S)
    /\ \A i \in DOMAIN tab : SocketIsSound(w, i, tab[i])
    /\ OneAtPath(tab)

\* A connection leads to a socket, and a stranger answers on its own only.
WireIsSound(tab, x) ==
    /\ \E T : x \in [WireFields -> T]
    /\ x.to \in DOMAIN tab /\ x.reply \in ServiceOwners \cup {None, "foreign"}
    /\ x.reply = "foreign" => tab[x.to].by = "foreign"

WiresAreSound(tab, w) ==
    /\ DOMAIN w \subseteq Clients /\ \E T : w \in [DOMAIN w -> T]
    /\ \A c \in DOMAIN w : WireIsSound(tab, w[c])

\* An attempt before it has a socket, with a client, and after its exchange.
Beginning == {"idle", "asking", "granted"}
Attending == {"accepted", "identified", "requested", "answered", "confirmed"}
Leaving == {"closing", "closed", "unlinking", "removed", "ended"}

\* The carrier of an attempt is for the instance it asked for.
CarrierIsOwn(o) == Kind(o) \in CarrierKinds => Carrier[o].instance = Asked[o].instance

\* What the handler has checked before there is an answer.
AnswerIsDue(w, o, s) ==
    /\ s.client \in Authorized
    /\ Kind(o) \in ObservationKinds => w[s.client].asks = Asked[o].instance
    /\ s.custody \in {None, "closed"} /\ (IsSigning(o) => s.custody = "closed")

\* An attempt knows its socket, and from the connection on its client.
HoldsItsOwn(tab, w, o, s) ==
    /\ s.inode # 0 => s.inode \in DOMAIN tab /\ tab[s.inode].by = o
    /\ s.pc \in Beginning => s.inode = 0
    /\ s.pc \notin Leaving => s.interrupted = FALSE
    /\ s.pc \in Serving \cup (Leaving \ {"ended"}) => s.inode # 0
    /\ s.pc \notin {"idle", "asking", "ended"} => CarrierIsOwn(o)
    /\ s.pc \in Attending => s.client \in DOMAIN w /\ w[s.client].to = s.inode

\* What it has checked of its client at each stage, and what its answer tells.
AnswersSoundly(w, o, s) ==
    /\ s.pc \in {"requested", "answered", "confirmed"} => w[s.client].sent = TRUE
    /\ s.pc \in {"identified", "requested", "answered", "confirmed"} /\ Kind(o) \in FrameKinds => s.client \in Authorized
    /\ s.pc \in {"answered", "confirmed"} => AnswerIsDue(w, o, s)
    /\ \A c \in DOMAIN w : w[c].reply = o =>
         /\ s.pc \in Leaving /\ s.client = c /\ s.inode # 0 /\ w[c].to = s.inode /\ w[c].sent = TRUE
         /\ CarrierIsOwn(o) /\ AnswerIsDue(w, o, s)

\* How it leaves.
LeavesSoundly(tab, w, o, s) ==
    /\ s.ok = TRUE => /\ s.pc \in Leaving /\ s.interrupted = FALSE
                      /\ s.custody \in {None, "closed"} /\ \E c \in DOMAIN w : w[c].reply = o
    /\ s.pc = "unlinking" => s.interrupted = FALSE /\ tab[s.inode].listening = FALSE
    /\ s.pc \in {"removed", "ended"} /\ s.inode # 0 /\ s.interrupted = FALSE =>
         tab[s.inode].listening = FALSE /\ (tab[s.inode].place = "path" => tab[s.inode].moved = TRUE)
    /\ s.pc = "ended" /\ s.ok = TRUE => s.at < s.until /\ s.inode # 0

ServiceIsSound(tab, w, o, s) ==
    /\ \E T : s \in [ServiceFields -> T]
    /\ s.ok \in BOOLEAN /\ s.interrupted \in BOOLEAN /\ s.aborted \in BOOLEAN
    /\ s.pc \in Beginning \cup Serving \cup Leaving
    /\ HoldsItsOwn(tab, w, o, s) /\ AnswersSoundly(w, o, s) /\ LeavesSoundly(tab, w, o, s)

ClientIsSound(tab, w, c, x) ==
    /\ \E T : x \in [ClientFields -> T]
    /\ x.pc \in {"idle", "looked"} => c \notin DOMAIN w
    /\ x.pc # "idle" => x.auth \in DOMAIN tab /\ tab[x.auth].by \in ServiceOwners
    /\ x.pc \in {"writing", "reading", "received"} => c \in DOMAIN w
    /\ x.pc = "received" => w[c].reply # None
    /\ x.ok = TRUE => x.pc # "idle" /\ c \in DOMAIN w /\ w[c].reply = tab[x.auth].by /\ w[c].reply \in ServiceOwners
    /\ x.ok \in BOOLEAN

NativeSafety ==
    /\ now \in 0 .. Horizon /\ moves \in 0 .. MaxMoves
    /\ SocketsAreSound(sockets, wires) /\ WiresAreSound(sockets, wires)
    /\ \E T : service \in [ServiceOwners -> T]
    /\ \E T : client \in [Clients -> T]
    /\ \A o \in ServiceOwners : ServiceIsSound(sockets, wires, o, service[o])
    /\ \A c \in Clients : ClientIsSound(sockets, wires, c, client[c])

\* Sockets are only added, stay whose they were, and stay closed; one that comes
\* back to the path was moved.
SocketsGoOn(old, new) ==
    /\ DOMAIN old \subseteq DOMAIN new
    /\ \A i \in DOMAIN old :
         /\ new[i].by = old[i].by
         /\ old[i].listening = FALSE => new[i].listening = FALSE
         /\ old[i].moved = TRUE => new[i].moved = TRUE
         /\ new[i].place = "path" => old[i].place = "path" \/ new[i].moved = TRUE

\* Connections are only added; nobody but who answers adds an answer of an owner.
WiresGoOn(old, new, who) ==
    /\ DOMAIN old \subseteq DOMAIN new
    /\ \A c \in DOMAIN old :
         /\ new[c].to = old[c].to /\ new[c].asks = old[c].asks
         /\ old[c].sent = TRUE => new[c].sent = TRUE
         /\ old[c].reply # None => new[c].reply = old[c].reply
    /\ \A c \in DOMAIN new : new[c].reply \in ServiceOwners \ who => c \in DOMAIN old /\ new[c].reply = old[c].reply

\* What an attempt relies on survives the steps of others.
LEMMA ServicesStay ==
    ASSUME NEW tab, NEW w, NEW new, NEW v, NEW who, SocketsGoOn(tab, new), WiresGoOn(w, v, who),
           NEW o \in ServiceOwners \ who, NEW s, ServiceIsSound(tab, w, o, s)
    PROVE  ServiceIsSound(new, v, o, s)
<1>1. HoldsItsOwn(new, v, o, s)
  BY DEF ServiceIsSound, HoldsItsOwn, SocketsGoOn, WiresGoOn
<1>2. \A c \in DOMAIN v : v[c].reply = o => c \in DOMAIN w /\ w[c].reply = o /\ v[c].to = w[c].to /\ v[c].asks = w[c].asks
  BY DEF WiresGoOn
<1>3. \A c \in DOMAIN w : w[c].reply = o => c \in DOMAIN v /\ v[c].reply = o
  BY PeersAssumption DEF WiresGoOn
<1>4. s.client \in DOMAIN w => /\ v[s.client].asks = w[s.client].asks /\ v[s.client].to = w[s.client].to
                               /\ (w[s.client].sent = TRUE => v[s.client].sent = TRUE)
  BY DEF WiresGoOn
<1>5. s.client \in DOMAIN w /\ AnswerIsDue(w, o, s) => AnswerIsDue(v, o, s)
  BY <1>4 DEF AnswerIsDue
<1>6. AnswersSoundly(v, o, s)
  <2>1. s.pc \in Attending => s.client \in DOMAIN w
    BY DEF ServiceIsSound, HoldsItsOwn
  <2>2. s.pc \in {"requested", "answered", "confirmed"} => v[s.client].sent = TRUE
    BY <1>4, <2>1 DEF ServiceIsSound, AnswersSoundly, Attending
  <2>3. s.pc \in {"answered", "confirmed"} => AnswerIsDue(v, o, s)
    BY <1>5, <2>1 DEF ServiceIsSound, AnswersSoundly, Attending
  <2>4. ASSUME NEW c \in DOMAIN v, v[c].reply = o
        PROVE  /\ s.pc \in Leaving /\ s.client = c /\ s.inode # 0 /\ v[c].to = s.inode /\ v[c].sent = TRUE
               /\ CarrierIsOwn(o) /\ AnswerIsDue(v, o, s)
    <3>1. c \in DOMAIN w /\ w[c].reply = o
      BY <1>2, <2>4
    <3>2. /\ s.pc \in Leaving /\ s.client = c /\ s.inode # 0 /\ w[c].to = s.inode /\ w[c].sent = TRUE
          /\ CarrierIsOwn(o) /\ AnswerIsDue(w, o, s)
      BY <3>1 DEF ServiceIsSound, AnswersSoundly
    <3> QED BY <1>4, <1>5, <3>1, <3>2
  <2> QED BY <2>2, <2>3, <2>4 DEF ServiceIsSound, AnswersSoundly
<1>7. LeavesSoundly(new, v, o, s)
  <2>1. s.inode # 0 => s.inode \in DOMAIN tab
    BY DEF ServiceIsSound, HoldsItsOwn
  <2>2. s.pc = "unlinking" => s.inode # 0
    BY DEF ServiceIsSound, HoldsItsOwn, Leaving
  <2>3. s.ok = TRUE => \E c \in DOMAIN v : v[c].reply = o
    BY <1>3 DEF ServiceIsSound, LeavesSoundly
  <2>4. s.pc = "unlinking" => s.interrupted = FALSE /\ new[s.inode].listening = FALSE
    BY <2>1, <2>2 DEF ServiceIsSound, LeavesSoundly, SocketsGoOn
  <2>5. s.pc \in {"removed", "ended"} /\ s.inode # 0 /\ s.interrupted = FALSE =>
          new[s.inode].listening = FALSE /\ (new[s.inode].place = "path" => new[s.inode].moved = TRUE)
    BY <2>1 DEF ServiceIsSound, LeavesSoundly, SocketsGoOn
  <2> QED BY <2>3, <2>4, <2>5 DEF ServiceIsSound, LeavesSoundly
<1> QED BY <1>1, <1>6, <1>7 DEF ServiceIsSound

\* So does what a client relies on.
LEMMA ClientsStay ==
    ASSUME NEW tab, NEW w, NEW new, NEW v, NEW who, SocketsGoOn(tab, new), WiresGoOn(w, v, who),
           NEW c, c \in DOMAIN v => c \in DOMAIN w, NEW x, ClientIsSound(tab, w, c, x)
    PROVE  ClientIsSound(new, v, c, x)
<1>1. x.pc # "idle" => x.auth \in DOMAIN new /\ new[x.auth].by = tab[x.auth].by
  BY DEF ClientIsSound, SocketsGoOn
<1>2. x.pc = "received" => v[c].reply # None
  BY DEF ClientIsSound, WiresGoOn
<1>3. x.ok = TRUE => c \in DOMAIN v /\ v[c].reply = w[c].reply
  BY PeersAssumption DEF ClientIsSound, WiresGoOn
<1>4. c \in DOMAIN w => c \in DOMAIN v
  BY DEF WiresGoOn
<1> QED BY <1>1, <1>2, <1>3, <1>4 DEF ClientIsSound

\* Tables that stay as they are go on.
LEMMA NothingChanges ==
    ASSUME NEW tab, NEW w, NEW who
    PROVE  SocketsGoOn(tab, tab) /\ WiresGoOn(w, w, who)
BY DEF SocketsGoOn, WiresGoOn

\* An attempt takes a step.
LEMMA AttemptTakesStep ==
    ASSUME NativeSafety, NEW o \in ServiceOwners, NEW s, AttemptBecomes(o, s),
           SocketsGoOn(sockets, sockets'), WiresGoOn(wires, wires', {o}), DOMAIN wires' = DOMAIN wires,
           SocketsAreSound(sockets', wires'), WiresAreSound(sockets', wires'),
           ServiceIsSound(sockets', wires', o, s), UNCHANGED client,
           now' \in 0 .. Horizon, moves' \in 0 .. MaxMoves
    PROVE  NativeSafety'
<1>1. PICK T : service \in [ServiceOwners -> T]
  BY DEF NativeSafety
<1>2. service' \in [ServiceOwners -> T \cup {s}] /\ service'[o] = s /\ \A p \in ServiceOwners \ {o} : service'[p] = service[p]
  BY <1>1 DEF AttemptBecomes
<1>3. ASSUME NEW p \in ServiceOwners PROVE ServiceIsSound(sockets', wires', p, service'[p])
  <2>1. CASE p = o
    BY <1>2, <2>1
  <2>2. CASE p # o
    <3>1. ServiceIsSound(sockets, wires, p, service[p]) /\ p \in ServiceOwners \ {o}
      BY <2>2 DEF NativeSafety
    <3>2. ServiceIsSound(sockets', wires', p, service[p])
      BY <3>1, ServicesStay
    <3> QED BY <1>2, <3>1, <3>2
  <2> QED BY <2>1, <2>2
<1>4. ASSUME NEW c \in Clients PROVE ClientIsSound(sockets', wires', c, client'[c])
  <2>1. ClientIsSound(sockets, wires, c, client[c])
    BY DEF NativeSafety
  <2>2. ClientIsSound(sockets', wires', c, client[c])
    BY <2>1, ClientsStay
  <2> QED BY <2>2
<1>5. \E U : client' \in [Clients -> U]
  BY DEF NativeSafety
<1> QED BY <1>2, <1>3, <1>4, <1>5 DEF NativeSafety

\* ... and changes nothing but its own state.
LEMMA AttemptGoesOn ==
    ASSUME NativeSafety, NEW o \in ServiceOwners, NEW s, AttemptBecomes(o, s), ServiceIsSound(sockets, wires, o, s),
           UNCHANGED <<now, sockets, wires, client>>, moves' \in 0 .. MaxMoves
    PROVE  NativeSafety'
<1>1. SocketsGoOn(sockets, sockets') /\ WiresGoOn(wires, wires', {o})
  BY NothingChanges
<1>2. SocketsAreSound(sockets', wires') /\ WiresAreSound(sockets', wires')
  BY DEF NativeSafety
<1>3. ServiceIsSound(sockets', wires', o, s) /\ now' \in 0 .. Horizon
  BY DEF NativeSafety
<1> QED BY <1>1, <1>2, <1>3, AttemptTakesStep

\* A client takes a step.
LEMMA ClientTakesStep ==
    ASSUME NativeSafety, NEW c \in Clients, NEW x, ClientBecomes(c, x), UNCHANGED <<now, service>>,
           SocketsGoOn(sockets, sockets'), WiresGoOn(wires, wires', {}), DOMAIN wires' \subseteq DOMAIN wires \cup {c},
           SocketsAreSound(sockets', wires'), WiresAreSound(sockets', wires'),
           ClientIsSound(sockets', wires', c, x), moves' \in 0 .. MaxMoves
    PROVE  NativeSafety'
<1>1. PICK T : client \in [Clients -> T]
  BY DEF NativeSafety
<1>2. client' \in [Clients -> T \cup {x}] /\ client'[c] = x /\ \A d \in Clients \ {c} : client'[d] = client[d]
  BY <1>1 DEF ClientBecomes
<1>3. ASSUME NEW d \in Clients PROVE ClientIsSound(sockets', wires', d, client'[d])
  <2>1. CASE d = c
    BY <1>2, <2>1
  <2>2. CASE d # c
    <3>1. ClientIsSound(sockets, wires, d, client[d]) /\ (d \in DOMAIN wires' => d \in DOMAIN wires)
      BY <2>2 DEF NativeSafety
    <3>2. ClientIsSound(sockets', wires', d, client[d])
      BY <3>1, ClientsStay
    <3> QED BY <1>2, <2>2, <3>2
  <2> QED BY <2>1, <2>2
<1>4. ASSUME NEW p \in ServiceOwners PROVE ServiceIsSound(sockets', wires', p, service'[p])
  <2>1. ServiceIsSound(sockets, wires, p, service[p])
    BY DEF NativeSafety
  <2>2. ServiceIsSound(sockets', wires', p, service[p])
    BY <2>1, ServicesStay
  <2> QED BY <2>2
<1>5. (\E U : service' \in [ServiceOwners -> U]) /\ now' \in 0 .. Horizon
  BY DEF NativeSafety
<1> QED BY <1>2, <1>3, <1>4, <1>5 DEF NativeSafety

\* Another process acts, or the garbage collector.
LEMMA WorldTakesStep ==
    ASSUME NativeSafety, UNCHANGED <<now, service, wires, client>>, SocketsGoOn(sockets, sockets'),
           SocketsAreSound(sockets', wires), moves' \in 0 .. MaxMoves
    PROVE  NativeSafety'
<1>1. WiresGoOn(wires, wires, {})
  BY NothingChanges
<1>2. \A o \in ServiceOwners : ServiceIsSound(sockets', wires, o, service[o])
  BY <1>1, ServicesStay DEF NativeSafety
<1>3. \A c \in Clients : ClientIsSound(sockets', wires, c, client[c])
  BY <1>1, ClientsStay DEF NativeSafety
<1>4. WiresAreSound(sockets', wires)
  BY DEF NativeSafety, WiresAreSound, WireIsSound, SocketsGoOn
<1>5. /\ \A o \in ServiceOwners : ServiceIsSound(sockets', wires', o, service'[o])
      /\ \A c \in Clients : ClientIsSound(sockets', wires', c, client'[c])
      /\ WiresAreSound(sockets', wires') /\ SocketsAreSound(sockets', wires')
  BY <1>2, <1>3, <1>4
<1> QED BY <1>5 DEF NativeSafety

\* What NativeSafety says of one attempt.
LEMMA AttemptIsThere ==
    ASSUME NativeSafety, NEW o \in ServiceOwners
    PROVE  /\ ServiceIsSound(sockets, wires, o, service[o]) /\ (\E T : service[o] \in [ServiceFields -> T])
           /\ moves \in 0 .. MaxMoves /\ now \in 0 .. Horizon
BY DEF NativeSafety, ServiceIsSound

\* A disturbance is counted within its bound.
LEMMA Disturbances ==
    ASSUME NativeSafety, NEW kind, Disturbs(kind)
    PROVE  moves' \in 0 .. MaxMoves
BY PeersAssumption DEF NativeSafety, Disturbs

\* The stages, and which comes after which.
LEMMA StagesInOrder ==
    /\ Serving = {"created", "attested", "observed", "accepted", "identified", "requested", "answered", "confirmed"}
    /\ NextStage("created") = "attested" /\ NextStage("attested") = "observed" /\ NextStage("observed") = "accepted"
    /\ NextStage("accepted") = "identified" /\ NextStage("identified") = "requested" /\ NextStage("requested") = "answered"
    /\ NextStage("answered") = "confirmed" /\ NextStage("confirmed") = "closing"
<1>1. Serving = {"created", "attested", "observed", "accepted", "identified", "requested", "answered", "confirmed"}
  BY DEF Serving, Stages
<1>2. ASSUME NEW k \in 1 .. 8 PROVE (CHOOSE n \in 1 .. 8 : Stages[n] = Stages[k]) = k
  <2>1. \A n \in 1 .. 8 : Stages[n] = Stages[k] => n = k
    BY DEF Stages
  <2> QED BY <2>1
<1>3. \A k \in 1 .. 8 : NextStage(Stages[k]) = Stages[k + 1]
  BY <1>2 DEF NextStage
<1> QED BY <1>1, <1>3 DEF Stages

\* What an attempt must know when it reaches a stage.
Reaches(w, o, s, pc) ==
    /\ pc \in Attending => s.client \in DOMAIN w /\ w[s.client].to = s.inode
    /\ pc \in {"requested", "answered", "confirmed"} => w[s.client].sent = TRUE
    /\ pc \in {"identified", "requested", "answered", "confirmed"} /\ Kind(o) \in FrameKinds => s.client \in Authorized
    /\ pc \in {"answered", "confirmed"} => AnswerIsDue(w, o, s)

\* s differs from x in what the step learned.
Learns(x, s) ==
    /\ \E T : s \in [ServiceFields -> T]
    /\ s.inode = x.inode /\ s.ok = x.ok /\ s.interrupted = x.interrupted /\ s.aborted \in BOOLEAN

\* An attempt changes its stage only.
LEMMA StageChanges ==
    ASSUME NEW s, NEW pc, \E T : s \in [ServiceFields -> T], NEW y, y = [s EXCEPT !.pc = pc]
    PROVE  /\ \E T : y \in [ServiceFields -> T]
           /\ y.pc = pc /\ y.inode = s.inode /\ y.ok = s.ok /\ y.interrupted = s.interrupted /\ y.aborted = s.aborted
           /\ y.client = s.client /\ y.custody = s.custody /\ y.at = s.at /\ y.until = s.until
<1>1. PICK T : s \in [ServiceFields -> T]
  OBVIOUS
<1>2. y \in [ServiceFields -> T \cup {pc}]
  BY <1>1
<1>3. /\ y.pc = pc /\ y.inode = s.inode /\ y.ok = s.ok /\ y.interrupted = s.interrupted /\ y.aborted = s.aborted
      /\ y.client = s.client /\ y.custody = s.custody /\ y.at = s.at /\ y.until = s.until
  BY <1>1 DEF ServiceFields
<1> QED BY <1>2, <1>3

\* An attempt that serves has not answered.
IsSilent(tab, w, o, x) ==
    /\ x.ok = FALSE /\ x.interrupted = FALSE /\ x.inode # 0 /\ CarrierIsOwn(o) /\ x.inode \in DOMAIN tab /\ tab[x.inode].by = o
    /\ \A c \in DOMAIN w : w[c].reply # o

\* ... because a connection with its answer, or success, is of one that leaves.
LEMMA ServingIsSilent ==
    ASSUME NEW tab, NEW w, NEW o, NEW x, ServiceIsSound(tab, w, o, x), x.pc \in Serving
    PROVE  IsSilent(tab, w, o, x)
<1>1. x.pc \notin Leaving /\ x.pc \notin {"idle", "asking", "ended"}
  BY StagesInOrder DEF Leaving
<1>2. x.ok # TRUE /\ \A c \in DOMAIN w : w[c].reply # o
  BY <1>1 DEF ServiceIsSound, AnswersSoundly, LeavesSoundly
<1> QED BY <1>1, <1>2 DEF IsSilent, ServiceIsSound, HoldsItsOwn

\* From every stage it may go on with closing.
LEMMA ClosingIsSound ==
    ASSUME NEW tab, NEW w, NEW o, NEW x, ServiceIsSound(tab, w, o, x), x.pc \in Serving, NEW y,
           \E T : y \in [ServiceFields -> T], y.pc = "closing", y.inode = x.inode, y.ok = x.ok,
           y.interrupted \in BOOLEAN, y.aborted \in BOOLEAN
    PROVE  ServiceIsSound(tab, w, o, y)
<1>0. IsSilent(tab, w, o, x)
  BY ServingIsSilent
<1>1. /\ x.ok = FALSE /\ x.interrupted = FALSE /\ x.inode # 0 /\ CarrierIsOwn(o) /\ x.inode \in DOMAIN tab /\ tab[x.inode].by = o
      /\ \A c \in DOMAIN w : w[c].reply # o
  BY <1>0 DEF IsSilent
<1>2. y.pc \in Leaving /\ y.pc \notin Beginning /\ y.pc \notin Attending /\ y.ok \in BOOLEAN /\ y.ok # TRUE
  BY <1>1 DEF Leaving, Beginning, Attending
<1>3. HoldsItsOwn(tab, w, o, y)
  BY <1>1, <1>2 DEF HoldsItsOwn
<1>4. AnswersSoundly(w, o, y)
  BY <1>1 DEF AnswersSoundly
<1>5. LeavesSoundly(tab, w, o, y)
  BY <1>2 DEF LeavesSoundly
<1> QED BY <1>2, <1>3, <1>4, <1>5 DEF ServiceIsSound

\* It may go on to a stage whose checks have been made.
LEMMA NextStageIsSound ==
    ASSUME NEW tab, NEW w, NEW o, NEW x, ServiceIsSound(tab, w, o, x), x.pc \in Serving, NEW y,
           \E T : y \in [ServiceFields -> T], y.pc \in Serving, y.inode = x.inode, y.ok = x.ok,
           y.interrupted = x.interrupted, y.aborted \in BOOLEAN, Reaches(w, o, y, y.pc)
    PROVE  ServiceIsSound(tab, w, o, y)
<1>0. IsSilent(tab, w, o, x)
  BY ServingIsSilent
<1>1. /\ x.ok = FALSE /\ x.interrupted = FALSE /\ x.inode # 0 /\ CarrierIsOwn(o) /\ x.inode \in DOMAIN tab /\ tab[x.inode].by = o
      /\ \A c \in DOMAIN w : w[c].reply # o
  BY <1>0 DEF IsSilent
<1>2. y.pc \notin Leaving /\ y.pc \notin Beginning /\ y.ok \in BOOLEAN /\ y.ok # TRUE
  BY <1>1, StagesInOrder DEF Leaving, Beginning
<1>3. HoldsItsOwn(tab, w, o, y)
  BY <1>1, <1>2 DEF HoldsItsOwn, Reaches
<1>4. AnswersSoundly(w, o, y)
  BY <1>1 DEF AnswersSoundly, Reaches
<1>5. LeavesSoundly(tab, w, o, y)
  BY <1>2 DEF LeavesSoundly, Leaving
<1> QED BY <1>2, <1>3, <1>4, <1>5 DEF ServiceIsSound

\* A step of an attempt that serves: on to another stage, or to closing.
LEMMA StageIsSound ==
    ASSUME NEW tab, NEW w, NEW o, NEW x, ServiceIsSound(tab, w, o, x), x.pc \in Serving, NEW s, Learns(x, s),
           NEW pc, pc = "closing" \/ (pc \in Serving /\ Reaches(w, o, s, pc)), NEW y, y = [s EXCEPT !.pc = pc]
    PROVE  ServiceIsSound(tab, w, o, y)
<1>1. /\ \E T : y \in [ServiceFields -> T]
      /\ y.pc = pc /\ y.inode = s.inode /\ y.ok = s.ok /\ y.interrupted = s.interrupted /\ y.aborted = s.aborted
      /\ y.client = s.client /\ y.custody = s.custody
  BY StageChanges DEF Learns
<1>2. /\ y.inode = x.inode /\ y.ok = x.ok /\ y.interrupted = x.interrupted
      /\ y.interrupted \in BOOLEAN /\ y.aborted \in BOOLEAN
  BY <1>1 DEF Learns, ServiceIsSound
<1>3. CASE pc = "closing"
  BY <1>1, <1>2, <1>3, ClosingIsSound
<1>4. CASE pc \in Serving /\ Reaches(w, o, s, pc)
  <2>1. Reaches(w, o, y, y.pc) /\ y.pc \in Serving
    BY <1>1, <1>4 DEF Reaches, AnswerIsDue
  <2> QED BY <1>1, <1>2, <2>1, NextStageIsSound
<1> QED BY <1>3, <1>4

\* The same when nothing else changes.
LEMMA StageIsSafe ==
    ASSUME NativeSafety, NEW o \in ServiceOwners, service[o].pc \in Serving, NEW s, Learns(service[o], s),
           NEW pc, pc = "closing" \/ (pc \in Serving /\ Reaches(wires, o, s, pc)),
           AttemptBecomes(o, [s EXCEPT !.pc = pc]), UNCHANGED <<now, sockets, wires, client>>, moves' \in 0 .. MaxMoves
    PROVE  NativeSafety'
<1>1. ServiceIsSound(sockets, wires, o, service[o])
  BY AttemptIsThere
<1>2. PICK y : y = [s EXCEPT !.pc = pc]
  OBVIOUS
<1>3. ServiceIsSound(sockets, wires, o, y)
  BY <1>1, <1>2, StageIsSound
<1> QED BY <1>2, <1>3, AttemptGoesOn

\* An attempt that learns nothing new, or something of its client or its custody.
LEMMA Learning ==
    ASSUME NativeSafety, NEW o \in ServiceOwners, NEW v
    PROVE  /\ Learns(service[o], service[o])
           /\ Learns(service[o], [service[o] EXCEPT !.custody = v]) /\ [service[o] EXCEPT !.custody = v].custody = v
           /\ [service[o] EXCEPT !.custody = v].client = service[o].client
           /\ Learns(service[o], [service[o] EXCEPT !.before = v])
           /\ Learns(service[o], [service[o] EXCEPT !.client = v]) /\ [service[o] EXCEPT !.client = v].client = v
<1>1. PICK x : x = service[o]
  OBVIOUS
<1>2. PICK T : x \in [ServiceFields -> T]
  BY <1>1, AttemptIsThere
<1>3. x.interrupted \in BOOLEAN /\ x.aborted \in BOOLEAN
  BY <1>1 DEF NativeSafety, ServiceIsSound
<1>4. Learns(x, x)
  BY <1>2, <1>3 DEF Learns
<1>5. ASSUME NEW f \in {"custody", "before", "client"}, NEW y, y = [x EXCEPT ![f] = v]
      PROVE  Learns(x, y) /\ y[f] = v /\ \A h \in ServiceFields \ {f} : y[h] = x[h]
  <2>1. y \in [ServiceFields -> T \cup {v}] /\ f \in ServiceFields
    BY <1>2, <1>5 DEF ServiceFields
  <2>2. y[f] = v /\ \A h \in ServiceFields \ {f} : y[h] = x[h]
    BY <1>2, <1>5, <2>1
  <2>3. y.pc = x.pc /\ y.inode = x.inode /\ y.ok = x.ok /\ y.interrupted = x.interrupted /\ y.aborted = x.aborted
    BY <2>2 DEF ServiceFields
  <2> QED BY <1>3, <2>1, <2>2, <2>3 DEF Learns
<1>6. /\ Learns(x, [x EXCEPT !.custody = v]) /\ [x EXCEPT !.custody = v].custody = v
      /\ [x EXCEPT !.custody = v].client = x.client
  BY <1>5 DEF ServiceFields
<1>7. Learns(x, [x EXCEPT !.before = v])
  BY <1>5
<1>8. Learns(x, [x EXCEPT !.client = v]) /\ [x EXCEPT !.client = v].client = v
  BY <1>5
<1> QED BY <1>1, <1>4, <1>6, <1>7, <1>8

(***************************************************************************)
(* The steps of an attempt.                                                *)
(***************************************************************************)

\* Before it has a socket.
LEMMA OpeningIsSound ==
    ASSUME NEW tab, NEW w, NEW o, NEW x, ServiceIsSound(tab, w, o, x), x.pc \in Beginning, NEW y,
           \E T : y \in [ServiceFields -> T], y.pc \in {"asking", "granted", "ended"}, y.pc = "granted" => CarrierIsOwn(o),
           y.inode = x.inode, y.ok = x.ok, y.interrupted = x.interrupted, y.aborted \in BOOLEAN
    PROVE  ServiceIsSound(tab, w, o, y)
<1>1. x.pc \notin Leaving /\ y.inode = 0 /\ y.interrupted = FALSE
  BY DEF Leaving, Beginning, ServiceIsSound, HoldsItsOwn
<1>2. y.ok \in BOOLEAN /\ y.ok # TRUE /\ \A c \in DOMAIN w : w[c].reply # o
  BY <1>1 DEF ServiceIsSound, AnswersSoundly, LeavesSoundly
<1>3. y.pc \notin Attending /\ y.pc \notin Serving /\ y.pc \notin Leaving \ {"ended"} /\ y.pc \in Beginning \cup Leaving
  BY StagesInOrder DEF Attending, Leaving, Beginning
<1>4. HoldsItsOwn(tab, w, o, y)
  BY <1>1, <1>3 DEF HoldsItsOwn, Attending
<1>5. AnswersSoundly(w, o, y)
  BY <1>2, <1>3 DEF AnswersSoundly
<1>6. LeavesSoundly(tab, w, o, y)
  BY <1>1, <1>2 DEF LeavesSoundly
<1> QED BY <1>2, <1>3, <1>4, <1>5, <1>6 DEF ServiceIsSound

\* runRecoveryOne and the other calls that use an owner up.
LEMMA CalledIsSafe ==
    ASSUME NativeSafety, NEW o \in ServiceOwners, NEW kinds, Called(o, kinds), UNCHANGED client
    PROVE  NativeSafety'
<1>1. PICK pc : pc \in {"asking", "ended"} /\ AttemptBecomes(o, [service[o] EXCEPT !.pc = pc])
  BY DEF Called, Of
<1>2. PICK y : y = [service[o] EXCEPT !.pc = pc]
  OBVIOUS
<1>3. ServiceIsSound(sockets, wires, o, service[o]) /\ (\E T : service[o] \in [ServiceFields -> T]) /\ moves \in 0 .. MaxMoves
  BY AttemptIsThere
<1>4. /\ \E T : y \in [ServiceFields -> T]
      /\ y.pc = pc /\ y.inode = service[o].inode /\ y.ok = service[o].ok
      /\ y.interrupted = service[o].interrupted /\ y.aborted = service[o].aborted
  BY <1>2, <1>3, StageChanges
<1>5. service[o].pc \in Beginning /\ service[o].interrupted \in BOOLEAN /\ service[o].aborted \in BOOLEAN
  BY <1>3 DEF Called, Of, Beginning, ServiceIsSound
<1>6. y.pc \in {"asking", "granted", "ended"} /\ y.pc # "granted" /\ y.interrupted \in BOOLEAN /\ y.aborted \in BOOLEAN
  BY <1>1, <1>4, <1>5
<1>7. ServiceIsSound(sockets, wires, o, y)
  BY <1>3, <1>4, <1>5, <1>6, OpeningIsSound
<1> QED BY <1>1, <1>2, <1>3, <1>7, AttemptGoesOn DEF Called

\* authorizeOne: a grant is for the instance of its carrier.
LEMMA GrantIsSafe ==
    ASSUME NativeSafety, NEW o \in ServiceOwners, NEW g, authorizeOne(o, g), UNCHANGED client
    PROVE  NativeSafety'
<1>1. PICK pc : /\ pc \in {"granted", "ended"} /\ (pc = "granted" => CarrierMatches(o, g) /\ g.request = Asked[o])
                /\ AttemptBecomes(o, [service[o] EXCEPT !.pc = pc, !.until = g.until])
  BY DEF authorizeOne, Of, GrantHolds, sameRequest
<1>2. PICK y : y = [service[o] EXCEPT !.pc = pc, !.until = g.until]
  OBVIOUS
<1>3. ServiceIsSound(sockets, wires, o, service[o]) /\ (\E T : service[o] \in [ServiceFields -> T]) /\ moves \in 0 .. MaxMoves
  BY AttemptIsThere
<1>4. PICK T : service[o] \in [ServiceFields -> T]
  BY <1>3
<1>5. y \in [ServiceFields -> T \cup {pc, g.until}]
  BY <1>2, <1>4
<1>6. /\ y.pc = pc /\ y.inode = service[o].inode /\ y.ok = service[o].ok
      /\ y.interrupted = service[o].interrupted /\ y.aborted = service[o].aborted
  BY <1>2, <1>4 DEF ServiceFields
<1>7. service[o].pc \in Beginning /\ service[o].interrupted \in BOOLEAN /\ service[o].aborted \in BOOLEAN
  BY <1>3 DEF authorizeOne, Of, Beginning, ServiceIsSound
<1>8. y.pc = "granted" => CarrierIsOwn(o)
  BY <1>1, <1>6 DEF CarrierIsOwn, CarrierMatches
<1>9. /\ y.pc \in {"asking", "granted", "ended"} /\ y.interrupted \in BOOLEAN /\ y.aborted \in BOOLEAN
      /\ \E U : y \in [ServiceFields -> U]
  BY <1>1, <1>5, <1>6, <1>7
<1>10. ServiceIsSound(sockets, wires, o, y)
  BY <1>3, <1>6, <1>7, <1>8, <1>9, OpeningIsSound
<1> QED BY <1>1, <1>2, <1>3, <1>10, AttemptGoesOn DEF authorizeOne

\* A socket is bound where there is none.
LEMMA BindingIsSound ==
    ASSUME NEW w, SocketsAreSound(sockets, w), lstat = {}, NEW by \in ServiceOwners \cup {"foreign"}, NEW new, new = NewSocket(by)
    PROVE  /\ SocketsAreSound(new, w) /\ SocketsGoOn(sockets, new)
           /\ Len(sockets) + 1 \in DOMAIN new /\ Len(sockets) + 1 # 0 /\ new[Len(sockets) + 1].by = by
<1>1. PICK S : sockets \in Seq(S)
  BY DEF SocketsAreSound
<1>2. PICK x : x = [by |-> by, listening |-> TRUE, backlog |-> <<>>, place |-> "path", moved |-> FALSE]
  OBVIOUS
<1>3. PICK n : n = Len(sockets)
  OBVIOUS
<1>4. n \in Nat /\ DOMAIN sockets = 1 .. n
  BY <1>1, <1>3
<1>5. new = Append(sockets, x)
  BY <1>2 DEF NewSocket
<1>6. /\ new \in Seq(S \cup {x}) /\ DOMAIN new = 1 .. n + 1 /\ new[n + 1] = x
      /\ \A i \in 1 .. n : new[i] = sockets[i]
  BY <1>1, <1>3, <1>5
<1>7. SocketIsSound(w, n + 1, x)
  <2>1. x \in [SocketFields -> {x[f] : f \in SocketFields}]
    <3>1. DOMAIN x = SocketFields /\ x = [f \in DOMAIN x |-> x[f]]
      BY <1>2 DEF SocketFields
    <3> QED BY <3>1, Zenon
  <2>2. x.by = by /\ x.place = "path" /\ x.backlog = <<>>
    BY <1>2
  <2>3. x.backlog \in [1 .. 0 -> Clients] /\ DOMAIN x.backlog = {}
    BY <2>2
  <2> QED BY <2>1, <2>2, <2>3 DEF SocketIsSound
<1>8. \A i \in 1 .. n : sockets[i].place # "path" /\ SocketIsSound(w, i, sockets[i])
  BY <1>4 DEF lstat, Inodes, SocketsAreSound
<1>9. \A i \in DOMAIN new : SocketIsSound(w, i, new[i])
  BY <1>4, <1>6, <1>7, <1>8
<1>10. OneAtPath(new)
  BY <1>4, <1>6, <1>8 DEF OneAtPath
<1>11. SocketsGoOn(sockets, new)
  BY <1>4, <1>6 DEF SocketsGoOn
<1>12. x.by = by /\ n + 1 \in 1 .. n + 1 /\ n + 1 # 0
  BY <1>2, <1>4
<1> QED BY <1>3, <1>6, <1>9, <1>10, <1>11, <1>12 DEF SocketsAreSound

\* createOwnedListener: a socket of its own, where there was none.
LEMMA CreationIsSafe ==
    ASSUME NativeSafety, NEW o \in ServiceOwners, createOwnedListener(o), UNCHANGED client
    PROVE  NativeSafety'
<1>1. ServiceIsSound(sockets, wires, o, service[o]) /\ (\E T : service[o] \in [ServiceFields -> T])
      /\ moves \in 0 .. MaxMoves /\ now \in 0 .. Horizon
  BY AttemptIsThere
<1>2. /\ service[o].pc = "granted" /\ service[o].pc \in Beginning /\ service[o].interrupted \in BOOLEAN /\ service[o].aborted \in BOOLEAN
      /\ service[o].pc \notin Leaving
  BY <1>1 DEF createOwnedListener, Of, Beginning, Leaving, ServiceIsSound
<1>3. CASE AttemptBecomes(o, [service[o] EXCEPT !.pc = "ended"]) /\ UNCHANGED sockets
  <2>1. PICK y : y = [service[o] EXCEPT !.pc = "ended"]
    OBVIOUS
  <2>2. /\ \E T : y \in [ServiceFields -> T]
        /\ y.pc = "ended" /\ y.inode = service[o].inode /\ y.ok = service[o].ok
        /\ y.interrupted = service[o].interrupted /\ y.aborted = service[o].aborted
    BY <2>1, <1>1, StageChanges
  <2>3. y.pc \in {"asking", "granted", "ended"} /\ y.pc # "granted" /\ y.interrupted \in BOOLEAN /\ y.aborted \in BOOLEAN
    BY <1>2, <2>2
  <2>4. ServiceIsSound(sockets, wires, o, y)
    BY <1>1, <1>2, <2>2, <2>3, OpeningIsSound
  <2> QED BY <1>1, <1>3, <2>1, <2>4, AttemptGoesOn DEF createOwnedListener
<1>4. CASE ~(AttemptBecomes(o, [service[o] EXCEPT !.pc = "ended"]) /\ UNCHANGED sockets)
  <2>1. PICK d : /\ lstat = {} /\ sockets' = NewSocket(o)
                 /\ AttemptBecomes(o, [service[o] EXCEPT !.pc = "created", !.inode = Len(sockets) + 1, !.deadline = d])
    BY <1>4 DEF createOwnedListener, Of
  <2>2. PICK m : m = Len(sockets) + 1
    OBVIOUS
  <2>3. PICK y : y = [service[o] EXCEPT !.pc = "created", !.inode = m, !.deadline = d]
    OBVIOUS
  <2>4. PICK T : service[o] \in [ServiceFields -> T]
    BY <1>1
  <2>5. y \in [ServiceFields -> T \cup {"created", m, d}]
    BY <2>3, <2>4
  <2>6. /\ y.pc = "created" /\ y.inode = m /\ y.ok = service[o].ok
        /\ y.interrupted = service[o].interrupted /\ y.aborted = service[o].aborted
    BY <2>3, <2>4 DEF ServiceFields
  <2>7. /\ SocketsAreSound(sockets', wires) /\ SocketsGoOn(sockets, sockets')
        /\ m \in DOMAIN sockets' /\ m # 0 /\ sockets'[m].by = o
    BY <2>1, <2>2, BindingIsSound DEF NativeSafety
  <2>8. CarrierIsOwn(o) /\ y.ok \in BOOLEAN /\ y.ok # TRUE /\ y.interrupted = FALSE /\ \A c \in DOMAIN wires : wires[c].reply # o
    BY <1>1, <1>2, <2>6 DEF ServiceIsSound, HoldsItsOwn, AnswersSoundly, LeavesSoundly
  <2>9. y.pc \in Serving /\ y.pc \notin Beginning /\ y.pc \notin Attending /\ y.pc \notin Leaving
    BY <2>6, StagesInOrder DEF Beginning, Attending, Leaving
  <2>10. HoldsItsOwn(sockets', wires, o, y)
    BY <2>6, <2>7, <2>8, <2>9 DEF HoldsItsOwn
  <2>11. AnswersSoundly(wires, o, y) /\ LeavesSoundly(sockets', wires, o, y)
    BY <2>6, <2>8 DEF AnswersSoundly, LeavesSoundly
  <2>12. ServiceIsSound(sockets', wires, o, y)
    BY <1>2, <2>5, <2>6, <2>8, <2>9, <2>10, <2>11 DEF ServiceIsSound
  <2>13. UNCHANGED <<now, moves, wires>> /\ AttemptBecomes(o, y)
    BY <2>1, <2>2, <2>3 DEF createOwnedListener
  <2>14. WiresGoOn(wires, wires', {o})
    BY <2>13, NothingChanges
  <2>15. WiresAreSound(sockets', wires)
    BY <2>7 DEF NativeSafety, WiresAreSound, WireIsSound, SocketsGoOn
  <2>16. /\ SocketsAreSound(sockets', wires') /\ WiresAreSound(sockets', wires') /\ ServiceIsSound(sockets', wires', o, y)
         /\ DOMAIN wires' = DOMAIN wires /\ now' \in 0 .. Horizon /\ moves' \in 0 .. MaxMoves
    BY <1>1, <2>7, <2>12, <2>13, <2>15
  <2> QED BY <2>7, <2>13, <2>14, <2>16, AttemptTakesStep
<1> QED BY <1>3, <1>4

\* What a step that ends in After makes of an attempt.
LEMMA AfterIsStage ==
    ASSUME NEW o, NEW s, NEW holds, AttemptBecomes(o, After(o, holds, s))
    PROVE  \E pc : /\ AttemptBecomes(o, [s EXCEPT !.pc = pc])
                   /\ pc = "closing" \/ (holds /\ pc = NextStage(service[o].pc) /\ ~service[o].aborted)
BY DEF After, Of

\* attest opens the custody of a signing service.
LEMMA AttestIsSafe ==
    ASSUME NativeSafety, NEW o \in ServiceOwners, attest(o), UNCHANGED client
    PROVE  NativeSafety'
<1>1. PICK s : s = [service[o] EXCEPT !.custody = OpenCustody(o)] /\ AttemptBecomes(o, After(o, AuthorizedCreation(o), s))
  BY DEF attest, Of
<1>2. PICK pc : AttemptBecomes(o, [s EXCEPT !.pc = pc]) /\ (pc = "closing" \/ pc = NextStage(service[o].pc))
  BY <1>1, AfterIsStage
<1>3. Learns(service[o], s)
  BY <1>1, Learning
<1>4. service[o].pc \in Serving /\ (pc # "closing" => pc = "attested" /\ pc \in Serving) /\ moves' \in 0 .. MaxMoves
  BY <1>2, AttemptIsThere, StagesInOrder DEF attest, Of
<1>5. pc # "closing" => Reaches(wires, o, s, pc)
  BY <1>4 DEF Reaches, Attending
<1> QED BY <1>2, <1>3, <1>4, <1>5, StageIsSafe DEF attest

\* refuseCustody goes on with closing.
LEMMA RefusalIsSafe ==
    ASSUME NativeSafety, NEW o \in ServiceOwners, NEW closes, refuseCustody(o, closes), UNCHANGED client
    PROVE  NativeSafety'
<1>1. PICK v : v = CloseResult(closes)
  OBVIOUS
<1>2. AttemptBecomes(o, [service[o] EXCEPT !.pc = "closing", !.custody = v])
  BY <1>1 DEF refuseCustody, Of
<1>3. PICK s : s = [service[o] EXCEPT !.custody = v]
  OBVIOUS
<1>4. Learns(service[o], s)
  BY <1>3, Learning
<1>5. [service[o] EXCEPT !.pc = "closing", !.custody = v] = [s EXCEPT !.pc = "closing"]
  <2>1. PICK x : x = service[o]
    OBVIOUS
  <2>2. PICK T : x \in [ServiceFields -> T]
    BY <2>1, AttemptIsThere
  <2>3. [x EXCEPT !.pc = "closing", !.custody = v] = [[x EXCEPT !.custody = v] EXCEPT !.pc = "closing"]
    BY <2>2
  <2> QED BY <1>3, <2>1, <2>3
<1>6. service[o].pc \in Serving /\ moves' \in 0 .. MaxMoves
  BY StagesInOrder, Disturbances DEF refuseCustody, Of
<1> QED BY <1>2, <1>4, <1>5, <1>6, StageIsSafe DEF refuseCustody

\* observe keeps what lstat found.
LEMMA ObserveIsSafe ==
    ASSUME NativeSafety, NEW o \in ServiceOwners, observe(o), UNCHANGED client
    PROVE  NativeSafety'
<1>1. PICK s : s = [service[o] EXCEPT !.before = lstat] /\ AttemptBecomes(o, After(o, lstat # {} /\ AdmitsEndpoint(o), s))
  BY DEF observe, Of
<1>2. PICK pc : AttemptBecomes(o, [s EXCEPT !.pc = pc]) /\ (pc = "closing" \/ pc = NextStage(service[o].pc))
  BY <1>1, AfterIsStage
<1>3. Learns(service[o], s)
  BY <1>1, Learning
<1>4. service[o].pc \in Serving /\ (pc # "closing" => pc = "observed" /\ pc \in Serving) /\ moves' \in 0 .. MaxMoves
  BY <1>2, AttemptIsThere, StagesInOrder DEF observe, Of
<1>5. pc # "closing" => Reaches(wires, o, s, pc)
  BY <1>4 DEF Reaches, Attending
<1> QED BY <1>2, <1>3, <1>4, <1>5, StageIsSafe DEF observe

\* identify: the peer of a frame session is authorized.
LEMMA IdentifyIsSafe ==
    ASSUME NativeSafety, NEW o \in ServiceOwners, identify(o), UNCHANGED client
    PROVE  NativeSafety'
<1>1. AttemptBecomes(o, After(o, lstat = Of(o).before /\ AdmitsPeer(o), service[o]))
  BY DEF identify, Of
<1>2. PICK pc : /\ AttemptBecomes(o, [service[o] EXCEPT !.pc = pc])
                /\ (pc = "closing" \/ (AdmitsPeer(o) /\ pc = NextStage(service[o].pc)))
  BY <1>1, AfterIsStage
<1>3. Learns(service[o], service[o])
  BY Learning
<1>4. service[o].pc \in Serving /\ (pc # "closing" => pc = "identified" /\ pc \in Serving) /\ moves' \in 0 .. MaxMoves
  BY <1>2, AttemptIsThere, StagesInOrder DEF identify, Of
<1>5. service[o].client \in DOMAIN wires /\ wires[service[o].client].to = service[o].inode
  BY AttemptIsThere DEF identify, Of, ServiceIsSound, HoldsItsOwn, Attending
<1>6. pc # "closing" => Reaches(wires, o, service[o], pc)
  BY <1>2, <1>4, <1>5 DEF Reaches, AdmitsPeer, Of
<1> QED BY <1>2, <1>3, <1>4, <1>6, StageIsSafe DEF identify

\* read: the client has sent its request.
LEMMA ReadIsSafe ==
    ASSUME NativeSafety, NEW o \in ServiceOwners, read(o), UNCHANGED client
    PROVE  NativeSafety'
<1>1. AttemptBecomes(o, After(o, wires[service[o].client].sent, service[o]))
  BY DEF read, Of
<1>2. PICK pc : /\ AttemptBecomes(o, [service[o] EXCEPT !.pc = pc])
                /\ (pc = "closing" \/ (wires[service[o].client].sent = TRUE /\ pc = NextStage(service[o].pc)))
  BY <1>1 DEF After, Of
<1>3. Learns(service[o], service[o])
  BY Learning
<1>4. service[o].pc \in Serving /\ (pc # "closing" => pc = "requested" /\ pc \in Serving) /\ moves' \in 0 .. MaxMoves
  BY <1>2, AttemptIsThere, StagesInOrder DEF read, Of
<1>5. /\ service[o].client \in DOMAIN wires /\ wires[service[o].client].to = service[o].inode
      /\ Kind(o) \in FrameKinds => service[o].client \in Authorized
  BY AttemptIsThere DEF read, Of, ServiceIsSound, HoldsItsOwn, AnswersSoundly, Attending
<1>6. pc # "closing" => Reaches(wires, o, service[o], pc)
  BY <1>2, <1>4, <1>5 DEF Reaches
<1> QED BY <1>2, <1>3, <1>4, <1>6, StageIsSafe DEF read

\* interruptible leaves a native call behind, and is the only step that does.
LEMMA InterruptionIsSafe ==
    ASSUME NativeSafety, NEW o \in ServiceOwners, interruptible(o), UNCHANGED client
    PROVE  NativeSafety'
<1>1. PICK x : x = service[o]
  OBVIOUS
<1>2. PICK T : x \in [ServiceFields -> T]
  BY <1>1, AttemptIsThere
<1>3. PICK y : y = [x EXCEPT !.pc = "closing", !.interrupted = TRUE]
  OBVIOUS
<1>4. /\ y \in [ServiceFields -> T \cup {TRUE, "closing"}]
      /\ y.pc = "closing" /\ y.inode = x.inode /\ y.ok = x.ok /\ y.interrupted = TRUE /\ y.aborted = x.aborted
  BY <1>2, <1>3 DEF ServiceFields
<1>5. ServiceIsSound(sockets, wires, o, x) /\ x.pc \in Serving /\ x.aborted \in BOOLEAN
  BY <1>1, StagesInOrder, AttemptIsThere DEF interruptible, Of, ServiceIsSound
<1>6. (\E U : y \in [ServiceFields -> U]) /\ y.interrupted \in BOOLEAN /\ y.aborted \in BOOLEAN
  BY <1>4, <1>5
<1>7. ServiceIsSound(sockets, wires, o, y)
  BY <1>4, <1>5, <1>6, ClosingIsSound
<1>8. AttemptBecomes(o, y) /\ moves' \in 0 .. MaxMoves
  BY <1>1, <1>3, AttemptIsThere DEF interruptible, Of
<1> QED BY <1>7, <1>8, AttemptGoesOn DEF interruptible

\* operationFails goes on with closing.
LEMMA FailureIsSafe ==
    ASSUME NativeSafety, NEW o \in ServiceOwners, operationFails(o), UNCHANGED client
    PROVE  NativeSafety'
<1>1. service[o].pc \in Serving /\ moves' \in 0 .. MaxMoves /\ AttemptBecomes(o, [service[o] EXCEPT !.pc = "closing"])
  BY Disturbances DEF operationFails, Of
<1>2. Learns(service[o], service[o])
  BY Learning
<1> QED BY <1>1, <1>2, StageIsSafe DEF operationFails

\* confirm: the answer is still due.
LEMMA ConfirmIsSafe ==
    ASSUME NativeSafety, NEW o \in ServiceOwners, confirm(o), UNCHANGED client
    PROVE  NativeSafety'
<1>1. AttemptBecomes(o, After(o, lstat = Of(o).before \/ Kind(o) \in FrameKinds, service[o]))
  BY DEF confirm, Of
<1>2. PICK pc : /\ AttemptBecomes(o, [service[o] EXCEPT !.pc = pc])
                /\ (pc = "closing" \/ pc = NextStage(service[o].pc))
  BY <1>1, AfterIsStage
<1>3. Learns(service[o], service[o])
  BY Learning
<1>4. service[o].pc \in Serving /\ (pc # "closing" => pc = "confirmed" /\ pc \in Serving) /\ moves' \in 0 .. MaxMoves
  BY <1>2, AttemptIsThere, StagesInOrder DEF confirm, Of
<1>5. service[o].pc = "answered" /\ Reaches(wires, o, service[o], "confirmed")
  BY AttemptIsThere DEF confirm, Of, ServiceIsSound, HoldsItsOwn, AnswersSoundly, Attending, Reaches
<1> QED BY <1>2, <1>3, <1>4, <1>5, StageIsSafe DEF confirm

\* The handler answers those it may answer.
LEMMA AnswersWhom ==
    ASSUME NEW o, Answers(o)
    PROVE  /\ Kind(o) \notin FrameKinds => service[o].client \in Authorized
           /\ Kind(o) \in ObservationKinds => wires[service[o].client].asks = Asked[o].instance
<1>1. CASE Kind(o) = "RECOVERY"
  <2>1. ~IsSigning(o) /\ Kind(o) \notin ObservationKinds /\ Kind(o) \notin FrameKinds
    BY <1>1 DEF IsSigning, ObservationKinds, FrameKinds
  <2>2. RecoveryAnswers(o)
    BY <1>1, <2>1 DEF Answers
  <2> QED BY <2>1, <2>2 DEF RecoveryAnswers, AuthenticInbound, Of
<1>2. CASE Kind(o) = "MODULE_AUTHORIZATION_SIGNING"
  BY <1>2 DEF Answers, IsSigning, SigningAnswers, AuthenticInbound, Of, ObservationKinds
<1>3. CASE Kind(o) \in ObservationKinds
  <2>1. Kind(o) # "RECOVERY" /\ ~IsSigning(o)
    BY <1>3 DEF ObservationKinds, IsSigning
  <2>2. ObservationAnswers(o)
    BY <1>3, <2>1 DEF Answers, ObservationKinds, FrameKinds
  <2> QED BY <2>2 DEF ObservationAnswers, AuthenticInbound, ScopedObserver, Of
<1>4. CASE Kind(o) \in FrameKinds
  BY <1>4 DEF FrameKinds, ObservationKinds
<1>5. CASE Kind(o) # "RECOVERY" /\ Kind(o) # "MODULE_AUTHORIZATION_SIGNING" /\ Kind(o) \notin ObservationKinds /\ Kind(o) \notin FrameKinds
  <2>1. RootLookupAnswers(o)
    BY <1>5 DEF Answers, IsSigning
  <2> QED BY <1>5, <2>1 DEF RootLookupAnswers, AuthenticInbound, Of
<1> QED BY <1>1, <1>2, <1>3, <1>4, <1>5

\* handle: an answer is due to an authorized client, and its custody is closed.
LEMMA HandleIsSafe ==
    ASSUME NativeSafety, NEW o \in ServiceOwners, NEW closes \in BOOLEAN, handle(o, closes), UNCHANGED client
    PROVE  NativeSafety'
<1>1. PICK v : v = (IF IsSigning(o) THEN CloseResult(closes) ELSE None)
  OBVIOUS
<1>2. PICK s : s = [service[o] EXCEPT !.custody = v]
  OBVIOUS
<1>3. AttemptBecomes(o, After(o, closes /\ Answers(o), s))
  BY <1>1, <1>2 DEF handle, Of
<1>4. PICK pc : AttemptBecomes(o, [s EXCEPT !.pc = pc]) /\ (pc = "closing" \/ (closes /\ Answers(o) /\ pc = NextStage(service[o].pc)))
  BY <1>3, AfterIsStage
<1>5. Learns(service[o], s) /\ s.custody = v /\ s.client = service[o].client
  BY <1>2, Learning
<1>6. service[o].pc \in Serving /\ (pc # "closing" => pc = "answered" /\ pc \in Serving) /\ moves' \in 0 .. MaxMoves
  BY <1>4, AttemptIsThere, StagesInOrder DEF handle, Of
<1>7. /\ service[o].client \in DOMAIN wires /\ wires[service[o].client].to = service[o].inode
      /\ Kind(o) \in FrameKinds => service[o].client \in Authorized
      /\ wires[service[o].client].sent = TRUE
  BY AttemptIsThere DEF handle, Of, ServiceIsSound, HoldsItsOwn, AnswersSoundly, Attending
<1>8. pc # "closing" => Reaches(wires, o, s, pc)
  <2>1. HAVE pc # "closing"
  <2>2. /\ Kind(o) \notin FrameKinds => service[o].client \in Authorized
        /\ Kind(o) \in ObservationKinds => wires[service[o].client].asks = Asked[o].instance
    BY <1>4, <2>1, AnswersWhom
  <2>3. v \in {None, "closed"} /\ (IsSigning(o) => v = "closed")
    BY <1>1, <1>4, <2>1 DEF CloseResult
  <2>4. AnswerIsDue(wires, o, s)
    BY <1>5, <1>7, <2>2, <2>3 DEF AnswerIsDue
  <2>5. s.inode = service[o].inode
    BY <1>5 DEF Learns
  <2> QED BY <1>5, <1>6, <1>7, <2>1, <2>4, <2>5 DEF Reaches
<1> QED BY <1>4, <1>5, <1>6, <1>8, StageIsSafe DEF handle

\* One socket changes.
LEMMA SocketChanges ==
    ASSUME NEW w, SocketsAreSound(sockets, w), NEW i \in DOMAIN sockets, NEW x, SocketIsSound(w, i, x),
           x.by = sockets[i].by, sockets[i].listening = FALSE => x.listening = FALSE,
           sockets[i].moved = TRUE => x.moved = TRUE,
           x.place = "path" => sockets[i].place = "path" \/ (x.moved = TRUE /\ lstat = {}),
           NEW new, new = [sockets EXCEPT ![i] = x]
    PROVE  SocketsAreSound(new, w) /\ SocketsGoOn(sockets, new)
<1>1. PICK S : sockets \in Seq(S)
  BY DEF SocketsAreSound
<1>2. new \in Seq(S \cup {x}) /\ DOMAIN new = DOMAIN sockets
  <2>1. new \in [1 .. Len(sockets) -> S \cup {x}]
    BY <1>1
  <2> QED BY <1>1, <2>1
<1>3. new[i] = x /\ \A j \in DOMAIN sockets \ {i} : new[j] = sockets[j]
  BY <1>1
<1>4. \A j \in DOMAIN new : SocketIsSound(w, j, new[j])
  BY <1>2, <1>3 DEF SocketsAreSound
<1>5. OneAtPath(new)
  BY <1>2, <1>3 DEF SocketsAreSound, OneAtPath, lstat, Inodes
<1>6. SocketsGoOn(sockets, new)
  BY <1>2, <1>3 DEF SocketsGoOn
<1> QED BY <1>2, <1>4, <1>5, <1>6 DEF SocketsAreSound

\* Connections stay what they are when sockets change.
LEMMA WiresStay ==
    ASSUME NEW tab, NEW new, NEW w, SocketsGoOn(tab, new), WiresAreSound(tab, w)
    PROVE  WiresAreSound(new, w)
BY DEF WiresAreSound, WireIsSound, SocketsGoOn

\* accept: who was taken from the backlog is connected to this socket.
LEMMA AcceptIsSafe ==
    ASSUME NativeSafety, NEW o \in ServiceOwners, accept(o), UNCHANGED client
    PROVE  NativeSafety'
<1>1. PICK i : i = service[o].inode
  OBVIOUS
<1>2. ServiceIsSound(sockets, wires, o, service[o]) /\ service[o].pc = "observed" /\ service[o].pc \in Serving
      /\ moves \in 0 .. MaxMoves /\ now \in 0 .. Horizon
  BY AttemptIsThere, StagesInOrder DEF accept, Of
<1>3. UNCHANGED <<now, moves, wires>>
  BY DEF accept
<1>4. CASE AttemptBecomes(o, After(o, FALSE, service[o])) /\ UNCHANGED sockets
  <2>1. AttemptBecomes(o, [service[o] EXCEPT !.pc = "closing"])
    BY <1>4 DEF After
  <2>2. Learns(service[o], service[o]) /\ moves' \in 0 .. MaxMoves
    BY <1>2, <1>3, Learning
  <2> QED BY <1>2, <1>3, <1>4, <2>1, <2>2, StageIsSafe
<1>5. CASE /\ sockets[i].backlog # <<>>
           /\ sockets' = [sockets EXCEPT ![i].backlog = Tail(@)]
           /\ AttemptBecomes(o, After(o, TRUE, [service[o] EXCEPT !.client = Head(sockets[i].backlog)]))
  <2>1. IsSilent(sockets, wires, o, service[o])
    BY <1>2, ServingIsSilent
  <2>2. i \in DOMAIN sockets /\ SocketsAreSound(sockets, wires)
    BY <1>1, <2>1 DEF IsSilent, NativeSafety
  <2>3. PICK b : b = sockets[i].backlog
    OBVIOUS
  <2>4. PICK n \in Nat : b \in [1 .. n -> Clients]
    BY <2>2, <2>3 DEF SocketsAreSound, SocketIsSound
  <2>5. \A k \in 1 .. n : b[k] \in DOMAIN wires /\ wires[b[k]].to = i
    BY <2>2, <2>3, <2>4 DEF SocketsAreSound, SocketIsSound
  <2>6. b \in Seq(Clients) /\ Len(b) = n /\ b # <<>> /\ n >= 1
    BY <1>5, <2>3, <2>4
  <2>7. PICK t : t = Tail(b)
    OBVIOUS
  <2>a. t \in Seq(Clients) /\ Len(t) = n - 1 /\ Head(b) = b[1] /\ n - 1 \in Nat
    BY <2>6, <2>7
  <2>b. t \in [1 .. n - 1 -> Clients] /\ DOMAIN t = 1 .. n - 1
    BY <2>a
  <2>c. \A k \in 1 .. n - 1 : t[k] = b[k + 1]
    BY <2>6, <2>7
  <2>8. PICK c : c = Head(b)
    OBVIOUS
  <2>9. c \in DOMAIN wires /\ wires[c].to = i
    BY <2>5, <2>6, <2>a, <2>8
  <2>10. PICK x : x = [sockets[i] EXCEPT !.backlog = t]
    OBVIOUS
  <2>11. PICK T : sockets[i] \in [SocketFields -> T]
    BY <2>2 DEF SocketsAreSound, SocketIsSound
  <2>12. /\ x \in [SocketFields -> T \cup {t}] /\ x.backlog = t /\ x.by = sockets[i].by /\ x.place = sockets[i].place
         /\ x.listening = sockets[i].listening /\ x.moved = sockets[i].moved
    BY <2>10, <2>11 DEF SocketFields
  <2>13. \A k \in DOMAIN x.backlog : x.backlog[k] \in DOMAIN wires /\ wires[x.backlog[k]].to = i
    BY <2>5, <2>b, <2>c, <2>12
  <2>14. SocketIsSound(wires, i, x)
    <3>1. \E m \in Nat : x.backlog \in [1 .. m -> Clients]
      BY <2>a, <2>b, <2>12
    <3>2. x.by \in ServiceOwners \cup {"foreign"} /\ (x.place = "aside" => x.moved = TRUE)
      BY <2>2, <2>12 DEF SocketsAreSound, SocketIsSound
    <3> QED BY <2>12, <2>13, <3>1, <3>2 DEF SocketIsSound
  <2>15. sockets' = [sockets EXCEPT ![i] = x]
    BY <1>5, <2>3, <2>7, <2>10
  <2>16. SocketsAreSound(sockets', wires) /\ SocketsGoOn(sockets, sockets')
    BY <2>2, <2>12, <2>14, <2>15, SocketChanges
  <2>17. PICK s : s = [service[o] EXCEPT !.client = c]
    OBVIOUS
  <2>18. Learns(service[o], s) /\ s.client = c
    BY <2>17, Learning
  <2>19. AttemptBecomes(o, After(o, TRUE, s))
    BY <1>5, <2>3, <2>8, <2>17
  <2>20. PICK pc : AttemptBecomes(o, [s EXCEPT !.pc = pc]) /\ (pc = "closing" \/ pc = NextStage(service[o].pc))
    BY <2>19, AfterIsStage
  <2>21. pc = "closing" \/ (pc = "accepted" /\ pc \in Serving)
    BY <1>2, <2>20, StagesInOrder
  <2>22. pc # "closing" => Reaches(wires, o, s, pc)
    BY <1>1, <2>9, <2>18, <2>21 DEF Reaches, Learns
  <2>23. PICK y : y = [s EXCEPT !.pc = pc]
    OBVIOUS
  <2>24. WiresGoOn(wires, wires, {})
    BY NothingChanges
  <2>25. ServiceIsSound(sockets', wires, o, service[o])
    BY <1>2, <2>16, <2>24, ServicesStay
  <2>26. ServiceIsSound(sockets', wires, o, y)
    BY <1>2, <2>18, <2>21, <2>22, <2>23, <2>25, StageIsSound
  <2>27. WiresGoOn(wires, wires', {o}) /\ DOMAIN wires' = DOMAIN wires
    BY <1>3, NothingChanges
  <2>28. WiresAreSound(sockets', wires)
    BY <2>16, WiresStay DEF NativeSafety
  <2>29. /\ SocketsAreSound(sockets', wires') /\ WiresAreSound(sockets', wires') /\ ServiceIsSound(sockets', wires', o, y)
         /\ now' \in 0 .. Horizon /\ moves' \in 0 .. MaxMoves
    BY <1>2, <1>3, <2>16, <2>26, <2>28
  <2>30. AttemptBecomes(o, y)
    BY <2>20, <2>23
  <2> QED BY <2>16, <2>27, <2>29, <2>30, AttemptTakesStep
<1> QED BY <1>1, <1>4, <1>5 DEF accept, Of

\* A backlog stays sound when connections go on.
LEMMA SocketsStay ==
    ASSUME NEW tab, NEW w, NEW v, NEW who, SocketsAreSound(tab, w), WiresGoOn(w, v, who)
    PROVE  SocketsAreSound(tab, v)
<1>1. ASSUME NEW i \in DOMAIN tab PROVE SocketIsSound(v, i, tab[i])
  <2>1. SocketIsSound(w, i, tab[i])
    BY DEF SocketsAreSound
  <2>2. \A k \in DOMAIN tab[i].backlog : tab[i].backlog[k] \in DOMAIN v /\ v[tab[i].backlog[k]].to = i
    BY <2>1 DEF SocketIsSound, WiresGoOn
  <2> QED BY <2>1, <2>2 DEF SocketIsSound
<1> QED BY <1>1 DEF SocketsAreSound

\* An answer is written to the client that was taken, whose connection has none yet.
LEMMA AnswerIsSafe ==
    ASSUME NativeSafety, NEW o \in ServiceOwners, writeAndShutdown(o), UNCHANGED client
    PROVE  NativeSafety'
<1>1. PICK x : x = service[o]
  OBVIOUS
<1>2. PICK c : c = x.client
  OBVIOUS
<1>3. ServiceIsSound(sockets, wires, o, x) /\ x.pc = "confirmed" /\ x.pc \in Serving
      /\ moves \in 0 .. MaxMoves /\ now \in 0 .. Horizon
  BY <1>1, AttemptIsThere, StagesInOrder DEF writeAndShutdown, Of
<1>4. /\ x.ok = FALSE /\ x.interrupted = FALSE /\ x.inode # 0 /\ CarrierIsOwn(o) /\ x.inode \in DOMAIN sockets /\ sockets[x.inode].by = o
      /\ \A d \in DOMAIN wires : wires[d].reply # o
  <2>1. IsSilent(sockets, wires, o, x)
    BY <1>3, ServingIsSilent
  <2> QED BY <2>1 DEF IsSilent
<1>5. c \in DOMAIN wires /\ wires[c].to = x.inode /\ wires[c].sent = TRUE /\ AnswerIsDue(wires, o, x)
  BY <1>2, <1>3 DEF ServiceIsSound, HoldsItsOwn, AnswersSoundly, Attending
<1>6. wires[c].reply = None
  <2>1. wires[c].reply \in ServiceOwners \cup {None, "foreign"} /\ (wires[c].reply = "foreign" => sockets[wires[c].to].by = "foreign")
    BY <1>5 DEF NativeSafety, WiresAreSound, WireIsSound
  <2>2. wires[c].reply # "foreign"
    BY <1>4, <1>5, <2>1, PeersAssumption
  <2>3. ASSUME NEW p \in ServiceOwners, wires[c].reply = p PROVE FALSE
    <3>1. ServiceIsSound(sockets, wires, p, service[p])
      BY AttemptIsThere
    <3>2. wires[c].to = service[p].inode /\ service[p].inode # 0
      BY <1>5, <2>3, <3>1 DEF ServiceIsSound, AnswersSoundly
    <3>3. sockets[service[p].inode].by = p
      BY <3>1, <3>2 DEF ServiceIsSound, HoldsItsOwn
    <3> QED BY <1>4, <1>5, <2>3, <3>2, <3>3
  <2> QED BY <2>1, <2>2, <2>3
<1>7. PICK r : r = (IF wires[c].up THEN o ELSE wires[c].reply)
  OBVIOUS
<1>8. PICK T : wires \in [DOMAIN wires -> T]
  BY DEF NativeSafety, WiresAreSound
<1>9. PICK v : v = [wires[c] EXCEPT !.reply = r]
  OBVIOUS
<1>10. wires' = [wires EXCEPT ![c] = v]
  BY <1>1, <1>2, <1>7, <1>9 DEF writeAndShutdown, Of
<1>11. PICK U : wires[c] \in [WireFields -> U]
  BY <1>5 DEF NativeSafety, WiresAreSound, WireIsSound
<1>12. /\ v \in [WireFields -> U \cup {r}] /\ v.reply = r /\ v.to = wires[c].to /\ v.asks = wires[c].asks /\ v.sent = wires[c].sent
  BY <1>9, <1>11 DEF WireFields
<1>13. DOMAIN wires' = DOMAIN wires /\ wires' \in [DOMAIN wires -> T \cup {v}] /\ wires'[c] = v
       /\ \A d \in DOMAIN wires \ {c} : wires'[d] = wires[d]
  BY <1>5, <1>8, <1>10
<1>14. r \in {o, None}
  BY <1>6, <1>7
<1>15. WiresGoOn(wires, wires', {o})
  BY <1>6, <1>12, <1>13, <1>14, PeersAssumption DEF WiresGoOn
<1>16. WiresAreSound(sockets, wires')
  <2>1. WireIsSound(sockets, v)
    BY <1>4, <1>5, <1>12, <1>14, PeersAssumption DEF WireIsSound
  <2> QED BY <1>13, <2>1 DEF NativeSafety, WiresAreSound
<1>17. SocketsAreSound(sockets, wires')
  BY <1>15, SocketsStay DEF NativeSafety
<1>18. PICK k \in BOOLEAN : /\ k = TRUE => wires[c].up
                            /\ AttemptBecomes(o, [[x EXCEPT !.pc = "closing"] EXCEPT !.ok = k])
  <2>1. After(o, TRUE, x) = [x EXCEPT !.pc = "closing"]
    BY <1>1, <1>3, StagesInOrder DEF After, Of
  <2>2. AttemptBecomes(o, [[x EXCEPT !.pc = "closing"] EXCEPT !.ok = wires[c].up /\ ~x.aborted])
    BY <1>1, <1>2, <2>1 DEF writeAndShutdown, Of
  <2> QED BY <2>2
<1>19. PICK y : y = [[x EXCEPT !.pc = "closing"] EXCEPT !.ok = k]
  OBVIOUS
<1>20. PICK S : x \in [ServiceFields -> S]
  BY <1>3 DEF ServiceIsSound
<1>21. /\ y \in [ServiceFields -> S \cup {k, "closing"}] /\ y.pc = "closing" /\ y.ok = k /\ y.inode = x.inode
       /\ y.interrupted = x.interrupted /\ y.aborted = x.aborted /\ y.client = c /\ y.custody = x.custody
  BY <1>2, <1>19, <1>20 DEF ServiceFields
<1>22. y.pc \in Leaving /\ y.pc \notin Beginning /\ y.pc \notin Attending /\ y.pc \notin Serving
  BY <1>21, StagesInOrder DEF Leaving, Beginning, Attending
<1>23. HoldsItsOwn(sockets, wires', o, y)
  BY <1>4, <1>21, <1>22 DEF HoldsItsOwn
<1>24. AnswerIsDue(wires', o, y)
  BY <1>2, <1>5, <1>12, <1>13, <1>21 DEF AnswerIsDue
<1>25. \A d \in DOMAIN wires' : wires'[d].reply = o => d = c
  BY <1>4, <1>13
<1>26. AnswersSoundly(wires', o, y)
  BY <1>4, <1>5, <1>12, <1>13, <1>21, <1>22, <1>24, <1>25 DEF AnswersSoundly
<1>27. k = TRUE => wires'[c].reply = o
  BY <1>7, <1>12, <1>13, <1>18
<1>28. LeavesSoundly(sockets, wires', o, y)
  BY <1>4, <1>5, <1>13, <1>21, <1>22, <1>24, <1>27 DEF LeavesSoundly, AnswerIsDue
<1>29. ServiceIsSound(sockets, wires', o, y)
  BY <1>3, <1>21, <1>22, <1>23, <1>26, <1>28 DEF ServiceIsSound
<1>30. UNCHANGED <<now, sockets, moves>> /\ AttemptBecomes(o, y)
  BY <1>18, <1>19 DEF writeAndShutdown
<1>31. SocketsGoOn(sockets, sockets')
  BY <1>30, NothingChanges
<1>32. /\ SocketsAreSound(sockets', wires') /\ WiresAreSound(sockets', wires') /\ ServiceIsSound(sockets', wires', o, y)
       /\ now' \in 0 .. Horizon /\ moves' \in 0 .. MaxMoves
  BY <1>3, <1>16, <1>17, <1>29, <1>30
<1> QED BY <1>13, <1>15, <1>30, <1>31, <1>32, AttemptTakesStep

(***************************************************************************)
(* How an attempt ends.                                                    *)
(***************************************************************************)

\* An attempt that leaves keeps its client, and closes a custody only that was open.
LEMMA LeavingIsSound ==
    ASSUME NEW tab, NEW w, NEW o, NEW x, ServiceIsSound(tab, w, o, x), x.pc \in Leaving \ {"ended"}, NEW y,
           \E T : y \in [ServiceFields -> T], y.pc \in Leaving, y.inode = x.inode, y.client = x.client,
           y.interrupted = x.interrupted, y.aborted \in BOOLEAN, y.ok \in BOOLEAN, y.ok = TRUE => x.ok = TRUE,
           y.custody = x.custody \/ x.custody = "open",
           y.pc = "unlinking" => y.interrupted = FALSE /\ tab[y.inode].listening = FALSE,
           y.pc \in {"removed", "ended"} /\ y.interrupted = FALSE =>
             tab[y.inode].listening = FALSE /\ (tab[y.inode].place = "path" => tab[y.inode].moved = TRUE),
           y.pc = "ended" /\ y.ok = TRUE => y.at < y.until
    PROVE  ServiceIsSound(tab, w, o, y)
<1>1. x.pc \in Leaving /\ x.pc # "ended" /\ x.pc \notin {"idle", "asking", "ended"}
  BY DEF Leaving
<1>2. /\ y.inode # 0 /\ y.inode \in DOMAIN tab /\ tab[y.inode].by = o /\ CarrierIsOwn(o)
      /\ y.interrupted \in BOOLEAN
  BY <1>1 DEF ServiceIsSound, HoldsItsOwn
<1>3. y.pc \notin Beginning /\ y.pc \notin Attending /\ y.pc \notin Serving
  BY StagesInOrder DEF Leaving, Beginning, Attending
<1>4. HoldsItsOwn(tab, w, o, y)
  BY <1>2, <1>3 DEF HoldsItsOwn
<1>5. AnswersSoundly(w, o, y)
  <2>1. ASSUME NEW c \in DOMAIN w, w[c].reply = o
        PROVE  /\ y.client = c /\ w[c].to = y.inode /\ w[c].sent = TRUE /\ AnswerIsDue(w, o, y)
    <3>1. x.client = c /\ w[c].to = x.inode /\ w[c].sent = TRUE /\ AnswerIsDue(w, o, x)
      BY <2>1 DEF ServiceIsSound, AnswersSoundly
    <3>2. x.custody # "open"
      BY <3>1, PeersAssumption DEF AnswerIsDue
    <3> QED BY <3>1, <3>2 DEF AnswerIsDue
  <2>2. y.pc \notin {"identified", "requested", "answered", "confirmed"}
    BY <1>3 DEF Attending
  <2> QED BY <1>2, <2>1, <2>2 DEF AnswersSoundly
<1>6. y.ok = TRUE => /\ y.interrupted = FALSE /\ y.custody \in {None, "closed"} /\ \E c \in DOMAIN w : w[c].reply = o
  BY PeersAssumption DEF ServiceIsSound, LeavesSoundly
<1>7. LeavesSoundly(tab, w, o, y)
  BY <1>2, <1>6 DEF LeavesSoundly
<1> QED BY <1>2, <1>4, <1>5, <1>7 DEF ServiceIsSound

\* closeSession: no answer has left a custody that is open.
LEMMA CloseSessionIsSafe ==
    ASSUME NativeSafety, NEW o \in ServiceOwners, NEW closes \in BOOLEAN, closeSession(o, closes), UNCHANGED client
    PROVE  NativeSafety'
<1>1. PICK x : x = service[o]
  OBVIOUS
<1>2. ServiceIsSound(sockets, wires, o, x) /\ (\E T : x \in [ServiceFields -> T]) /\ moves \in 0 .. MaxMoves
  BY <1>1, AttemptIsThere
<1>3. PICK v : v = (IF x.custody = "open" THEN CloseResult(closes) ELSE x.custody)
  OBVIOUS
<1>4. PICK k \in BOOLEAN : (k = TRUE => x.ok = TRUE) /\ AttemptBecomes(o, [x EXCEPT !.pc = "closed", !.custody = v, !.ok = k])
  BY <1>1, <1>2, <1>3 DEF closeSession, Of, ServiceIsSound
<1>5. PICK y : y = [x EXCEPT !.pc = "closed", !.custody = v, !.ok = k]
  OBVIOUS
<1>6. /\ \E T : y \in [ServiceFields -> T]
      /\ y.pc = "closed" /\ y.ok = k /\ y.custody = v /\ y.inode = x.inode /\ y.client = x.client
      /\ y.interrupted = x.interrupted /\ y.aborted = x.aborted
  <2>1. PICK T : x \in [ServiceFields -> T]
    BY <1>2
  <2>2. y \in [ServiceFields -> T \cup {"closed", v, k}]
    BY <2>1, <1>5
  <2> QED BY <2>1, <2>2, <1>5 DEF ServiceFields
<1>7. x.pc \in Leaving \ {"ended"} /\ y.pc \in Leaving /\ y.aborted \in BOOLEAN /\ (y.custody = x.custody \/ x.custody = "open")
  BY <1>1, <1>2, <1>3, <1>6 DEF closeSession, Of, Leaving, ServiceIsSound
<1>8. ServiceIsSound(sockets, wires, o, y)
  BY <1>2, <1>4, <1>6, <1>7, LeavingIsSound
<1> QED BY <1>2, <1>4, <1>5, <1>8, AttemptGoesOn DEF closeSession

\* closeFrameSession: the addon may refuse.
LEMMA CloseFrameSessionIsSafe ==
    ASSUME NativeSafety, NEW o \in ServiceOwners, closeFrameSession(o), UNCHANGED client
    PROVE  NativeSafety'
<1>1. PICK x : x = service[o]
  OBVIOUS
<1>2. ServiceIsSound(sockets, wires, o, x) /\ (\E T : x \in [ServiceFields -> T]) /\ moves \in 0 .. MaxMoves
  BY <1>1, AttemptIsThere
<1>3. PICK k \in BOOLEAN : (k = TRUE => x.ok = TRUE) /\ AttemptBecomes(o, [x EXCEPT !.pc = "closed", !.ok = k])
  BY <1>1, <1>2 DEF closeFrameSession, Of, ServiceIsSound
<1>4. PICK y : y = [x EXCEPT !.pc = "closed", !.ok = k]
  OBVIOUS
<1>5. /\ \E T : y \in [ServiceFields -> T]
      /\ y.pc = "closed" /\ y.ok = k /\ y.custody = x.custody /\ y.inode = x.inode /\ y.client = x.client
      /\ y.interrupted = x.interrupted /\ y.aborted = x.aborted
  <2>1. PICK T : x \in [ServiceFields -> T]
    BY <1>2
  <2>2. y \in [ServiceFields -> T \cup {"closed", k}]
    BY <2>1, <1>4
  <2> QED BY <2>1, <2>2, <1>4 DEF ServiceFields
<1>6. x.pc \in Leaving \ {"ended"} /\ y.pc \in Leaving /\ y.aborted \in BOOLEAN
  BY <1>1, <1>2, <1>5 DEF closeFrameSession, Of, Leaving, ServiceIsSound
<1>7. ServiceIsSound(sockets, wires, o, y)
  BY <1>2, <1>3, <1>5, <1>6, LeavingIsSound
<1> QED BY <1>2, <1>3, <1>4, <1>7, AttemptGoesOn DEF closeFrameSession

\* endBounded: success only within the grant.
LEMMA EndIsSafe ==
    ASSUME NativeSafety, NEW o \in ServiceOwners, endBounded(o), UNCHANGED client
    PROVE  NativeSafety'
<1>1. PICK x : x = service[o]
  OBVIOUS
<1>2. ServiceIsSound(sockets, wires, o, x) /\ (\E T : x \in [ServiceFields -> T]) /\ moves \in 0 .. MaxMoves
  BY <1>1, AttemptIsThere
<1>3. PICK k \in BOOLEAN : /\ k = TRUE => x.ok = TRUE /\ now < x.until
                           /\ AttemptBecomes(o, [x EXCEPT !.pc = "ended", !.at = now, !.ok = k])
  BY <1>1, <1>2 DEF endBounded, Of, ServiceIsSound
<1>4. PICK y : y = [x EXCEPT !.pc = "ended", !.at = now, !.ok = k]
  OBVIOUS
<1>5. /\ \E T : y \in [ServiceFields -> T]
      /\ y.pc = "ended" /\ y.ok = k /\ y.custody = x.custody /\ y.at = now /\ y.inode = x.inode /\ y.client = x.client
      /\ y.interrupted = x.interrupted /\ y.aborted = x.aborted /\ y.until = x.until
  <2>1. PICK T : x \in [ServiceFields -> T]
    BY <1>2
  <2>2. y \in [ServiceFields -> T \cup {"ended", now, k}]
    BY <2>1, <1>4
  <2> QED BY <2>1, <2>2, <1>4 DEF ServiceFields
<1>6. x.pc = "removed" /\ x.pc \in Leaving \ {"ended"} /\ y.pc \in Leaving /\ y.aborted \in BOOLEAN /\ x.inode # 0
  BY <1>1, <1>2, <1>5 DEF endBounded, Of, Leaving, ServiceIsSound, HoldsItsOwn
<1>7. y.interrupted = FALSE => sockets[y.inode].listening = FALSE /\ (sockets[y.inode].place = "path" => sockets[y.inode].moved = TRUE)
  BY <1>2, <1>5, <1>6 DEF ServiceIsSound, LeavesSoundly
<1>8. y.ok = TRUE => x.ok = TRUE /\ y.at < y.until
  BY <1>3, <1>5
<1>9. ServiceIsSound(sockets, wires, o, y)
  BY <1>2, <1>3, <1>5, <1>6, <1>7, <1>8, LeavingIsSound
<1> QED BY <1>2, <1>3, <1>4, <1>9, AttemptGoesOn DEF endBounded

\* What is done to a socket leaves it a socket.
LEMMA SocketIsThere ==
    ASSUME NativeSafety, NEW i \in DOMAIN sockets
    PROVE  /\ SocketIsSound(wires, i, sockets[i]) /\ (\E T : sockets[i] \in [SocketFields -> T])
           /\ SocketsAreSound(sockets, wires)
BY DEF NativeSafety, SocketsAreSound, SocketIsSound

\* The descriptor of a socket is closed; at most its path is removed.
LEMMA ClosingSocket ==
    ASSUME NativeSafety, NEW i \in DOMAIN sockets, NEW x, \E T : x \in [SocketFields -> T], x.by = sockets[i].by,
           x.moved = sockets[i].moved, x.listening = FALSE, x.backlog = <<>>,
           x.place = sockets[i].place \/ x.place = "gone", NEW new, new = [sockets EXCEPT ![i] = x]
    PROVE  SocketsAreSound(new, wires) /\ SocketsGoOn(sockets, new) /\ new[i] = x
<1>3. x.backlog \in [1 .. 0 -> Clients] /\ DOMAIN x.backlog = {}
  OBVIOUS
<1>4. SocketIsSound(wires, i, x)
  <2>1. SocketIsSound(wires, i, sockets[i])
    BY SocketIsThere
  <2>2. x.by \in ServiceOwners \cup {"foreign"} /\ (x.place = "aside" => x.moved = TRUE)
    BY <2>1 DEF SocketIsSound
  <2>3. /\ \E n \in Nat : x.backlog \in [1 .. n -> Clients]
        /\ \A k \in DOMAIN x.backlog : x.backlog[k] \in DOMAIN wires /\ wires[x.backlog[k]].to = i
    BY <1>3
  <2> QED BY <2>2, <2>3 DEF SocketIsSound
<1>5. SocketsAreSound(new, wires) /\ SocketsGoOn(sockets, new)
  <2>1. /\ SocketsAreSound(sockets, wires) /\ (sockets[i].moved = TRUE => x.moved = TRUE)
        /\ x.place = "path" => sockets[i].place = "path"
    BY SocketIsThere
  <2> QED BY <1>4, <2>1, SocketChanges
<1>6. new[i] = x
  BY <1>5 DEF NativeSafety, SocketsAreSound
<1> QED BY <1>5, <1>6

\* closeListener: a path that is not the socket of the attempt is left alone.
LEMMA CloseListenerIsSafe ==
    ASSUME NativeSafety, NEW o \in ServiceOwners, closeListener(o), UNCHANGED client
    PROVE  NativeSafety'
<1>1. PICK x : x = service[o]
  OBVIOUS
<1>2. ServiceIsSound(sockets, wires, o, x) /\ (\E T : x \in [ServiceFields -> T]) /\ moves \in 0 .. MaxMoves /\ now \in 0 .. Horizon
  BY <1>1, AttemptIsThere
<1>3. /\ x.pc = "closed" /\ x.pc \in Leaving \ {"ended"} /\ x.aborted \in BOOLEAN /\ x.interrupted \in BOOLEAN /\ x.ok \in BOOLEAN
      /\ x.inode # 0 /\ x.inode \in DOMAIN sockets
  BY <1>1, <1>2 DEF closeListener, Of, Leaving, ServiceIsSound, HoldsItsOwn
<1>4. PICK T : x \in [ServiceFields -> T]
  BY <1>2
<1>5. PICK y : y = [x EXCEPT !.pc = "removed", !.ok = FALSE]
  OBVIOUS
<1>6. /\ y \in [ServiceFields -> T \cup {"removed", FALSE}]
      /\ y.pc = "removed" /\ y.ok = FALSE /\ y.custody = x.custody /\ y.inode = x.inode /\ y.client = x.client
      /\ y.interrupted = x.interrupted /\ y.aborted = x.aborted
  BY <1>4, <1>5 DEF ServiceFields
<1>7. (\E U : y \in [ServiceFields -> U]) /\ y.pc \in Leaving /\ y.ok \in BOOLEAN /\ y.ok # TRUE /\ y.aborted \in BOOLEAN
  BY <1>3, <1>6 DEF Leaving
<1>8. UNCHANGED <<now, moves, wires>>
  BY DEF closeListener
<1>9. CASE x.interrupted = TRUE
  <2>1. AttemptBecomes(o, y) /\ UNCHANGED sockets
    BY <1>1, <1>5, <1>9 DEF closeListener, Of
  <2>2. ServiceIsSound(sockets, wires, o, y)
    BY <1>2, <1>3, <1>6, <1>7, <1>9, LeavingIsSound
  <2> QED BY <1>2, <1>8, <2>1, <2>2, AttemptGoesOn
<1>10. CASE x.interrupted = FALSE
  <2>1. PICK i : i = x.inode
    OBVIOUS
  <2>2. PICK s : s = [sockets[i] EXCEPT !.listening = FALSE, !.backlog = <<>>]
    OBVIOUS
  <2>3. sockets' = [sockets EXCEPT ![i] = s]
    <3>1. sockets' = [sockets EXCEPT ![i].listening = FALSE, ![i].backlog = <<>>]
      BY <1>1, <1>10, <2>1 DEF closeListener, Of
    <3>2. PICK S : sockets \in Seq(S)
      BY DEF NativeSafety, SocketsAreSound
    <3>3. [sockets EXCEPT ![i].listening = FALSE, ![i].backlog = <<>>]
          = [sockets EXCEPT ![i] = [sockets[i] EXCEPT !.listening = FALSE, !.backlog = <<>>]]
      BY <1>3, <2>1, <3>2
    <3> QED BY <2>2, <3>1, <3>3
  <2>4. /\ SocketsAreSound(sockets', wires) /\ SocketsGoOn(sockets, sockets')
        /\ sockets'[i].listening = FALSE /\ sockets'[i].place = sockets[i].place
    <3>1. PICK U : sockets[i] \in [SocketFields -> U]
      BY <1>3, <2>1, SocketIsThere
    <3>2. s \in [SocketFields -> U \cup {FALSE, <<>>}]
      BY <2>2, <3>1
    <3>3. /\ s.by = sockets[i].by /\ s.moved = sockets[i].moved /\ s.place = sockets[i].place
          /\ s.listening = FALSE /\ s.backlog = <<>>
      BY <2>2, <3>1 DEF SocketFields
    <3>4. PICK new : new = [sockets EXCEPT ![i] = s]
      OBVIOUS
    <3>5. i \in DOMAIN sockets /\ \E V : s \in [SocketFields -> V]
      BY <1>3, <2>1, <3>2
    <3>6. SocketsAreSound(new, wires) /\ SocketsGoOn(sockets, new) /\ new[i] = s
      BY <3>3, <3>4, <3>5, ClosingSocket
    <3> QED BY <2>3, <3>3, <3>4, <3>6
  <2>5. WiresGoOn(wires, wires, {})
    BY NothingChanges
  <2>6. ServiceIsSound(sockets', wires, o, x)
    BY <1>2, <2>4, <2>5, ServicesStay
  <2>7. PICK z : AttemptBecomes(o, z) /\ \/ z = [x EXCEPT !.pc = "unlinking"]
                                         \/ lstat # {i} /\ z = y
    BY <1>1, <1>5, <1>10, <2>1 DEF closeListener, Of
  <2>8. ServiceIsSound(sockets', wires, o, z)
    <3>1. CASE z = [x EXCEPT !.pc = "unlinking"]
      <4>1. /\ \E U : z \in [ServiceFields -> U]
            /\ z.pc = "unlinking" /\ z.inode = x.inode /\ z.ok = x.ok /\ z.interrupted = x.interrupted /\ z.aborted = x.aborted
            /\ z.client = x.client /\ z.custody = x.custody
        BY <1>2, <3>1, StageChanges
      <4>2. z.pc \in Leaving /\ z.interrupted = FALSE /\ sockets'[z.inode].listening = FALSE
        BY <1>10, <2>1, <2>4, <4>1 DEF Leaving
      <4> QED BY <1>3, <2>6, <4>1, <4>2, LeavingIsSound
    <3>2. CASE lstat # {i} /\ z = y
      <4>1. sockets[i].place # "path"
        BY <1>3, <2>1, <3>2 DEF NativeSafety, SocketsAreSound, OneAtPath, lstat, Inodes
      <4>2. sockets'[y.inode].listening = FALSE /\ sockets'[y.inode].place # "path"
        BY <1>6, <2>1, <2>4, <4>1
      <4>3. ServiceIsSound(sockets', wires, o, y)
        BY <1>3, <1>6, <1>7, <2>6, <4>2, LeavingIsSound
      <4> QED BY <3>2, <4>3
    <3> QED BY <2>7, <3>1, <3>2
  <2>9. WiresGoOn(wires, wires', {o}) /\ DOMAIN wires' = DOMAIN wires
    BY <1>8, NothingChanges
  <2>10. WiresAreSound(sockets', wires)
    BY <2>4, WiresStay DEF NativeSafety
  <2>11. /\ SocketsAreSound(sockets', wires') /\ WiresAreSound(sockets', wires') /\ ServiceIsSound(sockets', wires', o, z)
         /\ now' \in 0 .. Horizon /\ moves' \in 0 .. MaxMoves
    BY <1>2, <1>8, <2>4, <2>8, <2>10
  <2> QED BY <2>4, <2>7, <2>9, <2>11, AttemptTakesStep
<1> QED BY <1>3, <1>9, <1>10

\* unlink removes what is at the path by now.
LEMMA UnlinkIsSafe ==
    ASSUME NativeSafety, NEW o \in ServiceOwners, unlink(o), UNCHANGED client
    PROVE  NativeSafety'
<1>1. PICK x : x = service[o]
  OBVIOUS
<1>2. ServiceIsSound(sockets, wires, o, x) /\ (\E T : x \in [ServiceFields -> T]) /\ moves \in 0 .. MaxMoves /\ now \in 0 .. Horizon
  BY <1>1, AttemptIsThere
<1>3. /\ x.pc = "unlinking" /\ x.pc \in Leaving \ {"ended"} /\ x.aborted \in BOOLEAN /\ x.ok \in BOOLEAN
      /\ x.inode # 0 /\ x.inode \in DOMAIN sockets
  BY <1>1, <1>2 DEF unlink, Of, Leaving, ServiceIsSound, HoldsItsOwn
<1>4. UNCHANGED <<now, moves, wires>>
  BY DEF unlink
<1>5. PICK S : sockets \in Seq(S)
  BY DEF NativeSafety, SocketsAreSound
<1>6. DOMAIN sockets' = DOMAIN sockets /\ sockets' \in Seq({sockets'[i] : i \in DOMAIN sockets})
  <2>1. PICK U : U = {sockets'[i] : i \in DOMAIN sockets}
    OBVIOUS
  <2>2. DOMAIN sockets' = DOMAIN sockets /\ sockets' = [i \in DOMAIN sockets |-> sockets'[i]]
    BY DEF unlink, Inodes
  <2>3. sockets' \in [DOMAIN sockets -> U]
    BY <2>1, <2>2, Zenon
  <2>4. DOMAIN sockets = 1 .. Len(sockets) /\ Len(sockets) \in Nat
    BY <1>5
  <2>5. sockets' \in Seq(U)
    BY <2>3, <2>4
  <2> QED BY <2>1, <2>2, <2>5
<1>7. \A i \in DOMAIN sockets : sockets'[i] = IF sockets[i].place = "path" THEN [sockets[i] EXCEPT !.place = "gone"] ELSE sockets[i]
  BY DEF unlink, Inodes
<1>8. ASSUME NEW i \in DOMAIN sockets
      PROVE  /\ SocketIsSound(wires, i, sockets'[i]) /\ sockets'[i].by = sockets[i].by /\ sockets'[i].listening = sockets[i].listening
             /\ sockets'[i].moved = sockets[i].moved /\ sockets'[i].place # "path"
  <2>1. CASE sockets[i].place # "path"
    BY <1>7, <2>1, SocketIsThere
  <2>2. CASE sockets[i].place = "path"
    <3>1. PICK s : s = sockets[i]
      OBVIOUS
    <3>2. PICK z : z = [s EXCEPT !.place = "gone"]
      OBVIOUS
    <3>3. PICK U : s \in [SocketFields -> U]
      BY <3>1, SocketIsThere
    <3>4. /\ z \in [SocketFields -> U \cup {"gone"}] /\ z.by = s.by /\ z.listening = s.listening /\ z.moved = s.moved
          /\ z.place = "gone" /\ z.backlog = s.backlog
      BY <3>2, <3>3 DEF SocketFields
    <3>5. SocketIsSound(wires, i, s)
      BY <3>1, SocketIsThere
    <3>6. SocketIsSound(wires, i, z)
      BY <3>4, <3>5 DEF SocketIsSound
    <3>7. sockets'[i] = z
      BY <1>7, <2>2, <3>1, <3>2
    <3> QED BY <3>1, <3>4, <3>6, <3>7
  <2> QED BY <2>1, <2>2
<1>9. SocketsAreSound(sockets', wires) /\ SocketsGoOn(sockets, sockets')
  BY <1>6, <1>8 DEF SocketsAreSound, OneAtPath, SocketsGoOn
<1>10. PICK k \in BOOLEAN : (k = TRUE => x.ok = TRUE) /\ AttemptBecomes(o, [x EXCEPT !.pc = "removed", !.ok = k])
  BY <1>1, <1>3 DEF unlink, Of
<1>11. PICK y : y = [x EXCEPT !.pc = "removed", !.ok = k]
  OBVIOUS
<1>12. PICK T : x \in [ServiceFields -> T]
  BY <1>2
<1>13. /\ y \in [ServiceFields -> T \cup {"removed", k}]
       /\ y.pc = "removed" /\ y.ok = k /\ y.custody = x.custody /\ y.inode = x.inode /\ y.client = x.client
       /\ y.interrupted = x.interrupted /\ y.aborted = x.aborted
  BY <1>11, <1>12 DEF ServiceFields
<1>14. WiresGoOn(wires, wires, {})
  BY NothingChanges
<1>15. ServiceIsSound(sockets', wires, o, x)
  BY <1>2, <1>9, <1>14, ServicesStay
<1>16. /\ \E U : y \in [ServiceFields -> U]
       /\ y.pc \in Leaving /\ y.aborted \in BOOLEAN /\ y.pc # "unlinking" /\ y.pc # "ended"
       /\ sockets'[y.inode].listening = FALSE /\ sockets'[y.inode].place # "path"
  BY <1>3, <1>8, <1>13, <1>15 DEF Leaving, ServiceIsSound, LeavesSoundly
<1>17. ServiceIsSound(sockets', wires, o, y)
  BY <1>3, <1>10, <1>13, <1>15, <1>16, LeavingIsSound
<1>18. WiresGoOn(wires, wires', {o}) /\ DOMAIN wires' = DOMAIN wires
  BY <1>4, NothingChanges
<1>19. WiresAreSound(sockets', wires)
  BY <1>9, WiresStay DEF NativeSafety
<1>20. /\ SocketsAreSound(sockets', wires') /\ WiresAreSound(sockets', wires') /\ ServiceIsSound(sockets', wires', o, y)
       /\ now' \in 0 .. Horizon /\ moves' \in 0 .. MaxMoves
  BY <1>2, <1>4, <1>9, <1>17, <1>19
<1>21. AttemptBecomes(o, y)
  BY <1>10, <1>11
<1> QED BY <1>9, <1>18, <1>20, <1>21, AttemptTakesStep

\* finalizeListener closes what an interrupted attempt left.
LEMMA FinalizerIsSafe ==
    ASSUME NativeSafety, NEW o \in ServiceOwners, finalizeListener(o), UNCHANGED client
    PROVE  NativeSafety'
<1>1. PICK i : i = service[o].inode
  OBVIOUS
<1>2. PICK place : place = (IF sockets[i].place = "path" THEN "gone" ELSE sockets[i].place)
  OBVIOUS
<1>3. PICK S : sockets \in Seq(S)
  BY DEF NativeSafety, SocketsAreSound
<1>4. sockets' = [sockets EXCEPT ![i] = [sockets[i] EXCEPT !.listening = FALSE, !.backlog = <<>>, !.place = place]]
  BY <1>1, <1>2, <1>3 DEF finalizeListener, Of
<1>5. UNCHANGED <<now, moves, service, wires>> /\ moves' \in 0 .. MaxMoves
  BY DEF finalizeListener, NativeSafety
<1>6. CASE i \notin DOMAIN sockets
  <2>1. sockets' = sockets
    BY <1>3, <1>4, <1>6
  <2>2. SocketsGoOn(sockets, sockets') /\ SocketsAreSound(sockets', wires)
    BY <2>1, NothingChanges DEF NativeSafety
  <2> QED BY <1>5, <2>2, WorldTakesStep
<1>7. CASE i \in DOMAIN sockets
  <2>1. PICK U : sockets[i] \in [SocketFields -> U]
    BY <1>7, SocketIsThere
  <2>2. PICK s : s = [sockets[i] EXCEPT !.listening = FALSE, !.backlog = <<>>, !.place = place]
    OBVIOUS
  <2>3. s \in [SocketFields -> U \cup {FALSE, <<>>, place}]
    BY <2>1, <2>2
  <2>4. /\ s.by = sockets[i].by /\ s.moved = sockets[i].moved /\ s.place = place
        /\ s.listening = FALSE /\ s.backlog = <<>>
    BY <2>1, <2>2 DEF SocketFields
  <2>5. PICK new : new = [sockets EXCEPT ![i] = s]
    OBVIOUS
  <2>6. s.place = sockets[i].place \/ s.place = "gone"
    BY <1>2, <2>4
  <2>7. \E V : s \in [SocketFields -> V]
    BY <2>3
  <2>8. SocketsAreSound(new, wires) /\ SocketsGoOn(sockets, new)
    BY <1>7, <2>4, <2>5, <2>6, <2>7, ClosingSocket
  <2>9. SocketsAreSound(sockets', wires) /\ SocketsGoOn(sockets, sockets')
    BY <1>4, <2>2, <2>5, <2>8
  <2> QED BY <1>5, <2>9, WorldTakesStep
<1> QED BY <1>6, <1>7

\* abortAttempt and timerFires: nothing that was established is lost.
LEMMA CancelIsSafe ==
    ASSUME NativeSafety, NEW o \in ServiceOwners, Cancels(o), UNCHANGED client, moves' \in 0 .. MaxMoves
    PROVE  NativeSafety'
<1>1. PICK x : x = service[o]
  OBVIOUS
<1>2. ServiceIsSound(sockets, wires, o, x) /\ (\E T : x \in [ServiceFields -> T])
  BY <1>1, AttemptIsThere
<1>3. PICK y : y = [x EXCEPT !.aborted = TRUE]
  OBVIOUS
<1>4. PICK T : x \in [ServiceFields -> T]
  BY <1>2
<1>5. y \in [ServiceFields -> T \cup {TRUE}] /\ y.aborted = TRUE
  BY <1>3, <1>4 DEF ServiceFields
<1>6. /\ y.pc = x.pc /\ y.inode = x.inode /\ y.client = x.client /\ y.custody = x.custody /\ y.interrupted = x.interrupted
      /\ y.ok = x.ok /\ y.at = x.at /\ y.until = x.until
  BY <1>3, <1>4 DEF ServiceFields
<1>7. HoldsItsOwn(sockets, wires, o, y)
  BY <1>2, <1>6 DEF ServiceIsSound, HoldsItsOwn
<1>8. AnswersSoundly(wires, o, y)
  BY <1>2, <1>6 DEF ServiceIsSound, AnswersSoundly, AnswerIsDue
<1>9. LeavesSoundly(sockets, wires, o, y)
  BY <1>2, <1>6 DEF ServiceIsSound, LeavesSoundly
<1>10. ServiceIsSound(sockets, wires, o, y)
  BY <1>2, <1>5, <1>6, <1>7, <1>8, <1>9 DEF ServiceIsSound
<1>11. AttemptBecomes(o, y)
  BY <1>1, <1>3 DEF Cancels, Of
<1> QED BY <1>10, <1>11, AttemptGoesOn DEF Cancels

\* The time an attempt ended is not the time it is now.
LEMMA TimeIsSafe ==
    ASSUME NativeSafety, timeGoesOn, UNCHANGED client
    PROVE  NativeSafety'
<1>1. now' \in 0 .. Horizon
  BY PeersAssumption DEF NativeSafety, timeGoesOn
<1> QED BY <1>1 DEF NativeSafety, timeGoesOn

\* rename: what comes back to the path is marked as moved.
LEMMA RenameIsSafe ==
    ASSUME NativeSafety, NEW i \in Inodes, rename(i), UNCHANGED client
    PROVE  NativeSafety'
<1>1. PICK place : place = (IF sockets[i].place = "path" THEN "aside" ELSE "path")
  OBVIOUS
<1>2. i \in DOMAIN sockets /\ SocketIsSound(wires, i, sockets[i]) /\ SocketsAreSound(sockets, wires)
  BY SocketIsThere DEF Inodes
<1>3. PICK T : sockets[i] \in [SocketFields -> T]
  BY <1>2, SocketIsThere
<1>4. PICK x : x = [sockets[i] EXCEPT !.place = place, !.moved = TRUE]
  OBVIOUS
<1>5. x \in [SocketFields -> T \cup {place, TRUE}]
  BY <1>3, <1>4
<1>6. x.by = sockets[i].by /\ x.moved = TRUE /\ x.place = place /\ x.listening = sockets[i].listening /\ x.backlog = sockets[i].backlog
  BY <1>3, <1>4 DEF SocketFields
<1>7. SocketIsSound(wires, i, x)
  BY <1>2, <1>5, <1>6 DEF SocketIsSound
<1>8. sockets' = [sockets EXCEPT ![i] = x]
  <2>1. PICK S : sockets \in Seq(S)
    BY DEF NativeSafety, SocketsAreSound
  <2> QED BY <1>1, <1>2, <1>4, <2>1 DEF rename
<1>9. x.place = "path" => sockets[i].place = "path" \/ (x.moved = TRUE /\ lstat = {})
  BY <1>1, <1>6 DEF rename
<1>10. SocketsAreSound(sockets', wires) /\ SocketsGoOn(sockets, sockets')
  BY <1>2, <1>6, <1>7, <1>8, <1>9, SocketChanges
<1>11. moves' \in 0 .. MaxMoves
  BY Disturbances DEF rename
<1> QED BY <1>10, <1>11, WorldTakesStep DEF rename

\* foreignBinds: only where there is no socket.
LEMMA ForeignIsSafe ==
    ASSUME NativeSafety, foreignBinds, UNCHANGED client
    PROVE  NativeSafety'
<1>1. SocketsAreSound(sockets', wires) /\ SocketsGoOn(sockets, sockets')
  BY BindingIsSound DEF foreignBinds, NativeSafety
<1>2. moves' \in 0 .. MaxMoves
  BY Disturbances DEF foreignBinds
<1> QED BY <1>1, <1>2, WorldTakesStep DEF foreignBinds

(***************************************************************************)
(* The steps of a client.                                                  *)
(***************************************************************************)

\* What NativeSafety says of one client.
LEMMA ClientIsThere ==
    ASSUME NativeSafety, NEW c \in Clients
    PROVE  /\ ClientIsSound(sockets, wires, c, client[c]) /\ (\E T : client[c] \in [ClientFields -> T])
           /\ moves \in 0 .. MaxMoves
BY DEF NativeSafety, ClientIsSound

\* A client changes nothing but its own state.
LEMMA ClientGoesOn ==
    ASSUME NativeSafety, NEW c \in Clients, NEW y, ClientBecomes(c, y), ClientIsSound(sockets, wires, c, y),
           UNCHANGED <<now, sockets, service, wires>>, moves' \in 0 .. MaxMoves
    PROVE  NativeSafety'
<1>1. SocketsGoOn(sockets, sockets') /\ WiresGoOn(wires, wires', {})
  BY NothingChanges
<1>2. /\ SocketsAreSound(sockets', wires') /\ WiresAreSound(sockets', wires') /\ ClientIsSound(sockets', wires', c, y)
      /\ DOMAIN wires' \subseteq DOMAIN wires \cup {c}
  BY DEF NativeSafety
<1> QED BY <1>1, <1>2, ClientTakesStep

\* A client that knows no more, or goes on with finally.
LEMMA ClientEnds ==
    ASSUME NEW tab, NEW w, NEW c, NEW x, ClientIsSound(tab, w, c, x), NEW y, \E T : y \in [ClientFields -> T],
           y.pc = x.pc \/ (x.pc # "idle" /\ y.pc \in {"finally", "ended"}), y.auth = x.auth, y.ok = x.ok
    PROVE  ClientIsSound(tab, w, c, y)
BY DEF ClientIsSound

\* The record y of a client is s at the stage pc.
StageIs(s, y, pc) ==
    /\ \E T : y \in [ClientFields -> T]
    /\ y.pc = pc /\ y.auth = s.auth /\ y.ok = s.ok

\* A client changes its stage only.
LEMMA ClientStageChanges ==
    ASSUME NEW s, NEW pc, \E T : s \in [ClientFields -> T], NEW y, y = [s EXCEPT !.pc = pc]
    PROVE  StageIs(s, y, pc)
<1>1. PICK T : s \in [ClientFields -> T]
  OBVIOUS
<1>2. y \in [ClientFields -> T \cup {pc}]
  BY <1>1
<1>3. y.pc = pc /\ y.auth = s.auth /\ y.ok = s.ok
  BY <1>1 DEF ClientFields
<1> QED BY <1>2, <1>3 DEF StageIs

\* lookup: the authorization names a socket of an owner.
LEMMA LookupIsSafe ==
    ASSUME NativeSafety, NEW c \in Clients, NEW i \in Inodes, lookup(c, i)
    PROVE  NativeSafety'
<1>1. PICK x : x = client[c]
  OBVIOUS
<1>2. ClientIsSound(sockets, wires, c, x) /\ x.pc = "idle" /\ moves \in 0 .. MaxMoves
  BY <1>1, ClientIsThere DEF lookup
<1>3. PICK T : x \in [ClientFields -> T]
  BY <1>2 DEF ClientIsSound
<1>4. PICK s : s = [x EXCEPT !.pc = "looked", !.auth = i, !.before = lstat]
  OBVIOUS
<1>5. s \in [ClientFields -> T \cup {"looked", i, lstat}] /\ s.pc = "looked" /\ s.auth = i /\ s.ok = x.ok
  BY <1>3, <1>4 DEF ClientFields
<1>6. PICK y : ClientBecomes(c, y) /\ (y = s \/ y = [s EXCEPT !.pc = "finally"])
  BY <1>1, <1>4 DEF lookup, ClientAfter
<1>7. (\E U : y \in [ClientFields -> U]) /\ y.pc \in {"looked", "finally"} /\ y.auth = i /\ y.ok = x.ok
  <2>1. CASE y = s
    BY <1>5, <2>1
  <2>2. CASE y = [s EXCEPT !.pc = "finally"]
    <3>1. \E U : s \in [ClientFields -> U]
      BY <1>5
    <3>2. (\E U : y \in [ClientFields -> U]) /\ y.pc = "finally" /\ y.auth = s.auth /\ y.ok = s.ok
      <4>1. StageIs(s, y, "finally")
        BY <2>2, <3>1, ClientStageChanges
      <4> QED BY <4>1 DEF StageIs
    <3> QED BY <1>5, <3>2
  <2> QED BY <1>6, <2>1, <2>2
<1>8. /\ c \notin DOMAIN wires /\ x.ok \in BOOLEAN /\ x.ok # TRUE
      /\ i \in DOMAIN sockets /\ sockets[i].by \in ServiceOwners
  BY <1>2 DEF ClientIsSound, lookup, Inodes
<1>9. ClientIsSound(sockets, wires, c, y)
  BY <1>7, <1>8 DEF ClientIsSound
<1> QED BY <1>2, <1>6, <1>9, ClientGoesOn DEF lookup, listenerVars

\* connect: the backlog of a socket gets its own connection.
LEMMA ConnectIsSafe ==
    ASSUME NativeSafety, NEW c \in Clients, NEW scope, connect(c, scope)
    PROVE  NativeSafety'
<1>1. PICK x : x = client[c]
  OBVIOUS
<1>2. ClientIsSound(sockets, wires, c, x) /\ x.pc = "looked" /\ moves \in 0 .. MaxMoves /\ (\E T : x \in [ClientFields -> T])
  BY <1>1, ClientIsThere DEF connect
<1>3. c \notin DOMAIN wires
  BY <1>2 DEF ClientIsSound
<1>4. UNCHANGED <<now, moves, service>>
  BY DEF connect
<1>5. CASE ClientBecomes(c, [x EXCEPT !.pc = "finally"]) /\ UNCHANGED <<sockets, wires>>
  <2>1. PICK y : y = [x EXCEPT !.pc = "finally"]
    OBVIOUS
  <2>2. (\E T : y \in [ClientFields -> T]) /\ y.pc = "finally" /\ y.auth = x.auth /\ y.ok = x.ok
    <3>1. \E T : x \in [ClientFields -> T]
      BY <1>2
    <3>2. StageIs(x, y, "finally")
      BY <2>1, <3>1, ClientStageChanges
    <3> QED BY <3>2 DEF StageIs
  <2>3. ClientIsSound(sockets, wires, c, y)
    BY <1>2, <2>2, ClientEnds
  <2> QED BY <1>2, <1>4, <1>5, <2>1, <2>3, ClientGoesOn
<1>6. CASE ~(ClientBecomes(c, [x EXCEPT !.pc = "finally"]) /\ UNCHANGED <<sockets, wires>>)
  <2>1. PICK i : /\ i \in lstat
                 /\ wires' = [d \in DOMAIN wires \cup {c} |-> IF d = c THEN NewWire(i, scope) ELSE wires[d]]
                 /\ sockets' = [sockets EXCEPT ![i].backlog = IF sockets[i].by \in ServiceOwners THEN Append(@, c) ELSE @]
                 /\ ClientBecomes(c, ClientAfter(c, TRUE, [x EXCEPT !.pc = "writing", !.fd = "open", !.active = TRUE]))
    BY <1>1, <1>6 DEF connect
  <2>2. i \in DOMAIN sockets
    BY <2>1 DEF lstat, Inodes
  <2>3. PICK v : v = NewWire(i, scope)
    OBVIOUS
  <2>4. v \in [WireFields -> {v[f] : f \in WireFields}] /\ v.to = i /\ v.reply = None
    <3>1. DOMAIN v = WireFields /\ v = [f \in DOMAIN v |-> v[f]] /\ v.to = i /\ v.reply = None
      BY <2>3 DEF NewWire, WireFields
    <3> QED BY <3>1, Zenon
  <2>5. PICK T : wires \in [DOMAIN wires -> T]
    BY DEF NativeSafety, WiresAreSound
  <2>6. /\ DOMAIN wires' = DOMAIN wires \cup {c} /\ wires'[c] = v /\ (\A d \in DOMAIN wires : wires'[d] = wires[d])
        /\ wires' \in [DOMAIN wires \cup {c} -> T \cup {v}]
    BY <1>3, <2>1, <2>3, <2>5
  <2>7. WiresGoOn(wires, wires', {})
    BY <2>4, <2>6, PeersAssumption DEF WiresGoOn
  <2>8. SocketsAreSound(sockets, wires')
    BY <2>7, SocketsStay DEF NativeSafety
  <2>9. WiresAreSound(sockets, wires')
    <3>1. WireIsSound(sockets, v)
      BY <2>2, <2>4, PeersAssumption DEF WireIsSound
    <3>2. \A d \in DOMAIN wires' : WireIsSound(sockets, wires'[d])
      BY <2>6, <3>1 DEF NativeSafety, WiresAreSound
    <3>3. DOMAIN wires' \subseteq Clients /\ \E U : wires' \in [DOMAIN wires' -> U]
      BY <2>6 DEF NativeSafety, WiresAreSound
    <3> QED BY <3>2, <3>3 DEF WiresAreSound
  <2>10. PICK b : b = sockets[i].backlog
    OBVIOUS
  <2>11. PICK n \in Nat : b \in [1 .. n -> Clients]
    BY <2>2, <2>10 DEF NativeSafety, SocketsAreSound, SocketIsSound
  <2>12. \A k \in 1 .. n : b[k] \in DOMAIN wires' /\ wires'[b[k]].to = i
    BY <2>2, <2>8, <2>10, <2>11 DEF SocketsAreSound, SocketIsSound
  <2>13. PICK t : t = (IF sockets[i].by \in ServiceOwners THEN Append(b, c) ELSE b)
    OBVIOUS
  <2>14. \E m \in Nat : t \in [1 .. m -> Clients] /\ \A k \in 1 .. m : t[k] \in DOMAIN wires' /\ wires'[t[k]].to = i
    <3>1. CASE t = b
      BY <2>11, <2>12, <3>1
    <3>2. CASE t = Append(b, c)
      <4>1. b \in Seq(Clients) /\ Len(b) = n
        BY <2>11
      <4>2. t \in Seq(Clients) /\ Len(t) = n + 1 /\ t[n + 1] = c /\ \A k \in 1 .. n : t[k] = b[k]
        BY <3>2, <4>1
      <4>3. t \in [1 .. n + 1 -> Clients] /\ n + 1 \in Nat
        BY <4>2
      <4>4. \A k \in 1 .. n + 1 : t[k] \in DOMAIN wires' /\ wires'[t[k]].to = i
        BY <2>4, <2>6, <2>12, <4>2
      <4> QED BY <4>3, <4>4
    <3> QED BY <2>13, <3>1, <3>2
  <2>15. PICK s : s = [sockets[i] EXCEPT !.backlog = t]
    OBVIOUS
  <2>16. SocketIsSound(wires', i, sockets[i])
    BY <2>2, <2>8 DEF SocketsAreSound
  <2>17. PICK U : sockets[i] \in [SocketFields -> U]
    BY <2>16 DEF SocketIsSound
  <2>18. s \in [SocketFields -> U \cup {t}]
    BY <2>15, <2>17
  <2>19. s.by = sockets[i].by /\ s.listening = sockets[i].listening /\ s.moved = sockets[i].moved
         /\ s.place = sockets[i].place /\ s.backlog = t
    BY <2>15, <2>17 DEF SocketFields
  <2>20. SocketIsSound(wires', i, s)
    <3>1. s.by \in ServiceOwners \cup {"foreign"} /\ (s.place = "aside" => s.moved = TRUE)
      BY <2>16, <2>19 DEF SocketIsSound
    <3>2. /\ \E m \in Nat : s.backlog \in [1 .. m -> Clients]
          /\ \A k \in DOMAIN s.backlog : s.backlog[k] \in DOMAIN wires' /\ wires'[s.backlog[k]].to = i
      BY <2>14, <2>19
    <3> QED BY <2>18, <3>1, <3>2 DEF SocketIsSound
  <2>21. sockets' = [sockets EXCEPT ![i] = s]
    <3>1. PICK S : sockets \in Seq(S)
      BY DEF NativeSafety, SocketsAreSound
    <3> QED BY <2>1, <2>2, <2>10, <2>13, <2>15, <3>1
  <2>22. SocketsAreSound(sockets', wires') /\ SocketsGoOn(sockets, sockets')
    BY <2>2, <2>8, <2>19, <2>20, <2>21, SocketChanges
  <2>23. WiresAreSound(sockets', wires')
    BY <2>9, <2>22, WiresStay
  <2>24. PICK T2 : x \in [ClientFields -> T2]
    BY <1>2
  <2>25. PICK z : z = [x EXCEPT !.pc = "writing", !.fd = "open", !.active = TRUE]
    OBVIOUS
  <2>26. z \in [ClientFields -> T2 \cup {"writing", "open", TRUE}] /\ z.pc = "writing" /\ z.auth = x.auth /\ z.ok = x.ok
    BY <2>24, <2>25 DEF ClientFields
  <2>27. PICK y : ClientBecomes(c, y) /\ (y = z \/ y = [z EXCEPT !.pc = "finally"])
    BY <2>1, <2>25 DEF ClientAfter
  <2>28. (\E V : y \in [ClientFields -> V]) /\ y.pc \in {"writing", "finally"} /\ y.auth = x.auth /\ y.ok = x.ok
    <3>1. CASE y = z
      BY <2>26, <3>1
    <3>2. CASE y = [z EXCEPT !.pc = "finally"]
      <4>1. \E V : z \in [ClientFields -> V]
        BY <2>26
      <4>2. (\E V : y \in [ClientFields -> V]) /\ y.pc = "finally" /\ y.auth = z.auth /\ y.ok = z.ok
        <5>1. StageIs(z, y, "finally")
          BY <3>2, <4>1, ClientStageChanges
        <5> QED BY <5>1 DEF StageIs
      <4> QED BY <2>26, <4>2
    <3> QED BY <2>27, <3>1, <3>2
  <2>29. x.ok \in BOOLEAN /\ x.ok # TRUE /\ x.auth \in DOMAIN sockets' /\ sockets'[x.auth].by \in ServiceOwners /\ c \in DOMAIN wires'
    BY <1>2, <1>3, <2>6, <2>22 DEF ClientIsSound, SocketsGoOn
  <2>30. ClientIsSound(sockets', wires', c, y)
    BY <2>28, <2>29 DEF ClientIsSound
  <2>31. moves' \in 0 .. MaxMoves /\ DOMAIN wires' \subseteq DOMAIN wires \cup {c}
    BY <1>2, <1>4, <2>6
  <2> QED BY <1>4, <2>7, <2>22, <2>23, <2>27, <2>30, <2>31, ClientTakesStep
<1> QED BY <1>5, <1>6

\* A connection changes without an answer of an owner.
LEMMA WireChanges ==
    ASSUME NativeSafety, NEW c \in DOMAIN wires, NEW x, \E T : x \in [WireFields -> T], x.to = wires[c].to, x.asks = wires[c].asks,
           wires[c].sent = TRUE => x.sent = TRUE,
           \/ x.reply = wires[c].reply
           \/ wires[c].reply = None /\ x.reply = "foreign" /\ sockets[x.to].by = "foreign",
           NEW v, v = [wires EXCEPT ![c] = x]
    PROVE  WiresGoOn(wires, v, {}) /\ WiresAreSound(sockets, v) /\ DOMAIN v = DOMAIN wires
<1>1. PICK T : wires \in [DOMAIN wires -> T]
  BY DEF NativeSafety, WiresAreSound
<1>2. /\ DOMAIN v = DOMAIN wires /\ v \in [DOMAIN wires -> T \cup {x}] /\ v[c] = x
      /\ \A d \in DOMAIN wires \ {c} : v[d] = wires[d]
  BY <1>1
<1>3. WiresGoOn(wires, v, {})
  BY <1>2, PeersAssumption DEF WiresGoOn
<1>4. WireIsSound(sockets, wires[c])
  BY DEF NativeSafety, WiresAreSound
<1>5. WireIsSound(sockets, x)
  BY <1>4 DEF WireIsSound
<1>6. \A d \in DOMAIN v : WireIsSound(sockets, v[d])
  BY <1>2, <1>5 DEF NativeSafety, WiresAreSound
<1>7. DOMAIN v \subseteq Clients /\ \E U : v \in [DOMAIN v -> U]
  <2>1. DOMAIN wires \subseteq Clients
    BY DEF NativeSafety, WiresAreSound
  <2>2. v \in [DOMAIN v -> T \cup {x}]
    BY <1>2
  <2> QED BY <1>2, <2>1, <2>2
<1> QED BY <1>2, <1>3, <1>6, <1>7 DEF WiresAreSound

\* A client, or another process, changes the client's connection.
LEMMA ClientChangesWire ==
    ASSUME NativeSafety, NEW c \in Clients, NEW y, ClientBecomes(c, y), UNCHANGED <<now, sockets, service>>,
           WiresGoOn(wires, wires', {}), WiresAreSound(sockets, wires'), DOMAIN wires' = DOMAIN wires,
           ClientIsSound(sockets, wires, c, client[c]) => ClientIsSound(sockets, wires', c, y), moves' \in 0 .. MaxMoves
    PROVE  NativeSafety'
<1>1. SocketsGoOn(sockets, sockets')
  BY NothingChanges
<1>2. SocketsAreSound(sockets, wires')
  BY SocketsStay DEF NativeSafety
<1>3. ClientIsSound(sockets, wires', c, y)
  BY ClientIsThere
<1>4. /\ SocketsAreSound(sockets', wires') /\ WiresAreSound(sockets', wires') /\ ClientIsSound(sockets', wires', c, y)
      /\ DOMAIN wires' \subseteq DOMAIN wires \cup {c}
  BY <1>2, <1>3
<1> QED BY <1>1, <1>4, ClientTakesStep

\* writeEnds: the request is sent.
LEMMA WriteIsSafe ==
    ASSUME NativeSafety, NEW c \in Clients, writeEnds(c)
    PROVE  NativeSafety'
<1>1. PICK x : x = client[c]
  OBVIOUS
<1>2. ClientIsSound(sockets, wires, c, x) /\ x.pc = "writing" /\ moves \in 0 .. MaxMoves /\ (\E T : x \in [ClientFields -> T])
  BY <1>1, ClientIsThere DEF writeEnds
<1>3. c \in DOMAIN wires
  BY <1>2 DEF ClientIsSound
<1>4. PICK v : v = [wires[c] EXCEPT !.sent = TRUE]
  OBVIOUS
<1>5. PICK U : wires[c] \in [WireFields -> U]
  BY <1>3 DEF NativeSafety, WiresAreSound, WireIsSound
<1>6. v \in [WireFields -> U \cup {TRUE}] /\ v.to = wires[c].to /\ v.asks = wires[c].asks /\ v.sent = TRUE /\ v.reply = wires[c].reply
  BY <1>4, <1>5 DEF WireFields
<1>7. wires' = [wires EXCEPT ![c] = v]
  BY <1>4 DEF writeEnds
<1>8. \E W : v \in [WireFields -> W]
  BY <1>6
<1>9. WiresGoOn(wires, wires', {}) /\ WiresAreSound(sockets, wires') /\ DOMAIN wires' = DOMAIN wires
  BY <1>3, <1>6, <1>7, <1>8, WireChanges
<1>10. PICK pc, y : ClientBecomes(c, y) /\ y = [x EXCEPT !.pc = pc] /\ pc \in {"reading", "finally"}
  <2>1. PICK T : x \in [ClientFields -> T]
    BY <1>2
  <2>2. [[x EXCEPT !.pc = "reading"] EXCEPT !.pc = "finally"] = [x EXCEPT !.pc = "finally"]
    BY <2>1
  <2> QED BY <1>1, <2>2 DEF writeEnds, ClientAfter
<1>11. (\E T : y \in [ClientFields -> T]) /\ y.pc = pc /\ y.auth = x.auth /\ y.ok = x.ok
  <2>1. y = [x EXCEPT !.pc = pc] /\ \E T : x \in [ClientFields -> T]
    BY <1>2, <1>10
  <2>2. StageIs(x, y, pc)
    BY <2>1, ClientStageChanges
  <2> QED BY <2>2 DEF StageIs
<1>12. SocketsGoOn(sockets, sockets)
  BY NothingChanges
<1>13. ClientIsSound(sockets, wires', c, x)
  BY <1>2, <1>3, <1>9, <1>12, ClientsStay
<1>14. ClientIsSound(sockets, wires', c, y)
  BY <1>2, <1>3, <1>9, <1>10, <1>11, <1>13 DEF ClientIsSound
<1>15. UNCHANGED <<now, sockets, service>> /\ moves' \in 0 .. MaxMoves
  BY <1>2 DEF writeEnds
<1> QED BY <1>9, <1>10, <1>14, <1>15, ClientChangesWire

\* readEnds: something was received, or the exchange fails.
LEMMA ReadEndsSafely ==
    ASSUME NativeSafety, NEW c \in Clients, readEnds(c)
    PROVE  NativeSafety'
<1>1. PICK x : x = client[c]
  OBVIOUS
<1>2. ClientIsSound(sockets, wires, c, x) /\ x.pc = "reading" /\ moves \in 0 .. MaxMoves /\ (\E T : x \in [ClientFields -> T])
  BY <1>1, ClientIsThere DEF readEnds
<1>3. PICK pc, y : /\ ClientBecomes(c, y) /\ y = [x EXCEPT !.pc = pc]
                   /\ pc = "finally" \/ (pc = "received" /\ wires[c].reply # None)
  <2>1. PICK T : x \in [ClientFields -> T]
    BY <1>2
  <2>2. [[x EXCEPT !.pc = "received"] EXCEPT !.pc = "finally"] = [x EXCEPT !.pc = "finally"]
    BY <2>1
  <2> QED BY <1>1, <2>2 DEF readEnds, ClientAfter
<1>4. (\E T : y \in [ClientFields -> T]) /\ y.pc = pc /\ y.auth = x.auth /\ y.ok = x.ok
  <2>1. y = [x EXCEPT !.pc = pc] /\ \E T : x \in [ClientFields -> T]
    BY <1>2, <1>3
  <2>2. StageIs(x, y, pc)
    BY <2>1, ClientStageChanges
  <2> QED BY <2>2 DEF StageIs
<1>5. ClientIsSound(sockets, wires, c, y)
  BY <1>2, <1>3, <1>4 DEF ClientIsSound
<1> QED BY <1>2, <1>3, <1>5, ClientGoesOn DEF readEnds, listenerVars

\* Who answered on the connection of a client.
LEMMA AnswerIsOfOwner ==
    ASSUME NativeSafety, NEW c \in DOMAIN wires, wires[c].reply # None, sockets[wires[c].to].by \in ServiceOwners
    PROVE  wires[c].reply = sockets[wires[c].to].by
<1>1. wires[c].reply \in ServiceOwners \cup {None, "foreign"} /\ (wires[c].reply = "foreign" => sockets[wires[c].to].by = "foreign")
  BY DEF NativeSafety, WiresAreSound, WireIsSound
<1>2. wires[c].reply \in ServiceOwners
  BY <1>1, PeersAssumption
<1>3. PICK p \in ServiceOwners : p = wires[c].reply
  BY <1>2
<1>4. ServiceIsSound(sockets, wires, p, service[p])
  BY AttemptIsThere
<1>5. wires[c].to = service[p].inode /\ service[p].inode # 0
  BY <1>3, <1>4 DEF ServiceIsSound, AnswersSoundly
<1>6. sockets[service[p].inode].by = p
  BY <1>4, <1>5 DEF ServiceIsSound, HoldsItsOwn
<1> QED BY <1>3, <1>5, <1>6

\* receive: comparing the peer suffices to know who answered.
LEMMA ReceiveIsSafe ==
    ASSUME NativeSafety, NEW c \in Clients, receive(c)
    PROVE  NativeSafety'
<1>1. PICK x : x = client[c]
  OBVIOUS
<1>2. ClientIsSound(sockets, wires, c, x) /\ x.pc = "received" /\ moves \in 0 .. MaxMoves /\ (\E T : x \in [ClientFields -> T])
  BY <1>1, ClientIsThere DEF receive
<1>3. PICK k \in BOOLEAN : /\ k = TRUE => sockets[wires[c].to].by = sockets[x.auth].by
                           /\ ClientBecomes(c, [x EXCEPT !.pc = "finally", !.ok = k])
  <2>1. PICK k \in BOOLEAN : /\ k = TRUE => sockets[wires[c].to].by = sockets[x.auth].by
                             /\ ClientBecomes(c, ClientAfter(c, TRUE, [x EXCEPT !.pc = "finally", !.ok = k]))
    BY <1>1 DEF receive, TransportAccepts, AuthenticExchange
  <2>2. PICK T : x \in [ClientFields -> T]
    BY <1>2
  <2>3. [[x EXCEPT !.pc = "finally", !.ok = k] EXCEPT !.pc = "finally"] = [x EXCEPT !.pc = "finally", !.ok = k]
    BY <2>2 DEF ClientFields
  <2> QED BY <2>1, <2>3 DEF ClientAfter
<1>4. PICK y : y = [x EXCEPT !.pc = "finally", !.ok = k]
  OBVIOUS
<1>5. PICK T : x \in [ClientFields -> T]
  BY <1>2
<1>6. y \in [ClientFields -> T \cup {"finally", k}] /\ y.pc = "finally" /\ y.auth = x.auth /\ y.ok = k
  BY <1>4, <1>5 DEF ClientFields
<1>7. x.auth \in DOMAIN sockets /\ sockets[x.auth].by \in ServiceOwners /\ c \in DOMAIN wires /\ wires[c].reply # None
  BY <1>2 DEF ClientIsSound
<1>8. k = TRUE => wires[c].reply = sockets[x.auth].by
  BY <1>3, <1>7, AnswerIsOfOwner
<1>9. ClientIsSound(sockets, wires, c, y)
  BY <1>6, <1>7, <1>8 DEF ClientIsSound
<1>10. ClientBecomes(c, y)
  BY <1>3, <1>4
<1> QED BY <1>2, <1>9, <1>10, ClientGoesOn DEF receive, listenerVars

\* exchangeFails goes on with finally.
LEMMA ExchangeFailsSafely ==
    ASSUME NativeSafety, NEW c \in Clients, exchangeFails(c)
    PROVE  NativeSafety'
<1>1. PICK x : x = client[c]
  OBVIOUS
<1>2. ClientIsSound(sockets, wires, c, x) /\ x.pc # "idle" /\ (\E T : x \in [ClientFields -> T])
  BY <1>1, ClientIsThere DEF exchangeFails
<1>3. PICK y : y = [x EXCEPT !.pc = "finally"]
  OBVIOUS
<1>4. (\E T : y \in [ClientFields -> T]) /\ y.pc = "finally" /\ y.auth = x.auth /\ y.ok = x.ok
  <2>1. y = [x EXCEPT !.pc = "finally"] /\ \E T : x \in [ClientFields -> T]
    BY <1>2, <1>3
  <2>2. StageIs(x, y, "finally")
    BY <2>1, ClientStageChanges
  <2> QED BY <2>2 DEF StageIs
<1>5. ClientIsSound(sockets, wires, c, y)
  BY <1>2, <1>4, ClientEnds
<1>6. moves' \in 0 .. MaxMoves /\ ClientBecomes(c, y)
  BY <1>1, <1>3, Disturbances DEF exchangeFails
<1> QED BY <1>5, <1>6, ClientGoesOn DEF exchangeFails

\* A connection is closed, or left as it is.
LEMMA DownIsSound ==
    ASSUME NativeSafety, NEW c \in Clients, wires' = wires \/ wires' = Down(c)
    PROVE  WiresGoOn(wires, wires', {}) /\ WiresAreSound(sockets, wires') /\ DOMAIN wires' = DOMAIN wires
<1>1. CASE wires' = wires
  BY <1>1, NothingChanges DEF NativeSafety
<1>2. CASE wires' = Down(c) /\ c \notin DOMAIN wires
  <2>1. PICK T : wires \in [DOMAIN wires -> T]
    BY DEF NativeSafety, WiresAreSound
  <2>2. wires' = wires
    BY <1>2, <2>1 DEF Down
  <2> QED BY <1>1, <2>2
<1>3. CASE wires' = Down(c) /\ c \in DOMAIN wires
  <2>1. PICK v : v = [wires[c] EXCEPT !.up = FALSE]
    OBVIOUS
  <2>2. PICK U : wires[c] \in [WireFields -> U]
    BY <1>3 DEF NativeSafety, WiresAreSound, WireIsSound
  <2>3. v \in [WireFields -> U \cup {FALSE}] /\ v.to = wires[c].to /\ v.asks = wires[c].asks /\ v.sent = wires[c].sent /\ v.reply = wires[c].reply
    BY <2>1, <2>2 DEF WireFields
  <2>4. wires' = [wires EXCEPT ![c] = v]
    BY <1>3, <2>1 DEF Down
  <2>5. \E W : v \in [WireFields -> W]
    BY <2>3
  <2> QED BY <1>3, <2>3, <2>4, <2>5, WireChanges
<1> QED BY <1>1, <1>2, <1>3

\* A client ends, or is closed, with its connection.
LEMMA ClientLeaves ==
    ASSUME NativeSafety, NEW c \in Clients, NEW y, ClientBecomes(c, y), \E T : y \in [ClientFields -> T],
           y.pc = client[c].pc \/ (client[c].pc # "idle" /\ y.pc \in {"finally", "ended"}),
           y.auth = client[c].auth, y.ok = client[c].ok, UNCHANGED <<now, sockets, service>>,
           wires' = wires \/ wires' = Down(c), moves' \in 0 .. MaxMoves
    PROVE  NativeSafety'
<1>1. WiresGoOn(wires, wires', {}) /\ WiresAreSound(sockets, wires') /\ DOMAIN wires' = DOMAIN wires
  BY DownIsSound
<1>2. ClientIsSound(sockets, wires, c, client[c]) /\ SocketsGoOn(sockets, sockets)
  BY ClientIsThere, NothingChanges
<1>3. ClientIsSound(sockets, wires', c, client[c])
  BY <1>1, <1>2, ClientsStay
<1>4. ClientIsSound(sockets, wires', c, y)
  BY <1>3, ClientEnds
<1> QED BY <1>1, <1>4, ClientChangesWire

\* finally closes the connection it still has.
LEMMA FinallyIsSafe ==
    ASSUME NativeSafety, NEW c \in Clients, finally(c)
    PROVE  NativeSafety'
<1>1. PICK x : x = client[c]
  OBVIOUS
<1>2. PICK T : x \in [ClientFields -> T]
  BY <1>1, ClientIsThere
<1>3. PICK fd : ClientBecomes(c, [x EXCEPT !.pc = "ended", !.active = FALSE, !.fd = fd])
  BY <1>1 DEF finally
<1>4. PICK y : y = [x EXCEPT !.pc = "ended", !.active = FALSE, !.fd = fd]
  OBVIOUS
<1>5. y \in [ClientFields -> T \cup {"ended", FALSE, fd}] /\ y.pc = "ended" /\ y.auth = x.auth /\ y.ok = x.ok
  BY <1>2, <1>4 DEF ClientFields
<1>6. /\ \E U : y \in [ClientFields -> U]
      /\ client[c].pc # "idle" /\ y.pc = "ended" /\ y.auth = client[c].auth /\ y.ok = client[c].ok /\ ClientBecomes(c, y)
  BY <1>1, <1>3, <1>4, <1>5 DEF finally
<1>7. UNCHANGED <<now, sockets, service>> /\ (wires' = wires \/ wires' = Down(c)) /\ moves' \in 0 .. MaxMoves
  BY ClientIsThere DEF finally
<1> QED BY <1>6, <1>7, ClientLeaves

\* closeTransport and interrupt, during a native operation or not.
LEMMA CloseIsSafe ==
    ASSUME NativeSafety, NEW c \in Clients, CloseOf(c), moves' \in 0 .. MaxMoves
    PROVE  NativeSafety'
<1>1. PICK x : x = client[c]
  OBVIOUS
<1>2. PICK T : x \in [ClientFields -> T]
  BY <1>1, ClientIsThere
<1>3. PICK fd : ClientBecomes(c, [x EXCEPT !.closed = TRUE, !.active = FALSE, !.fd = fd])
  BY <1>1 DEF CloseOf
<1>4. PICK y : y = [x EXCEPT !.closed = TRUE, !.active = FALSE, !.fd = fd]
  OBVIOUS
<1>5. y \in [ClientFields -> T \cup {TRUE, FALSE, fd}] /\ y.pc = x.pc /\ y.auth = x.auth /\ y.ok = x.ok
  BY <1>2, <1>4 DEF ClientFields
<1>6. /\ \E U : y \in [ClientFields -> U]
      /\ y.pc = client[c].pc /\ y.auth = client[c].auth /\ y.ok = client[c].ok /\ ClientBecomes(c, y)
  BY <1>1, <1>3, <1>4, <1>5
<1>7. UNCHANGED <<now, sockets, service>> /\ (wires' = wires \/ wires' = Down(c))
  BY DEF CloseOf
<1> QED BY <1>6, <1>7, ClientLeaves

\* foreignReplies: only on connections to a socket of its own.
LEMMA ForeignReplyIsSafe ==
    ASSUME NativeSafety, NEW c \in Clients, foreignReplies(c)
    PROVE  NativeSafety'
<1>1. PICK v : v = [wires[c] EXCEPT !.reply = "foreign"]
  OBVIOUS
<1>2. c \in DOMAIN wires /\ wires[c].reply = None /\ sockets[wires[c].to].by = "foreign"
  BY DEF foreignReplies
<1>3. PICK U : wires[c] \in [WireFields -> U]
  BY <1>2 DEF NativeSafety, WiresAreSound, WireIsSound
<1>4. v \in [WireFields -> U \cup {"foreign"}] /\ v.to = wires[c].to /\ v.asks = wires[c].asks /\ v.sent = wires[c].sent /\ v.reply = "foreign"
  BY <1>1, <1>3 DEF WireFields
<1>5. wires' = [wires EXCEPT ![c] = v] /\ UNCHANGED <<now, sockets, moves, service, client>>
  BY <1>1 DEF foreignReplies
<1>6. sockets[v.to].by = "foreign" /\ \E W : v \in [WireFields -> W]
  BY <1>2, <1>4
<1>7. WiresGoOn(wires, wires', {}) /\ WiresAreSound(sockets, wires') /\ DOMAIN wires' = DOMAIN wires
  BY <1>2, <1>4, <1>5, <1>6, WireChanges
<1>8. ClientIsSound(sockets, wires, c, client[c]) /\ SocketsGoOn(sockets, sockets)
  BY ClientIsThere, NothingChanges
<1>9. ClientIsSound(sockets, wires', c, client[c])
  BY <1>7, <1>8, ClientsStay
<1>10. ClientBecomes(c, client[c]) /\ moves' \in 0 .. MaxMoves
  <2>1. PICK T : client \in [Clients -> T]
    BY DEF NativeSafety
  <2>2. client = [client EXCEPT ![c] = client[c]]
    BY <2>1
  <2> QED BY <1>5, <2>2, ClientIsThere DEF ClientBecomes
<1> QED BY <1>5, <1>7, <1>9, <1>10, ClientChangesWire

\* Nothing has been asked for.
LEMMA NativeStartsSound == NativeInit => NativeSafety
<1> SUFFICES ASSUME NativeInit PROVE NativeSafety
  OBVIOUS
<1>1. /\ now = 0 /\ moves = 0 /\ sockets = <<>> /\ DOMAIN wires = {} /\ wires = [c \in {} |-> {}]
      /\ service = [o \in ServiceOwners |-> NewAttempt] /\ client = [c \in Clients |-> NewClient]
  BY DEF NativeInit, ListenerInit
<1>2. sockets \in Seq({}) /\ DOMAIN sockets = {}
  BY <1>1
<1>3. SocketsAreSound(sockets, wires)
  BY <1>2 DEF SocketsAreSound, OneAtPath
<1>4. wires \in [DOMAIN wires -> {}]
  BY <1>1
<1>5. WiresAreSound(sockets, wires)
  BY <1>1, <1>4 DEF WiresAreSound
<1>6. PICK x : x = NewAttempt
  OBVIOUS
<1>7. /\ x \in [ServiceFields -> {x[f] : f \in ServiceFields}]
      /\ x.pc = "idle" /\ x.aborted = FALSE /\ x.inode = 0 /\ x.interrupted = FALSE /\ x.ok = FALSE
  <2>1. /\ DOMAIN x = ServiceFields /\ x = [f \in DOMAIN x |-> x[f]]
        /\ x.pc = "idle" /\ x.aborted = FALSE /\ x.inode = 0 /\ x.interrupted = FALSE /\ x.ok = FALSE
    BY <1>6 DEF NewAttempt, ServiceFields
  <2> QED BY <2>1, Zenon
<1>8. x.pc \in Beginning /\ x.pc \notin Serving /\ x.pc \notin Leaving /\ x.pc \notin Attending
  BY <1>7, StagesInOrder DEF Beginning, Leaving, Attending
<1>9. ASSUME NEW o \in ServiceOwners PROVE ServiceIsSound(sockets, wires, o, x)
  <2>1. HoldsItsOwn(sockets, wires, o, x)
    BY <1>7, <1>8 DEF HoldsItsOwn
  <2>2. AnswersSoundly(wires, o, x)
    BY <1>1, <1>7 DEF AnswersSoundly
  <2>3. LeavesSoundly(sockets, wires, o, x)
    BY <1>7 DEF LeavesSoundly
  <2> QED BY <1>7, <1>8, <2>1, <2>2, <2>3 DEF ServiceIsSound
<1>10. PICK z : z = NewClient
  OBVIOUS
<1>11. z \in [ClientFields -> {z[f] : f \in ClientFields}] /\ z.pc = "idle" /\ z.ok = FALSE
  <2>1. DOMAIN z = ClientFields /\ z = [f \in DOMAIN z |-> z[f]] /\ z.pc = "idle" /\ z.ok = FALSE
    BY <1>10 DEF NewClient, ClientFields
  <2> QED BY <2>1, Zenon
<1>12. ASSUME NEW c \in Clients PROVE ClientIsSound(sockets, wires, c, z)
  BY <1>1, <1>11 DEF ClientIsSound
<1>13. \A o \in ServiceOwners : ServiceIsSound(sockets, wires, o, service[o])
  BY <1>1, <1>6, <1>9
<1>14. \A c \in Clients : ClientIsSound(sockets, wires, c, client[c])
  BY <1>1, <1>10, <1>12
<1>15. (\E T : service \in [ServiceOwners -> T]) /\ (\E T : client \in [Clients -> T])
  <2>1. service \in [ServiceOwners -> {x}] /\ client \in [Clients -> {z}]
    BY <1>1, <1>6, <1>10
  <2> QED BY <2>1
<1>16. now \in 0 .. Horizon /\ moves \in 0 .. MaxMoves
  BY <1>1, PeersAssumption
<1> QED BY <1>3, <1>5, <1>13, <1>14, <1>15, <1>16 DEF NativeSafety

\* Every step of an attempt.
LEMMA ServiceStepIsSafe ==
    ASSUME NativeSafety, NEW o \in ServiceOwners, ServiceStep(o), UNCHANGED client
    PROVE  NativeSafety'
<1>1. CASE createOwnedListener(o)
  BY <1>1, CreationIsSafe
<1>2. CASE attest(o)
  BY <1>2, AttestIsSafe
<1>3. CASE observe(o)
  BY <1>3, ObserveIsSafe
<1>4. CASE accept(o)
  BY <1>4, AcceptIsSafe
<1>5. CASE identify(o)
  BY <1>5, IdentifyIsSafe
<1>6. CASE read(o)
  BY <1>6, ReadIsSafe
<1>7. CASE \E closes \in BOOLEAN : handle(o, closes)
  BY <1>7, HandleIsSafe
<1>8. CASE confirm(o)
  BY <1>8, ConfirmIsSafe
<1>9. CASE interruptible(o)
  BY <1>9, InterruptionIsSafe
<1>10. CASE writeAndShutdown(o)
  BY <1>10, AnswerIsSafe
<1>11. CASE \E closes \in BOOLEAN : closeSession(o, closes)
  BY <1>11, CloseSessionIsSafe
<1>12. CASE closeFrameSession(o)
  BY <1>12, CloseFrameSessionIsSafe
<1>13. CASE closeListener(o)
  BY <1>13, CloseListenerIsSafe
<1>14. CASE unlink(o)
  BY <1>14, UnlinkIsSafe
<1>15. CASE endBounded(o)
  BY <1>15, EndIsSafe
<1>16. /\ handle(o, TRUE) \/ handle(o, FALSE) => \E closes \in BOOLEAN : handle(o, closes)
       /\ closeSession(o, TRUE) \/ closeSession(o, FALSE) => \E closes \in BOOLEAN : closeSession(o, closes)
  OBVIOUS
<1> QED BY <1>1, <1>2, <1>3, <1>4, <1>5, <1>6, <1>7, <1>8, <1>9, <1>10, <1>11, <1>12, <1>13, <1>14, <1>15, <1>16 DEF ServiceStep

\* Every step of the listener side.
LEMMA ListenerStepIsSafe ==
    ASSUME NativeSafety, ListenerNext, UNCHANGED client
    PROVE  NativeSafety'
<1>1. ASSUME NEW o \in ServiceOwners, NEW kinds, Called(o, kinds) PROVE NativeSafety'
  BY <1>1, CalledIsSafe
<1>2. CASE \E o \in ServiceOwners :
             \/ runRecoveryOne(o) \/ runSigningOne(o) \/ runTopologyObservationOne(o)
             \/ runTopologyCarrierRootLookupOne(o) \/ runTopologyCarrierWorkerOne(o)
             \/ runTopologyCarrierWorkerServiceAuthorityApiOne(o)
  BY <1>1, <1>2 DEF runRecoveryOne, runSigningOne, runTopologyObservationOne, runTopologyCarrierRootLookupOne,
                    runTopologyCarrierWorkerOne, runTopologyCarrierWorkerServiceAuthorityApiOne
<1>3. CASE \E o \in ServiceOwners : \E g \in Grants : authorizeOne(o, g)
  BY <1>3, GrantIsSafe
<1>4. CASE \E o \in ServiceOwners : \E closes \in BOOLEAN : refuseCustody(o, closes)
  BY <1>4, RefusalIsSafe
<1>5. CASE \E o \in ServiceOwners : finalizeListener(o)
  BY <1>5, FinalizerIsSafe
<1>6. CASE \E o \in ServiceOwners : ServiceStep(o)
  BY <1>6, ServiceStepIsSafe
<1>7. CASE \E o \in ServiceOwners : operationFails(o)
  BY <1>7, FailureIsSafe
<1>8. CASE \E o \in ServiceOwners : abortAttempt(o) \/ timerFires(o)
  <2>1. PICK o \in ServiceOwners : abortAttempt(o) \/ timerFires(o)
    BY <1>8
  <2>2. Cancels(o) /\ moves' \in 0 .. MaxMoves
    BY <2>1, Disturbances DEF abortAttempt, timerFires, NativeSafety
  <2> QED BY <2>2, CancelIsSafe
<1>9. CASE timeGoesOn
  BY <1>9, TimeIsSafe
<1>10. CASE \E i \in Inodes : rename(i)
  BY <1>10, RenameIsSafe
<1>11. CASE foreignBinds
  BY <1>11, ForeignIsSafe
<1> QED BY <1>2, <1>3, <1>4, <1>5, <1>6, <1>7, <1>8, <1>9, <1>10, <1>11 DEF ListenerNext

\* Every step.
LEMMA NativeStepIsSafe == NativeSafety /\ [NativeNext]_nativeVars => NativeSafety'
<1> SUFFICES ASSUME NativeSafety, [NativeNext]_nativeVars PROVE NativeSafety'
  OBVIOUS
<1>1. CASE ListenerNext /\ UNCHANGED client
  BY <1>1, ListenerStepIsSafe
<1>2. ASSUME NEW c \in Clients,
             \/ \E i \in Inodes : lookup(c, i)
             \/ \E scope \in Scopes : connect(c, scope)
             \/ writeEnds(c) \/ readEnds(c) \/ receive(c)
             \/ exchangeFails(c) \/ finally(c) \/ closeTransport(c) \/ interrupt(c) \/ foreignReplies(c)
      PROVE  NativeSafety'
  <2>1. CASE \E i \in Inodes : lookup(c, i)
    BY <2>1, LookupIsSafe
  <2>2. CASE \E scope \in Scopes : connect(c, scope)
    BY <2>2, ConnectIsSafe
  <2>3. CASE writeEnds(c)
    BY <2>3, WriteIsSafe
  <2>4. CASE readEnds(c)
    BY <2>4, ReadEndsSafely
  <2>5. CASE receive(c)
    BY <2>5, ReceiveIsSafe
  <2>6. CASE exchangeFails(c)
    BY <2>6, ExchangeFailsSafely
  <2>7. CASE finally(c)
    BY <2>7, FinallyIsSafe
  <2>8. CASE closeTransport(c) \/ interrupt(c)
    <3>1. CloseOf(c) /\ moves' \in 0 .. MaxMoves
      BY <2>8, Disturbances DEF closeTransport, interrupt
    <3> QED BY <3>1, CloseIsSafe
  <2>9. CASE foreignReplies(c)
    BY <2>9, ForeignReplyIsSafe
  <2> QED BY <1>2, <2>1, <2>2, <2>3, <2>4, <2>5, <2>6, <2>7, <2>8, <2>9
<1>3. CASE UNCHANGED nativeVars
  BY <1>3 DEF nativeVars, listenerVars, NativeSafety
<1> QED BY <1>1, <1>2, <1>3 DEF NativeNext

\* Whatever other processes do at the path and whenever an attempt is cancelled,
\* every attempt knows its own socket and client, has checked what it must have
\* before it answers, and leaves the path as it should; every client knows who
\* answered it (service-owner.ts, listener-lifecycle.ts, local-ipc.ts).
THEOREM NativeIsSound == NativeSpec => []NativeSafety
<1> QED BY NativeStartsSound, NativeStepIsSafe, PTL DEF NativeSpec

\* Two answers of one attempt would have the same client.
LEMMA SoundAnswersAreAuthentic == NativeSafety => AnswersAreAuthentic
<1> SUFFICES ASSUME NativeSafety PROVE AnswersAreAuthentic
  OBVIOUS
<1>1. Cardinality(lstat) <= 1
  <2>1. CASE lstat = {}
    BY <2>1, FS_EmptySet
  <2>2. CASE lstat # {}
    <3>1. PICK i : i \in lstat
      BY <2>2
    <3>2. lstat = {i}
      BY <3>1 DEF lstat, Inodes, NativeSafety, SocketsAreSound, OneAtPath
    <3>3. Cardinality({i}) = 1
      BY FS_Singleton
    <3> QED BY <3>2, <3>3
  <2> QED BY <2>1, <2>2
<1>2. NativeTypes
  <2>1. \A o \in ServiceOwners : service[o].inode \in {0} \cup Inodes
    BY DEF NativeSafety, ServiceIsSound, HoldsItsOwn, Inodes
  <2>2. \A c \in DOMAIN wires : wires[c].reply \in ServiceOwners \cup {None, "foreign"}
    BY DEF NativeSafety, WiresAreSound, WireIsSound
  <2> QED BY <1>1, <2>1, <2>2 DEF NativeTypes, NativeSafety
<1>3. AnswersAreAuthorized
  <2> SUFFICES ASSUME NEW c \in DOMAIN wires, NEW o \in ServiceOwners, wires[c].reply = o
               PROVE  /\ c \in Authorized /\ wires[c].sent
                      /\ wires[c].to = service[o].inode
                      /\ \A d \in DOMAIN wires : wires[d].reply = o => d = c
                      /\ Kind(o) \in ObservationKinds => wires[c].asks = Asked[o].instance
                      /\ Kind(o) \in CarrierKinds => Carrier[o].instance = Asked[o].instance
    BY DEF AnswersAreAuthorized
  <2>1. AnswersSoundly(wires, o, service[o])
    BY AttemptIsThere DEF ServiceIsSound
  <2>2. \A d \in DOMAIN wires : wires[d].reply = o => service[o].client = d
    BY <2>1 DEF AnswersSoundly
  <2>3. /\ service[o].client = c /\ wires[c].to = service[o].inode /\ wires[c].sent = TRUE
        /\ CarrierIsOwn(o) /\ AnswerIsDue(wires, o, service[o])
    BY <2>1 DEF AnswersSoundly
  <2> QED BY <2>2, <2>3 DEF CarrierIsOwn, AnswerIsDue
<1>4. AnswersAreExpected
  BY DEF AnswersAreExpected, NativeSafety, ClientIsSound
<1> QED BY <1>2, <1>3, <1>4 DEF AnswersAreAuthentic

\* An attempt answers one client, the authorized one, over the socket it made,
\* about what it was granted for, and a client takes an answer only from the
\* process it was authorized for, for any number of attempts and clients
\* (local-ipc.ts, linux-session.ts, linux-client.ts).
THEOREM AnswersStayAuthentic == NativeSpec => []AnswersAreAuthentic
<1> QED BY NativeIsSound, SoundAnswersAreAuthentic, PTL

\* Interruption is the only way to leave a listener behind.
LEMMA SoundAttemptsLeaveNothing == NativeSafety => AttemptsLeaveNothing
<1> SUFFICES ASSUME NativeSafety PROVE AttemptsLeaveNothing
  OBVIOUS
<1>1. ASSUME NEW o \in ServiceOwners
      PROVE  LeavesSoundly(sockets, wires, o, service[o]) /\ AnswersSoundly(wires, o, service[o])
             /\ HoldsItsOwn(sockets, wires, o, service[o]) /\ service[o].ok \in BOOLEAN /\ service[o].interrupted \in BOOLEAN
  BY AttemptIsThere DEF ServiceIsSound
<1>2. SocketsAreRemoved
  <2> SUFFICES ASSUME NEW o \in ServiceOwners, service[o].pc = "ended", service[o].inode # 0, service[o].interrupted = FALSE
               PROVE  IsRemoved(o)
    BY <1>1 DEF SocketsAreRemoved
  <2>1. /\ sockets[service[o].inode].listening = FALSE
        /\ sockets[service[o].inode].place = "path" => sockets[service[o].inode].moved = TRUE
    BY <1>1 DEF LeavesSoundly
  <2>2. lstat = {service[o].inode} => sockets[service[o].inode].place = "path"
    BY DEF lstat
  <2> QED BY <2>1, <2>2 DEF IsRemoved
<1>3. SuccessIsComplete
  <2> SUFFICES ASSUME NEW o \in ServiceOwners, service[o].pc = "ended", service[o].ok = TRUE
               PROVE  /\ service[o].at < service[o].until
                      /\ \E c \in DOMAIN wires : wires[c].reply = o
                      /\ service[o].custody \in {None, "closed"}
                      /\ ~sockets[service[o].inode].listening
    BY <1>1 DEF SuccessIsComplete
  <2>1. /\ service[o].interrupted = FALSE /\ service[o].custody \in {None, "closed"}
        /\ (\E c \in DOMAIN wires : wires[c].reply = o) /\ service[o].at < service[o].until /\ service[o].inode # 0
    BY <1>1 DEF LeavesSoundly
  <2>2. sockets[service[o].inode].listening = FALSE
    BY <1>1, <2>1 DEF LeavesSoundly
  <2> QED BY <2>1, <2>2
<1>4. SignaturesFollowClosing
  BY <1>1 DEF SignaturesFollowClosing, AnswersSoundly, AnswerIsDue
<1> QED BY <1>2, <1>3, <1>4 DEF AttemptsLeaveNothing

\* However an attempt ends, its listener is closed and its path is free unless a
\* native call of a carrier was interrupted; it reports success only within its
\* grant, and a signature leaves only when its custody is closed
\* (listener-lifecycle.ts, signing-handler.ts, service-owner.ts runBounded).
THEOREM AttemptsLeaveNothingBehind == NativeSpec => []AttemptsLeaveNothing
<1> QED BY NativeIsSound, SoundAttemptsLeaveNothing, PTL
=============================================================================
