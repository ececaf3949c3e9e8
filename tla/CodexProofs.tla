------------------------ MODULE CodexProofs ------------------------
(***************************************************************************)
(* The safety of a Codex validation, for every number of sessions, runs,   *)
(* authorizations and controllers, of coordinators and recovery workers,   *)
(* and for every choice of the durations.                                  *)
(*                                                                         *)
(* AtMostOneFrame is not inductive.  What it rests on is Alone (a          *)
(* connection has at most one heartbeat, so one dispatch, so one handoff)  *)
(* and Spent (once a frame is out, whoever still holds the handoff while   *)
(* it lives has it in #used).  OneOutcome rests on what each coordinator   *)
(* and each worker knows where it waits (ExecIsSound, TurnIsSound).        *)
(***************************************************************************)
EXTENDS CodexAdmission, ProcessSession, FiniteSetTheorems, TLAPS

-----------------------------------------------------------------------------
(* CodexAdmission *)

Auth == [id : Authorizations, issuedAt : Nat, expiresAt : Nat]
Evidence == [session : Sessions, observedAt : Nat, auth : Auth]
Heartbeat == [capability : Evidence, session : Sessions, sequence : {1}, issuedAt : Nat, expiresAt : Nat]
Dispatch == [heartbeat : Heartbeat, run : Runs, observedAt : Nat, issuedAt : Nat, expiresAt : Nat, auth : Auth]
Handoff == [dispatch : Dispatch, claimedAt : Nat, expiresAt : Nat]
Frame == [handoff : Handoff, at : Nat]

\* What createCodex...Candidate guarantees of a row before its transaction.
HeartbeatIsBuilt(r) ==
    /\ r \in Heartbeat
    /\ r.capability.observedAt <= r.issuedAt
    /\ r.issuedAt < r.expiresAt
    /\ r.expiresAt <= SessionEnd

DispatchIsBuilt(r) ==
    /\ r \in Dispatch
    /\ r.heartbeat.issuedAt <= r.issuedAt
    /\ r.issuedAt < r.expiresAt

CallIsBuilt(c) ==
    /\ c.stage \in {"register", "capability"} => c.row \in Evidence
    /\ c.stage = "heartbeat" => HeartbeatIsBuilt(c.row)
    /\ c.stage = "dispatch" => DispatchIsBuilt(c.row)

\* The clock, the calls in flight and the memory of the controllers.
Shape ==
    /\ now \in 0 .. Horizon
    /\ \A c \in calls : CallIsBuilt(c)
    /\ runs \subseteq Runs
    /\ bundles \in [Controllers -> SUBSET handoffs]
    /\ used \in [Controllers -> SUBSET handoffs]
    /\ writes \in Seq(Frame)

\* The rows of each table are well formed and follow from rows of the table before.
RegistrationRow == registration = None \/ registration \in Evidence

CapabilityRows ==
    \A cap \in capabilities :
        /\ cap \in Evidence
        /\ cap.observedAt < cap.auth.expiresAt
        /\ registration # None
        /\ cap.session = registration.session
        /\ registration.observedAt <= cap.observedAt

HeartbeatRows == \A h \in heartbeats : HeartbeatIsBuilt(h) /\ h.capability \in capabilities

DispatchRows ==
    \A d \in dispatches :
        /\ DispatchIsBuilt(d)
        /\ d.heartbeat \in heartbeats
        /\ d.expiresAt <= d.heartbeat.expiresAt
        /\ d.issuedAt <= now

HandoffRows ==
    \A f \in handoffs :
        /\ f \in Handoff
        /\ f.dispatch \in dispatches
        /\ f.dispatch.issuedAt <= f.claimedAt
        /\ f.claimedAt < f.expiresAt
        /\ f.claimedAt <= now
        /\ f.expiresAt <= f.dispatch.expiresAt

Rows == RegistrationRow /\ CapabilityRows /\ HeartbeatRows /\ DispatchRows /\ HandoffRows

\* A connection has at most one heartbeat, one dispatch and one handoff.
Alone ==
    /\ \A x, y \in heartbeats : x = y
    /\ \A x, y \in dispatches : x = y
    /\ \A x, y \in handoffs : x = y

\* One controller at most holds the handoff.
OneHolder == \A k, l \in Controllers : bundles[k] # {} /\ bundles[l] # {} => k = l

\* After the frame, whoever still holds the live handoff has marked it used.
Spent ==
    /\ Len(writes) <= 1
    /\ writes # <<>> =>
         /\ handoffs # {}
         /\ \A k \in Controllers : \A h \in bundles[k] : now < h.expiresAt => h \in used[k]

Safety == Shape /\ Rows /\ Alone /\ OneHolder /\ Spent /\ WritesAreTimely /\ AuthorizationsAreSpentOnce

-----------------------------------------------------------------------------
(* Operators *)

\* Min of two numbers, as expiries are computed: one of them, and not above either.
LEMMA MinOfTwo ==
    ASSUME NEW a \in Nat, NEW b \in Nat
    PROVE  /\ Min({a, b}) \in Nat
           /\ Min({a, b}) \in {a, b}
           /\ Min({a, b}) <= a
           /\ Min({a, b}) <= b
  <1>1. CASE a <= b
    <2>1. a \in {a, b} /\ \A y \in {a, b} : a <= y
      BY <1>1
    <2> QED BY <2>1 DEF Min
  <1>2. CASE ~(a <= b)
    <2>1. b \in {a, b} /\ \A y \in {a, b} : b <= y
      BY <1>2
    <2> QED BY <2>1 DEF Min
  <1> QED BY <1>1, <1>2

\* The decision of the external authority is well formed.
LEMMA DecisionType ==
    ASSUME DurationAssumption, now \in 0 .. Horizon, NEW a \in Authorizations
    PROVE  Decision(a) \in Auth
  BY DEF DurationAssumption, Decision, Auth

-----------------------------------------------------------------------------
(* The invariant is preserved *)

\* The tables and what the proofs say of them, but for the calls.
stored == <<registration, capabilities, heartbeats, dispatches, handoffs, runs, bundles, used, writes>>

\* A step that touches only the calls keeps everything the tables say.
LEMMA CallsOnly ==
    ASSUME Safety, UNCHANGED <<now, stored>>, \A c \in calls' : CallIsBuilt(c)
    PROVE  Safety'
  <1> USE DEF Safety, stored
  <1>1. Shape'
    BY DEF Shape
  <1>2. Rows'
    BY DEF Rows, RegistrationRow, CapabilityRows, HeartbeatRows, DispatchRows, HandoffRows
  <1>3. Alone' /\ OneHolder' /\ Spent'
    BY DEF Alone, OneHolder, Spent
  <1>4. WritesAreTimely' /\ AuthorizationsAreSpentOnce'
    BY DEF WritesAreTimely, AuthorizationsAreSpentOnce
  <1> QED BY <1>1, <1>2, <1>3, <1>4

\* A call that was built and joins the others.
LEMMA CallJoins ==
    ASSUME Safety, NEW stage, NEW row, Call(stage, row), CallIsBuilt([stage |-> stage, row |-> row])
    PROVE  Safety'
  <1>1. UNCHANGED <<now, stored>>
    BY DEF Call, stored, tables
  <1>2. calls' = calls \cup {[stage |-> stage, row |-> row]}
    BY DEF Call
  <1>3. \A c \in calls' : CallIsBuilt(c)
    BY <1>2 DEF Safety, Shape
  <1> QED BY <1>1, <1>3, CallsOnly

\* Building a candidate and reading its authorization.
LEMMA RequestKeeps ==
    ASSUME DurationAssumption, Safety, Request
    PROVE  Safety'
  <1>1. PICK t \in 0 .. now :
          \/ \E s \in Sessions, a \in Authorizations : requestRegistration(s, t, a) \/ requestCapabilities(s, t, a)
          \/ \E cap \in capabilities : requestHeartbeat(cap, t)
          \/ \E h \in heartbeats, r \in Runs, a \in Authorizations : requestDispatch(h, r, t, a)
    BY DEF Request
  <1>2. t \in Nat /\ now \in Nat /\ now \in 0 .. Horizon
    BY <1>1 DEF Safety, Shape, DurationAssumption
  <1>3. CASE \E s \in Sessions, a \in Authorizations : requestRegistration(s, t, a) \/ requestCapabilities(s, t, a)
    <2>1. PICK s \in Sessions, a \in Authorizations : requestRegistration(s, t, a) \/ requestCapabilities(s, t, a)
      BY <1>3
    <2> DEFINE row == [session |-> s, observedAt |-> t, auth |-> Decision(a)]
    <2>2. row \in Evidence
      BY <1>2, DecisionType DEF Evidence
    <2> HIDE DEF row
    <2>3. CallIsBuilt([stage |-> "register", row |-> row]) /\ CallIsBuilt([stage |-> "capability", row |-> row])
      BY <2>2 DEF CallIsBuilt
    <2>4. Call("register", row) \/ Call("capability", row)
      BY <2>1 DEF row, requestRegistration, requestCapabilities
    <2> QED BY <2>3, <2>4, CallJoins
  <1>4. CASE \E cap \in capabilities : requestHeartbeat(cap, t)
    <2>1. PICK cap \in capabilities : requestHeartbeat(cap, t)
      BY <1>4
    <2> DEFINE end == Min({t + HeartbeatTTL, SessionEnd})
    <2> DEFINE row == [capability |-> cap, session |-> cap.session, sequence |-> 1, issuedAt |-> t, expiresAt |-> end]
    <2>2. end \in Nat /\ end <= SessionEnd
      BY <1>2, MinOfTwo DEF DurationAssumption
    <2>3. cap \in Evidence
      BY <2>1 DEF Safety, Rows, CapabilityRows
    <2>4. cap.observedAt <= t /\ t < row.expiresAt /\ Call("heartbeat", row)
      BY <2>1 DEF requestHeartbeat
    <2> HIDE DEF end
    <2>5. HeartbeatIsBuilt(row)
      BY <1>2, <2>2, <2>3, <2>4 DEF HeartbeatIsBuilt, Heartbeat, Evidence
    <2> HIDE DEF row
    <2>6. CallIsBuilt([stage |-> "heartbeat", row |-> row])
      BY <2>5 DEF CallIsBuilt
    <2> QED BY <2>4, <2>6, CallJoins
  <1>5. CASE \E h \in heartbeats, r \in Runs, a \in Authorizations : requestDispatch(h, r, t, a)
    <2>1. PICK h \in heartbeats, r \in Runs, a \in Authorizations : requestDispatch(h, r, t, a)
      BY <1>5
    <2> DEFINE row == [heartbeat |-> h, run |-> r, observedAt |-> t, issuedAt |-> t,
                       expiresAt |-> DispatchExpiry(h, t), auth |-> Decision(a)]
    <2>2. h \in Heartbeat
      BY <2>1 DEF Safety, Rows, HeartbeatRows, HeartbeatIsBuilt
    <2>3. h.expiresAt \in Nat /\ h.issuedAt \in Nat
      BY <2>2 DEF Heartbeat
    <2>4. DispatchExpiry(h, t) \in Nat
      <3>1. t + DispatchTTL \in Nat
        BY <1>2 DEF DurationAssumption
      <3>2. Min({t + DispatchTTL, h.expiresAt}) \in Nat
        BY <2>3, <3>1, MinOfTwo
      <3> QED BY <3>2 DEF DispatchExpiry
    <2>5. h.issuedAt <= t /\ t < DispatchExpiry(h, t) /\ Call("dispatch", row)
      BY <2>1 DEF requestDispatch
    <2>6. DispatchIsBuilt(row)
      <3>1. Decision(a) \in Auth
        BY <1>2, DecisionType
      <3> QED BY <1>2, <2>2, <2>4, <2>5, <3>1 DEF DispatchIsBuilt, Dispatch
    <2> HIDE DEF row
    <2>7. CallIsBuilt([stage |-> "dispatch", row |-> row])
      BY <2>6 DEF CallIsBuilt
    <2> QED BY <2>5, <2>7, CallJoins
  <1> QED BY <1>1, <1>3, <1>4, <1>5
\* A transaction of a stored row: the call is answered and one table grows.
LEMMA TransactionKeeps ==
    ASSUME DurationAssumption, Safety, Transaction
    PROVE  Safety'
  <1>1. PICK c \in calls :
          \/ registerCodexRuntime(c) \/ acceptCodexCapabilityExchange(c)
          \/ acceptCodexHeartbeatEvidence(c) \/ prepareCodexValidationDispatch(c) \/ callFails(c)
    BY DEF Transaction
  <1>2. calls' = calls \ {c} /\ UNCHANGED <<now, runs, bundles, used, writes, handoffs>>
    BY <1>1 DEF registerCodexRuntime, acceptCodexCapabilityExchange, acceptCodexHeartbeatEvidence,
                prepareCodexValidationDispatch, callFails, Answered, tables
  <1>3. CallIsBuilt(c) /\ \A x \in calls' : CallIsBuilt(x)
    BY <1>1, <1>2 DEF Safety, Shape
  <1>4. Shape' /\ OneHolder' /\ Spent' /\ WritesAreTimely'
    BY <1>2, <1>3 DEF Safety, Shape, OneHolder, Spent, WritesAreTimely
  <1>5. CASE callFails(c)
    BY <1>2, <1>3, <1>5, CallsOnly DEF callFails, stored, tables
  <1>6. CASE registerCodexRuntime(c)
    <2>1. registration = None /\ registration' = c.row /\ c.row \in Evidence
          /\ UNCHANGED <<capabilities, heartbeats, dispatches, handoffs>>
      BY <1>3, <1>6 DEF registerCodexRuntime, Pending, CallIsBuilt
    <2>2. Rows'
      BY <1>2, <2>1 DEF Safety, Rows, RegistrationRow, CapabilityRows, HeartbeatRows, DispatchRows, HandoffRows
    <2>3. Alone' /\ AuthorizationsAreSpentOnce'
      BY <2>1 DEF Safety, Alone, AuthorizationsAreSpentOnce
    <2> QED BY <1>4, <2>2, <2>3 DEF Safety
  <1>7. CASE acceptCodexCapabilityExchange(c)
    <2> DEFINE row == c.row
    <2>1. row \in Evidence /\ capabilities' = capabilities \cup {row}
          /\ UNCHANGED <<registration, heartbeats, dispatches, handoffs>>
      BY <1>3, <1>7 DEF acceptCodexCapabilityExchange, Pending, CallIsBuilt
    <2>2. registration # None /\ row.session = registration.session /\ registration.observedAt <= row.observedAt
      BY <1>7 DEF acceptCodexCapabilityExchange, FollowsRegistration
    <2>3. row.observedAt < row.auth.expiresAt
      <3>1. row.observedAt \in Nat /\ row.auth.issuedAt \in Nat /\ row.auth.expiresAt \in Nat
        BY <2>1 DEF Evidence, Auth
      <3>2. now \in Nat
        BY DEF Safety, Shape, DurationAssumption
      <3> QED BY <1>7, <3>1, <3>2 DEF acceptCodexCapabilityExchange, AuthorizationIsLive
    <2>4. \A r \in capabilities : r.auth.id # row.auth.id
      BY <1>7 DEF acceptCodexCapabilityExchange, UnusedAuthorization
    <2> HIDE DEF row
    <2>5. CapabilityRows'
      BY <2>1, <2>2, <2>3 DEF Safety, Rows, CapabilityRows
    <2>6. Rows'
      BY <1>2, <2>1, <2>5 DEF Safety, Rows, RegistrationRow, HeartbeatRows, DispatchRows, HandoffRows
    <2>7. Alone' /\ AuthorizationsAreSpentOnce'
      BY <2>1, <2>4 DEF Safety, Alone, AuthorizationsAreSpentOnce
    <2> QED BY <1>4, <2>6, <2>7 DEF Safety
  <1>8. CASE acceptCodexHeartbeatEvidence(c)
    <2> DEFINE row == c.row
    <2>1. HeartbeatIsBuilt(row) /\ heartbeats' = heartbeats \cup {row}
          /\ UNCHANGED <<registration, capabilities, dispatches, handoffs>>
      BY <1>3, <1>8 DEF acceptCodexHeartbeatEvidence, Pending, CallIsBuilt
    <2>2. row.capability \in capabilities
      BY <1>8 DEF acceptCodexHeartbeatEvidence, FollowsCapability
    <2>3. heartbeats = {}
      <3>1. \A h \in heartbeats : h.sequence # row.sequence
        BY <1>8 DEF acceptCodexHeartbeatEvidence, UnusedSequence
      <3> QED BY <2>1, <3>1 DEF Safety, Rows, HeartbeatRows, HeartbeatIsBuilt, Heartbeat
    <2> HIDE DEF row
    <2>4. Rows'
      BY <1>2, <2>1, <2>2 DEF Safety, Rows, RegistrationRow, CapabilityRows, HeartbeatRows, DispatchRows, HandoffRows
    <2>5. Alone' /\ AuthorizationsAreSpentOnce'
      BY <2>1, <2>3 DEF Safety, Alone, AuthorizationsAreSpentOnce
    <2> QED BY <1>4, <2>4, <2>5 DEF Safety
  <1>9. CASE prepareCodexValidationDispatch(c)
    <2> DEFINE row == c.row
    <2>1. DispatchIsBuilt(row) /\ dispatches' = dispatches \cup {row}
          /\ UNCHANGED <<registration, capabilities, heartbeats, handoffs>>
      BY <1>3, <1>9 DEF prepareCodexValidationDispatch, Pending, CallIsBuilt
    <2>2. row.heartbeat \in heartbeats /\ row.expiresAt <= row.heartbeat.expiresAt /\ row.issuedAt <= now
      BY <1>9 DEF prepareCodexValidationDispatch, FollowsHeartbeat, MessageIsFresh
    <2>3. dispatches = {}
      <3>1. \A d \in dispatches : d.heartbeat # row.heartbeat
        BY <1>9 DEF prepareCodexValidationDispatch, UnusedIdentity
      <3> QED BY <2>2, <3>1 DEF Safety, Rows, DispatchRows, Alone
    <2> HIDE DEF row
    <2>4. Rows'
      BY <1>2, <2>1, <2>2 DEF Safety, Rows, RegistrationRow, CapabilityRows, HeartbeatRows, DispatchRows, HandoffRows
    <2>5. Alone' /\ AuthorizationsAreSpentOnce'
      BY <2>1, <2>3 DEF Safety, Alone, AuthorizationsAreSpentOnce
    <2> QED BY <1>4, <2>4, <2>5 DEF Safety
  <1> QED BY <1>1, <1>5, <1>6, <1>7, <1>8, <1>9

-----------------------------------------------------------------------------
(* Egress *)

\* The row of a claim lives within its dispatch and for some time.
LEMMA HandoffIsBuilt ==
    ASSUME DurationAssumption, Safety, NEW d \in dispatches, DispatchIsLive(d)
    PROVE  /\ HandoffOf(d) \in Handoff
           /\ HandoffOf(d).dispatch = d
           /\ HandoffOf(d).claimedAt = now
           /\ now < HandoffOf(d).expiresAt
           /\ HandoffOf(d).expiresAt <= d.expiresAt
  <1>1. d \in Dispatch
    BY DEF Safety, Rows, DispatchRows, DispatchIsBuilt
  <1>2. d.expiresAt \in Nat /\ now < d.expiresAt /\ now \in Nat
    BY <1>1 DEF Dispatch, DispatchIsLive, Safety, Shape, DurationAssumption
  <1>3. now + HandoffTTL \in Nat /\ now < now + HandoffTTL
    BY <1>2 DEF DurationAssumption
  <1> DEFINE end == Min({d.expiresAt, now + HandoffTTL})
  <1>4. end \in Nat /\ now < end /\ end <= d.expiresAt
    BY <1>2, <1>3, MinOfTwo
  <1>5. HandoffOf(d) = [dispatch |-> d, claimedAt |-> now, expiresAt |-> end]
    BY DEF HandoffOf
  <1> HIDE DEF end
  <1> QED BY <1>1, <1>2, <1>4, <1>5 DEF Handoff

\* Only the first claim of a connection succeeds, so nobody holds a handoff yet.
LEMMA ClaimKeeps ==
    ASSUME DurationAssumption, Safety, NEW k \in Controllers, NEW d \in dispatches,
           claimCodexValidationEgressHandoff(d, k)
    PROVE  Safety'
  <1> DEFINE f == HandoffOf(d)
  <1>1. /\ f \in Handoff /\ f.dispatch = d /\ f.claimedAt = now
        /\ now < f.expiresAt /\ f.expiresAt <= d.expiresAt
    BY HandoffIsBuilt DEF claimCodexValidationEgressHandoff
  <1>2. /\ handoffs' = handoffs \cup {f}
        /\ bundles' = [bundles EXCEPT ![k] = @ \cup {f}] \/ bundles' = bundles
        /\ UNCHANGED <<now, registration, capabilities, heartbeats, dispatches, runs, calls, used, writes>>
    BY DEF claimCodexValidationEgressHandoff
  <1>3. handoffs = {}
    BY DEF claimCodexValidationEgressHandoff, NoHandoff, Safety, Rows, HandoffRows, Alone
  <1> HIDE DEF f
  <1>4. \A l \in Controllers : bundles[l] = {} /\ used[l] = {}
    BY <1>3 DEF Safety, Shape
  <1>5. writes = <<>>
    BY <1>3 DEF Safety, Spent
  <1>6. Shape'
    BY <1>2 DEF Safety, Shape
  <1>7. Rows'
    <2>1. RegistrationRow' /\ CapabilityRows' /\ HeartbeatRows' /\ DispatchRows'
      BY <1>2 DEF Safety, Rows, RegistrationRow, CapabilityRows, HeartbeatRows, DispatchRows
    <2>2. d.issuedAt <= now /\ now \in Nat
      BY DEF Safety, Shape, Rows, DispatchRows, DurationAssumption
    <2>3. HandoffRows'
      BY <1>1, <1>2, <1>3, <2>2 DEF HandoffRows
    <2> QED BY <2>1, <2>3 DEF Rows
  <1>8. Alone' /\ OneHolder'
    BY <1>2, <1>3, <1>4 DEF Safety, Shape, Alone, OneHolder
  <1>9. Spent' /\ WritesAreTimely' /\ AuthorizationsAreSpentOnce'
    BY <1>2, <1>5 DEF Safety, Spent, WritesAreTimely, AuthorizationsAreSpentOnce
  <1> QED BY <1>6, <1>7, <1>8, <1>9 DEF Safety

\* The frame goes out: it is the first, and its holder marks it used.
LEMMA HandoffKeeps ==
    ASSUME DurationAssumption, Safety, NEW k \in Controllers, NEW h \in bundles[k], handoff(k, h)
    PROVE  Safety'
  <1> DEFINE w == [handoff |-> h, at |-> now]
  <1>1. /\ now < h.expiresAt /\ h \notin used[k]
        /\ used' = [used EXCEPT ![k] = {u \in @ : now < u.expiresAt} \cup {h}]
        /\ writes' = Append(writes, w)
        /\ UNCHANGED <<now, registration, capabilities, heartbeats, dispatches, handoffs, runs, calls, bundles>>
    BY DEF handoff, NotUsed, tables
  <1>2. h \in handoffs /\ h \in Handoff /\ now \in Nat
    BY DEF Safety, Shape, Rows, HandoffRows, DurationAssumption
  <1>3. writes = <<>>
    BY <1>1 DEF Safety, Spent
  <1>4. w \in Frame /\ w.handoff = h /\ w.at = now
    BY <1>2 DEF Frame
  <1> HIDE DEF w
  <1>5. writes' = <<w>>
    BY <1>1, <1>3
  <1>6. Len(writes') = 1 /\ DOMAIN writes' = {1} /\ writes'[1] = w /\ writes' \in Seq(Frame)
    BY <1>4, <1>5
  <1>7. Shape'
    <2>1. used' \in [Controllers -> SUBSET handoffs]
      BY <1>1, <1>2 DEF Safety, Shape
    <2> QED BY <1>1, <1>6, <2>1 DEF Safety, Shape
  <1>8. Rows' /\ Alone' /\ OneHolder' /\ AuthorizationsAreSpentOnce'
    BY <1>1 DEF Safety, Rows, RegistrationRow, CapabilityRows, HeartbeatRows, DispatchRows, HandoffRows,
                Alone, OneHolder, AuthorizationsAreSpentOnce
  <1>9. Spent'
    <2>1. ASSUME NEW l \in Controllers, NEW g \in bundles[l]
          PROVE  g \in used'[l]
      <3>1. l = k
        BY <2>1 DEF Safety, OneHolder
      <3>2. g = h
        BY <1>2, <2>1 DEF Safety, Shape, Alone
      <3> QED BY <1>1, <3>1, <3>2 DEF Safety, Shape
    <2> QED BY <1>1, <1>2, <1>6, <2>1 DEF Spent
  <1>10. WritesAreTimely'
    <2>1. h.claimedAt <= now /\ h.dispatch \in dispatches /\ h.expiresAt <= h.dispatch.expiresAt
      BY <1>2 DEF Safety, Rows, HandoffRows
    <2>2. h.dispatch \in Dispatch /\ h.dispatch.heartbeat \in Heartbeat
          /\ h.dispatch.expiresAt <= h.dispatch.heartbeat.expiresAt
      BY <2>1 DEF Safety, Rows, DispatchRows, DispatchIsBuilt, Dispatch
    <2>3. h.claimedAt \in Nat /\ h.expiresAt \in Nat /\ h.dispatch.expiresAt \in Nat /\ h.dispatch.heartbeat.expiresAt \in Nat
      BY <1>2, <2>2 DEF Handoff, Dispatch, Heartbeat
    <2>4. now \in h.claimedAt .. h.expiresAt - 1 /\ now < h.dispatch.heartbeat.expiresAt
      BY <1>1, <1>2, <2>1, <2>2, <2>3
    <2> QED BY <1>1, <1>2, <1>4, <1>6, <2>4 DEF WritesAreTimely
  <1> QED BY <1>7, <1>8, <1>9, <1>10 DEF Safety

\* A restart forgets the bundles together with what was used.
LEMMA RestartKeeps ==
    ASSUME Safety, NEW k \in Controllers, restart(k)
    PROVE  Safety'
  <1>1. /\ bundles' = [bundles EXCEPT ![k] = {}] /\ used' = [used EXCEPT ![k] = {}]
        /\ UNCHANGED <<now, registration, capabilities, heartbeats, dispatches, handoffs, runs, calls, writes>>
    BY DEF restart, tables
  <1>2. Shape' /\ OneHolder' /\ Spent'
    BY <1>1 DEF Safety, Shape, OneHolder, Spent
  <1>3. Rows' /\ Alone' /\ WritesAreTimely' /\ AuthorizationsAreSpentOnce'
    BY <1>1 DEF Safety, Rows, RegistrationRow, CapabilityRows, HeartbeatRows, DispatchRows, HandoffRows,
                Alone, WritesAreTimely, AuthorizationsAreSpentOnce
  <1> QED BY <1>2, <1>3 DEF Safety

\* Time only shortens what is live; a run that moves changes no evidence.
LEMMA EnvironmentKeeps ==
    ASSUME DurationAssumption, Safety, timePasses \/ \E r \in Runs : runMoves(r)
    PROVE  Safety'
  <1>1. /\ now' \in 0 .. Horizon /\ now <= now' /\ now \in Nat /\ now' \in Nat
        /\ runs' \subseteq Runs
        /\ UNCHANGED <<registration, capabilities, heartbeats, dispatches, handoffs, calls, bundles, used, writes>>
    BY DEF timePasses, runMoves, tables, Safety, Shape, DurationAssumption
  <1>2. Shape' /\ Alone' /\ OneHolder' /\ WritesAreTimely' /\ AuthorizationsAreSpentOnce'
    BY <1>1 DEF Safety, Shape, Alone, OneHolder, WritesAreTimely, AuthorizationsAreSpentOnce
  <1>3. DispatchRows'
    <2>1. \A d \in dispatches : d.issuedAt \in Nat
      BY DEF Safety, Rows, DispatchRows, DispatchIsBuilt, Dispatch
    <2> QED BY <1>1, <2>1 DEF Safety, Rows, DispatchRows
  <1>4. \A f \in handoffs : f.claimedAt \in Nat /\ f.expiresAt \in Nat
    BY DEF Safety, Rows, HandoffRows, Handoff
  <1>5. HandoffRows'
    BY <1>1, <1>4 DEF Safety, Rows, HandoffRows
  <1>6. Rows'
    BY <1>1, <1>3, <1>5 DEF Safety, Rows, RegistrationRow, CapabilityRows, HeartbeatRows
  <1>7. Spent'
    BY <1>1, <1>4 DEF Safety, Shape, Spent
  <1> QED BY <1>2, <1>6, <1>7 DEF Safety

-----------------------------------------------------------------------------

\* The inductive invariant of the admission.
THEOREM AdmissionSafety ==
    ASSUME DurationAssumption
    PROVE  AdmissionSpec => []Safety
  <1>1. AdmissionInit => Safety
    BY DEF AdmissionInit, Safety, Shape, Rows, RegistrationRow, CapabilityRows, HeartbeatRows, DispatchRows, HandoffRows,
           Alone, OneHolder, Spent, WritesAreTimely, AuthorizationsAreSpentOnce, DurationAssumption
  <1>2. Safety /\ [AdmissionNext]_admissionVars => Safety'
    <2> SUFFICES ASSUME Safety, [AdmissionNext]_admissionVars PROVE Safety'
      OBVIOUS
    <2>1. CASE Request
      BY <2>1, RequestKeeps
    <2>2. CASE Transaction
      BY <2>2, TransactionKeeps
    <2>3. CASE Egress
      BY <2>3, ClaimKeeps, HandoffKeeps, RestartKeeps DEF Egress
    <2>4. CASE timePasses \/ \E r \in Runs : runMoves(r)
      BY <2>4, EnvironmentKeeps
    <2>5. CASE UNCHANGED admissionVars
      <3>1. UNCHANGED <<now, stored>> /\ calls' = calls
        BY <2>5 DEF admissionVars, stored
      <3>2. \A c \in calls' : CallIsBuilt(c)
        BY <3>1 DEF Safety, Shape
      <3> QED BY <3>1, <3>2, CallsOnly
    <2> QED BY <2>1, <2>2, <2>3, <2>4, <2>5 DEF AdmissionNext
  <1> QED BY <1>1, <1>2, PTL DEF AdmissionSpec

\* The tables, the calls and the controllers keep their types.
THEOREM AdmissionTypes ==
    ASSUME DurationAssumption
    PROVE  AdmissionSpec => []AdmissionTypeOK
  <1>1. Safety => AdmissionTypeOK
    <2> SUFFICES ASSUME Safety PROVE AdmissionTypeOK
      OBVIOUS
    <2>1. \A r \in capabilities : r.session \in Sessions /\ r.auth.id \in Authorizations /\ r.observedAt < r.auth.expiresAt
      BY DEF Safety, Rows, CapabilityRows, Evidence, Auth
    <2>2. \A h \in heartbeats : h.sequence = 1 /\ h.issuedAt < h.expiresAt
      BY DEF Safety, Rows, HeartbeatRows, HeartbeatIsBuilt, Heartbeat
    <2>3. \A d \in dispatches : d.run \in Runs /\ d.issuedAt < d.expiresAt
      BY DEF Safety, Rows, DispatchRows, DispatchIsBuilt, Dispatch
    <2>4. \A h \in handoffs : h.claimedAt < h.expiresAt
      BY DEF Safety, Rows, HandoffRows
    <2> QED BY <2>1, <2>2, <2>3, <2>4 DEF Safety, Shape, AdmissionTypeOK
  <1> QED BY <1>1, AdmissionSafety, PTL

\* The challenge reaches the runtime at most once (BoundedCodexValidationEgressController),
\* through lost answers, second callers and restarts, while its handoff, dispatch and
\* heartbeat live; its handoff rests on an unbroken chain of evidence of one session
\* (registerCodexRuntime to claimCodexValidationEgressHandoff), and each external decision
\* is spent once in each step.
THEOREM AtMostOneFrameIsWritten ==
    ASSUME DurationAssumption
    PROVE  AdmissionSpec => []AtMostOneFrame
  <1>1. Safety => Len(writes) <= 1
    BY DEF Safety, Spent
  <1>2. Safety => ChainIsExact
    BY DEF Safety, Rows, CapabilityRows, HeartbeatRows, HeartbeatIsBuilt, DispatchRows, DispatchIsBuilt,
           HandoffRows, ChainIsExact
  <1>3. Safety => AtMostOneFrame
    BY <1>1, <1>2 DEF Safety, AtMostOneFrame
  <1> QED BY <1>3, AdmissionSafety, PTL

-----------------------------------------------------------------------------
(* ProcessSession *)

ProcessRow == [openedAt : Nat, exitedAt : Nat \cup {None}]
Lease == [owner : Workers, claimedAt : Nat, expiresAt : Nat]

\* Process p has exited, at t.
Exited(p, t) == p \in DOMAIN processes /\ processes[p].exitedAt # None /\ processes[p].exitedAt = t

ProcessesAreSound ==
    /\ processes \in Seq(ProcessRow)
    /\ \A p \in DOMAIN processes :
         processes[p].openedAt <= now /\ (processes[p].exitedAt # None => processes[p].openedAt <= processes[p].exitedAt /\ processes[p].exitedAt <= now)

\* What a coordinator may rely on where it waits.
ExecIsSound(e) ==
    /\ e.pc = "claiming" => e.since \in Nat
    /\ e.pc \in {"running", "closing"} => e.process \in DOMAIN processes
    /\ e.pc = "closing" => e.reason \in Reasons \cup {"FAILED"}
    /\ e.pc \in {"claimed", "running", "closing", "completing"} => claim # None
    /\ e.pc = "completing" => e.reason \in Reasons /\ Exited(e.process, e.closedAt)
    /\ e.pc = "completed" => /\ completion # None /\ completion.reason = e.reason
                             /\ Exited(e.process, processes[e.process].exitedAt)

\* What a recovery worker may rely on where it waits.
TurnIsSound(r) ==
    /\ r.pc = "leasing" => r.since \in Nat
    /\ r.pc \in {"leased", "observed"} => r.generation \in DOMAIN leases /\ claim # None
    /\ r.pc = "observed" => /\ r.exitedAt \in claim.claimedAt .. HandoffEnd
                            /\ \E p \in DOMAIN processes : Exited(p, r.exitedAt)

Callers ==
    /\ DOMAIN exec = Coordinators /\ \A c \in Coordinators : ExecIsSound(exec[c])
    /\ DOMAIN recovery = Workers /\ \A w \in Workers : TurnIsSound(recovery[w])

\* What the tables and the messages hold.
ClaimIsSound ==
    /\ claim = None \/ claim \in ClaimRow
    /\ completion # None => claim # None /\ \E p \in DOMAIN processes : Exited(p, completion.closedAt)

OutcomesAreSound ==
    /\ outcomes = {} \/ \E m \in messages : outcomes = {m}
    /\ \A m \in messages : m.process \in DOMAIN processes

Records ==
    /\ ClaimIsSound /\ leases \in Seq(Lease) /\ OutcomesAreSound
    /\ MessagesAgree /\ CompletionIsAnExit /\ LeasesAreDisjoint /\ CompletionRespectsLeases

SessionSafety == now \in Nat /\ ProcessesAreSound /\ Callers /\ Records

\* Claims, completions and exits are final; processes and leases are never taken back.
Grows ==
    /\ claim # None => claim' = claim
    /\ completion # None => completion' = completion
    /\ DOMAIN leases \subseteq DOMAIN leases'
    /\ DOMAIN processes \subseteq DOMAIN processes'
    /\ \A p \in DOMAIN processes : processes[p].exitedAt # None => processes'[p] = processes[p]

\* What has been learned stays true.
LEMMA KnowledgeStays ==
    ASSUME Grows
    PROVE  /\ \A e : ExecIsSound(e) => ExecIsSound(e)'
           /\ \A r : TurnIsSound(r) => TurnIsSound(r)'
  <1>1. \A p, t : Exited(p, t) => Exited(p, t)'
    BY DEF Grows, Exited
  <1>2. ASSUME NEW e, ExecIsSound(e) PROVE ExecIsSound(e)'
    <2>1. e.pc = "completed" => Exited(e.process, processes[e.process].exitedAt)'
      BY <1>2 DEF ExecIsSound, Exited, Grows
    <2> QED BY <1>1, <1>2, <2>1 DEF ExecIsSound, Grows
  <1>3. ASSUME NEW r, TurnIsSound(r) PROVE TurnIsSound(r)'
    <2>1. r.pc = "observed" => \E p \in DOMAIN processes' : Exited(p, r.exitedAt)'
      <3> SUFFICES ASSUME r.pc = "observed" PROVE \E p \in DOMAIN processes' : Exited(p, r.exitedAt)'
        OBVIOUS
      <3>1. PICK p \in DOMAIN processes : Exited(p, r.exitedAt)
        BY <1>3 DEF TurnIsSound
      <3>2. p \in DOMAIN processes' /\ Exited(p, r.exitedAt)'
        BY <1>1, <3>1 DEF Grows
      <3> QED BY <3>2
    <2> QED BY <1>3, <2>1 DEF TurnIsSound, Grows
  <1> QED BY <1>2, <1>3

\* A step of one coordinator, or of none.
LEMMA ExecKeeps ==
    ASSUME SessionSafety, Grows, NEW c, NEW s,
           exec' = exec \/ (exec' = Step(c, s) /\ ExecIsSound(s)'),
           recovery' = recovery
    PROVE  Callers'
  <1>1. DOMAIN exec' = Coordinators /\ DOMAIN recovery' = Workers
    BY DEF SessionSafety, Callers, Step
  <1>2. ASSUME NEW k \in Coordinators PROVE ExecIsSound(exec[k])'
    <2>1. ExecIsSound(exec[k])
      BY <1>2 DEF SessionSafety, Callers
    <2>2. CASE exec'[k] = exec[k]
      <3>1. PICK e : e = exec[k]
        OBVIOUS
      <3>2. ExecIsSound(e)'
        BY <2>1, <3>1, KnowledgeStays
      <3> QED BY <2>2, <3>1, <3>2 DEF ExecIsSound, Exited
    <2>3. CASE exec'[k] = s /\ ExecIsSound(s)'
      BY <2>3 DEF ExecIsSound, Exited
    <2> QED BY <1>2, <2>2, <2>3 DEF Step, SessionSafety, Callers
  <1>3. ASSUME NEW w \in Workers PROVE TurnIsSound(recovery[w])'
    <2>1. PICK r : r = recovery[w]
      OBVIOUS
    <2>2. TurnIsSound(r)'
      BY <1>3, <2>1, KnowledgeStays DEF SessionSafety, Callers
    <2> QED BY <2>1, <2>2 DEF TurnIsSound, Exited
  <1> QED BY <1>1, <1>2, <1>3 DEF Callers

\* A step of one worker.
LEMMA TurnKeeps ==
    ASSUME SessionSafety, Grows, NEW w, NEW s, recovery' = Turn(w, s), TurnIsSound(s)', exec' = exec
    PROVE  Callers'
  <1>1. DOMAIN exec' = Coordinators /\ DOMAIN recovery' = Workers
    BY DEF SessionSafety, Callers, Turn
  <1>2. ASSUME NEW k \in Workers PROVE TurnIsSound(recovery[k])'
    <2>1. TurnIsSound(recovery[k])
      BY <1>2 DEF SessionSafety, Callers
    <2>2. CASE recovery'[k] = recovery[k]
      <3>1. PICK e : e = recovery[k]
        OBVIOUS
      <3>2. TurnIsSound(e)'
        BY <2>1, <3>1, KnowledgeStays
      <3> QED BY <2>2, <3>1, <3>2 DEF TurnIsSound, Exited
    <2>3. CASE recovery'[k] = s
      BY <2>3 DEF TurnIsSound, Exited
    <2> QED BY <1>2, <2>2, <2>3 DEF Turn, SessionSafety, Callers
  <1>3. ASSUME NEW c \in Coordinators PROVE ExecIsSound(exec[c])'
    <2>1. PICK e : e = exec[c]
      OBVIOUS
    <2>2. ExecIsSound(e)'
      BY <1>3, <2>1, KnowledgeStays DEF SessionSafety, Callers
    <2> QED BY <2>1, <2>2 DEF ExecIsSound, Exited
  <1> QED BY <1>1, <1>2, <1>3 DEF Callers

\* What is stored stays right when processes start and exit.
LEMMA RecordsStay ==
    ASSUME SessionSafety, Grows, UNCHANGED <<durable, messages>>
    PROVE  Records'
  <1>1. UNCHANGED <<claim, completion, leases, outcomes, messages>>
    BY DEF durable
  <1>2. \A m \in messages : m.process \in DOMAIN processes'
                           /\ processes'[m.process].exitedAt = processes[m.process].exitedAt
    BY DEF SessionSafety, Records, OutcomesAreSound, MessagesAgree, Grows
  <1>3. (leases \in Seq(Lease))' /\ OutcomesAreSound'
    BY <1>1, <1>2 DEF SessionSafety, Records, OutcomesAreSound
  <1>4. MessagesAgree'
    BY <1>1, <1>2 DEF SessionSafety, Records, MessagesAgree
  <1>5. LeasesAreDisjoint' /\ CompletionRespectsLeases'
    BY <1>1 DEF SessionSafety, Records, LeasesAreDisjoint, CompletionRespectsLeases
  <1>6. ClaimIsSound'
    BY <1>1 DEF SessionSafety, Records, ClaimIsSound, Exited, Grows
  <1>7. CompletionIsAnExit'
    BY <1>1, <1>6 DEF SessionSafety, Records, ClaimIsSound, Exited, CompletionIsAnExit
  <1> QED BY <1>1, <1>3, <1>4, <1>5, <1>6, <1>7 DEF Records

\* Steps of a coordinator that store nothing.
LEMMA QuietStepKeeps ==
    ASSUME WindowAssumption, SessionSafety, NEW c \in Coordinators,
           \/ execute(c) \/ open(c) \/ close(c) \/ executeFails(c) \/ crash(c) \/ usedExpires(c)
           \/ \E reason \in Reasons \cup {"FAILED"} : run(c, reason)
    PROVE  SessionSafety'
  <1> USE DEF SessionSafety
  <1>1. UNCHANGED <<now, durable, messages, recovery>>
    BY DEF execute, open, close, executeFails, crash, usedExpires, run
  <1>2. UNCHANGED <<claim, completion, leases>>
    BY <1>1 DEF durable
  <1>3. ExecIsSound(exec[c])
    BY DEF Callers
  <1>4. ASSUME NEW s, ExecIsSound(s)', exec' = exec \/ exec' = Step(c, s), UNCHANGED processes
        PROVE  SessionSafety'
    <2>1. Grows
      BY <1>2, <1>4 DEF Grows
    <2>2. Callers' /\ Records'
      BY <1>1, <1>4, <2>1, ExecKeeps, RecordsStay
    <2>3. ProcessesAreSound'
      BY <1>1, <1>4 DEF ProcessesAreSound
    <2> QED BY <1>1, <2>2, <2>3
  <1>5. ExecIsSound(Idle)'
    BY DEF ExecIsSound, Idle
  <1>6. CASE execute(c)
    <2>1. PICK s : s = [pc |-> "claiming", since |-> now]
      OBVIOUS
    <2>2. ExecIsSound(s)'
      BY <2>1 DEF ExecIsSound
    <2>3. exec' = Step(c, s) /\ UNCHANGED processes
      BY <1>6, <2>1 DEF execute
    <2> QED BY <1>4, <2>2, <2>3
  <1>7. CASE executeFails(c) \/ crash(c) \/ usedExpires(c)
    <2>1. PICK s : s = Idle
      OBVIOUS
    <2>2. ExecIsSound(s)'
      BY <1>5, <2>1 DEF ExecIsSound, Exited
    <2>3. exec' = exec \/ exec' = Step(c, s)
      BY <1>7, <2>1 DEF executeFails, crash, usedExpires
    <2>4. UNCHANGED processes
      BY <1>7 DEF executeFails, crash, usedExpires
    <2> QED BY <1>4, <2>2, <2>3, <2>4
  <1>8. CASE \E reason \in Reasons \cup {"FAILED"} : run(c, reason)
    <2>1. PICK reason \in Reasons \cup {"FAILED"} : run(c, reason)
      BY <1>8
    <2>2. PICK s : s = [pc |-> "closing", process |-> exec[c].process, reason |-> reason]
      OBVIOUS
    <2>3. exec' = Step(c, s) /\ UNCHANGED processes /\ exec[c].pc = "running"
      BY <2>1, <2>2 DEF run
    <2>4. ExecIsSound(s)'
      BY <1>2, <1>3, <2>2, <2>3 DEF ExecIsSound
    <2> QED BY <1>4, <2>3, <2>4
  <1>9. CASE close(c)
    <2>1. PICK t \in CloseResults(exec[c].process) : exec' = Step(c, CleanupEvidence(exec[c], t))
      BY <1>9 DEF close
    <2>2. PICK s : s = CleanupEvidence(exec[c], t)
      OBVIOUS
    <2>3. UNCHANGED processes /\ exec[c].pc = "closing" /\ exec[c].reason # "FAILED"
      BY <1>9 DEF close
    <2>4. Exited(exec[c].process, t)
      BY <1>3, <2>1, <2>3 DEF CloseResults, Exited, ExecIsSound
    <2>5. /\ s.pc = "completing" /\ s.process = exec[c].process
          /\ s.reason = exec[c].reason /\ s.closedAt = t
      BY <2>2 DEF CleanupEvidence
    <2>6. ExecIsSound(s)'
      BY <1>2, <1>3, <2>3, <2>4, <2>5 DEF ExecIsSound, Exited
    <2>7. exec' = Step(c, s)
      BY <2>1, <2>2
    <2> QED BY <1>4, <2>3, <2>6, <2>7
  <1>10. CASE open(c)
    <2>1. PICK row : row = [openedAt |-> now, exitedAt |-> None]
      OBVIOUS
    <2>2. processes' = Append(processes, row) /\ processes \in Seq(ProcessRow) /\ row \in ProcessRow
      BY <1>10, <2>1 DEF open, ProcessesAreSound, ProcessRow
    <2>3. /\ processes' \in Seq(ProcessRow)
          /\ Len(processes) \in Nat
          /\ DOMAIN processes = 1 .. Len(processes)
          /\ DOMAIN processes' = 1 .. Len(processes) + 1
          /\ \A p \in DOMAIN processes : processes'[p] = processes[p]
          /\ processes'[Len(processes) + 1] = row
      BY <2>2
    <2>4. Grows
      BY <1>2, <2>3 DEF Grows
    <2>5. ProcessesAreSound'
      <3>1. \A p \in DOMAIN processes' : p \in DOMAIN processes \/ p = Len(processes) + 1
        BY <2>3
      <3>2. row.openedAt = now /\ row.exitedAt = None
        BY <2>1
      <3> QED BY <1>1, <2>3, <3>1, <3>2 DEF ProcessesAreSound
    <2>6. PICK s : s = [pc |-> "running", process |-> Len(processes) + 1]
      OBVIOUS
    <2>7. exec[c].pc = "claimed" /\ (exec' = Step(c, s) \/ exec' = Step(c, Idle))
      BY <1>10, <2>6 DEF open
    <2>8. ExecIsSound(s)'
      BY <1>2, <1>3, <2>3, <2>6, <2>7 DEF ExecIsSound
    <2>9. Callers'
      <3>1. CASE exec' = Step(c, s)
        BY <1>1, <2>4, <2>8, <3>1, ExecKeeps
      <3>2. CASE exec' = Step(c, Idle)
        <4>1. PICK i : i = Idle
          OBVIOUS
        <4>2. ExecIsSound(i)' /\ exec' = Step(c, i)
          BY <1>5, <3>2, <4>1 DEF ExecIsSound, Exited
        <4> QED BY <1>1, <2>4, <4>2, ExecKeeps
      <3> QED BY <2>7, <3>1, <3>2
    <2> QED BY <1>1, <2>4, <2>5, <2>9, RecordsStay
  <1> QED BY <1>6, <1>7, <1>8, <1>9, <1>10

\* claimProcessSession: the first call stores the claim, later ones find it.
LEMMA ClaimSessionKeeps ==
    ASSUME WindowAssumption, SessionSafety, NEW c \in Coordinators, claimProcessSession(c)
    PROVE  SessionSafety'
  <1>1. PICK row : row = [claimedAt |-> exec[c].since]
    OBVIOUS
  <1>2. PICK s : s = [pc |-> "claimed"]
    OBVIOUS
  <1>3. /\ claim' = IF claim = None THEN row ELSE claim
        /\ exec' = Step(c, s) /\ exec[c].pc = "claiming"
        /\ UNCHANGED <<now, completion, leases, outcomes, processes, messages, recovery>>
    BY <1>1, <1>2 DEF claimProcessSession
  <1>4. row \in ClaimRow
    <2>1. exec[c].since \in Nat
      BY <1>3 DEF SessionSafety, Callers, ExecIsSound
    <2> QED BY <1>1, <2>1 DEF ClaimRow
  <1>5. claim' # None /\ claim' \in ClaimRow
    BY <1>3, <1>4 DEF WindowAssumption, SessionSafety, Records, ClaimIsSound
  <1>6. Grows
    BY <1>3 DEF Grows
  <1>7. ExecIsSound(s)'
    BY <1>2, <1>5 DEF ExecIsSound
  <1>8. Callers'
    BY <1>3, <1>6, <1>7, ExecKeeps
  <1>9. Records'
    <2>1. completion # None => claim' = claim
      BY <1>6 DEF SessionSafety, Records, ClaimIsSound, Grows
    <2>2. ClaimIsSound' /\ CompletionIsAnExit'
      BY <1>3, <1>5, <2>1 DEF SessionSafety, Records, ClaimIsSound, CompletionIsAnExit, Exited
    <2>3. OutcomesAreSound' /\ MessagesAgree' /\ LeasesAreDisjoint' /\ CompletionRespectsLeases'
      BY <1>3 DEF SessionSafety, Records, OutcomesAreSound, MessagesAgree, LeasesAreDisjoint, CompletionRespectsLeases
    <2> QED BY <1>3, <2>2, <2>3 DEF SessionSafety, Records
  <1> QED BY <1>3, <1>8, <1>9 DEF SessionSafety, ProcessesAreSound

\* The first completion of a session, whoever records it.
LEMMA CompletionKeeps ==
    ASSUME WindowAssumption, SessionSafety, completion = None, NEW row,
           completion' = row, row \in CompletionRow, claim # None,
           row.closedAt \in claim.claimedAt .. HandoffEnd,
           \E p \in DOMAIN processes : Exited(p, row.closedAt),
           row.by = "owner" => \A g \in DOMAIN leases : leases[g].expiresAt <= row.at,
           row.by # "owner" => \E g \in DOMAIN leases : leases[g].claimedAt <= row.at /\ row.at < leases[g].expiresAt,
           UNCHANGED <<now, claim, leases, outcomes, processes, messages>>
    PROVE  Records' /\ Grows /\ completion' # None
  <1>1. completion' # None
    BY DEF WindowAssumption
  <1>2. Grows
    BY DEF Grows
  <1>3. ClaimIsSound' /\ CompletionIsAnExit'
    BY DEF SessionSafety, Records, ClaimIsSound, CompletionIsAnExit, Exited
  <1>4. messages = {}
    BY DEF SessionSafety, Records, MessagesAgree
  <1>5. OutcomesAreSound' /\ MessagesAgree' /\ LeasesAreDisjoint'
    BY <1>4 DEF SessionSafety, Records, OutcomesAreSound, MessagesAgree, LeasesAreDisjoint
  <1>6. row.at \in Nat /\ \A g \in DOMAIN leases : leases[g].claimedAt \in Nat /\ leases[g].expiresAt \in Nat
    <2>1. \A g \in DOMAIN leases : leases[g] \in Lease
      BY DEF SessionSafety, Records
    <2> QED BY <2>1 DEF CompletionRow, Lease
  <1>7. \A g \in DOMAIN leases : row.at \in leases[g].claimedAt .. leases[g].expiresAt - 1
                                <=> leases[g].claimedAt <= row.at /\ row.at < leases[g].expiresAt
    BY <1>6
  <1>8. CompletionRespectsLeases'
    <2>1. CASE row.by = "owner"
      BY <1>6, <1>7, <2>1 DEF CompletionRespectsLeases
    <2>2. CASE row.by # "owner"
      BY <1>7, <2>2 DEF CompletionRespectsLeases
    <2> QED BY <2>1, <2>2
  <1> QED BY <1>1, <1>2, <1>3, <1>5, <1>8 DEF SessionSafety, Records

\* completeProcessSession of the owner.
LEMMA OwnerCompletionKeeps ==
    ASSUME WindowAssumption, SessionSafety, NEW c \in Coordinators, completeProcessSession(c)
    PROVE  SessionSafety'
  <1>1. PICK e : e = exec[c]
    OBVIOUS
  <1>2. PICK s : s = [pc |-> "completed", process |-> e.process, reason |-> e.reason]
    OBVIOUS
  <1>3. PICK row : row = OwnerCompletion(e)
    OBVIOUS
  <1>4. /\ e.pc = "completing"
        /\ e.closedAt \in claim.claimedAt .. HandoffEnd
        /\ \A g \in DOMAIN leases : leases[g].expiresAt <= now
        /\ completion # None => completion.reason = e.reason
        /\ completion' = IF completion = None THEN row ELSE completion
        /\ exec' = Step(c, s)
        /\ UNCHANGED <<now, claim, leases, outcomes, processes, messages, recovery>>
    BY <1>1, <1>2, <1>3 DEF completeProcessSession, ClosedWithinClaim, NoActiveLease, SameEvidence
  <1>5. /\ e.reason \in Reasons /\ claim # None
        /\ Exited(e.process, e.closedAt)
    BY <1>1, <1>4 DEF SessionSafety, Callers, ExecIsSound
  <1>6. e.process \in DOMAIN processes /\ e.closedAt \in Nat
    <2>1. e.process \in DOMAIN processes /\ processes[e.process].exitedAt # None /\ processes[e.process].exitedAt = e.closedAt
      BY <1>5 DEF Exited
    <2>2. processes[e.process] \in ProcessRow
      BY <2>1 DEF SessionSafety, ProcessesAreSound
    <2> QED BY <2>1, <2>2 DEF ProcessRow
  <1>7. row \in CompletionRow /\ row.closedAt = e.closedAt /\ row.at = now /\ row.by = "owner" /\ row.reason = e.reason
    BY <1>3, <1>5, <1>6 DEF OwnerCompletion, CompletionRow, SessionSafety
  <1>8. Records' /\ Grows /\ completion' # None /\ completion'.reason = e.reason
    <2>1. CASE completion = None
      <3>1. completion' = row
        BY <1>4, <2>1
      <3> QED BY <1>4, <1>5, <1>6, <1>7, <2>1, <3>1, CompletionKeeps
    <2>2. CASE completion # None
      <3>1. UNCHANGED <<claim, completion, leases, outcomes, messages, processes>>
        BY <1>4, <2>2
      <3>2. Grows
        BY <3>1 DEF Grows
      <3>3. Records'
        BY <3>1, <3>2, RecordsStay DEF durable
      <3> QED BY <1>4, <2>2, <3>1, <3>2, <3>3
    <2> QED BY <2>1, <2>2
  <1>9. ExecIsSound(s)'
    BY <1>2, <1>4, <1>5, <1>8 DEF ExecIsSound, Exited
  <1>10. Callers'
    BY <1>4, <1>8, <1>9, ExecKeeps
  <1> QED BY <1>4, <1>8, <1>10 DEF SessionSafety, ProcessesAreSound

\* The adapter signs what the completion says of a process that has exited.
LEMMA EmitKeeps ==
    ASSUME SessionSafety, NEW c \in Coordinators, emitTerminal(c)
    PROVE  SessionSafety'
  <1>1. PICK e : e = exec[c]
    OBVIOUS
  <1>2. PICK m : m = TerminalMessage(e)
    OBVIOUS
  <1>3. PICK s : s = Idle
    OBVIOUS
  <1>4. /\ e.pc = "completed" /\ messages' = messages \cup {m} /\ exec' = Step(c, s)
        /\ UNCHANGED <<now, claim, completion, leases, outcomes, processes, recovery>>
    BY <1>1, <1>2, <1>3 DEF emitTerminal, durable
  <1>5. Grows
    BY <1>4 DEF Grows
  <1>6. ExecIsSound(s)'
    BY <1>3 DEF ExecIsSound, Idle
  <1>7. Callers'
    BY <1>4, <1>5, <1>6, ExecKeeps
  <1>8. /\ completion # None /\ completion.reason = e.reason
        /\ Exited(e.process, processes[e.process].exitedAt)
    BY <1>1, <1>4 DEF SessionSafety, Callers, ExecIsSound
  <1>9. m.reason = e.reason /\ m.process = e.process /\ m.issuedAt = now
    BY <1>2 DEF TerminalMessage
  <1>10. processes[m.process].exitedAt <= m.issuedAt
    BY <1>8, <1>9 DEF Exited, SessionSafety, ProcessesAreSound
  <1>11. MessagesAgree' /\ OutcomesAreSound'
    BY <1>4, <1>8, <1>9, <1>10 DEF SessionSafety, Records, MessagesAgree, OutcomesAreSound, Exited
  <1>12. Records'
    BY <1>4, <1>11 DEF SessionSafety, Records, ClaimIsSound, CompletionIsAnExit, LeasesAreDisjoint, CompletionRespectsLeases, Exited
  <1> QED BY <1>4, <1>7, <1>12 DEF SessionSafety, ProcessesAreSound

\* The first evidence of an outcome closes the door to every other.
LEMMA AcceptKeeps ==
    ASSUME SessionSafety, NEW m \in messages, acceptRoundTripEvidence(m) \/ acceptCancellationEvidence(m)
    PROVE  SessionSafety'
  <1>1. /\ outcomes = {} /\ outcomes' = outcomes \cup {m}
        /\ UNCHANGED <<now, claim, completion, leases, processes, exec, messages, recovery>>
    BY DEF acceptRoundTripEvidence, acceptCancellationEvidence, Acceptable, NoOutcome
  <1>2. Grows
    BY <1>1 DEF Grows
  <1>3. Callers'
    BY <1>1, <1>2, ExecKeeps
  <1>4. outcomes' = {m}
    BY <1>1
  <1>5. Records'
    BY <1>1, <1>4 DEF SessionSafety, Records, ClaimIsSound, OutcomesAreSound, MessagesAgree, CompletionIsAnExit,
                      LeasesAreDisjoint, CompletionRespectsLeases, Exited
  <1> QED BY <1>1, <1>3, <1>5 DEF SessionSafety, ProcessesAreSound

\* Steps of a worker that store nothing.
LEMMA QuietTurnKeeps ==
    ASSUME SessionSafety, NEW w \in Workers,
           \/ executeRecoveryPage(w) \/ replayRecoveryLease(w) \/ observeRecoveryExit(w) \/ recoveryFails(w)
    PROVE  SessionSafety'
  <1>1. UNCHANGED <<now, durable, processes, exec, messages>>
    BY DEF executeRecoveryPage, replayRecoveryLease, observeRecoveryExit, recoveryFails
  <1>2. UNCHANGED <<claim, completion, leases>>
    BY <1>1 DEF durable
  <1>3. Grows
    BY <1>1, <1>2 DEF Grows
  <1>4. TurnIsSound(recovery[w])
    BY DEF SessionSafety, Callers
  <1>5. \E s : recovery' = Turn(w, s) /\ TurnIsSound(s)'
    <2>1. CASE executeRecoveryPage(w)
      <3>1. PICK s : s = [pc |-> "leasing", since |-> now]
        OBVIOUS
      <3>2. recovery' = Turn(w, s) /\ TurnIsSound(s)'
        BY <2>1, <3>1 DEF executeRecoveryPage, TurnIsSound, SessionSafety
      <3> QED BY <3>2
    <2>2. CASE replayRecoveryLease(w)
      <3>1. PICK g \in DOMAIN leases : recovery' = WorkItem(w, g)
        BY <2>2 DEF replayRecoveryLease
      <3>2. PICK s : s = [pc |-> "leased", generation |-> g]
        OBVIOUS
      <3>3. claim # None
        BY <2>2 DEF replayRecoveryLease, RecoveryAuthority
      <3>4. recovery' = Turn(w, s) /\ TurnIsSound(s)'
        BY <1>2, <3>1, <3>2, <3>3 DEF WorkItem, Turn, TurnIsSound
      <3> QED BY <3>4
    <2>3. CASE observeRecoveryExit(w)
      <3>1. PICK p \in DOMAIN processes :
              /\ ExitOfClaim(p)
              /\ recovery' = Turn(w, [pc |-> "observed", generation |-> recovery[w].generation,
                                      exitedAt |-> processes[p].exitedAt, verifiedAt |-> now])
        BY <2>3 DEF observeRecoveryExit
      <3>2. PICK s : s = [pc |-> "observed", generation |-> recovery[w].generation,
                          exitedAt |-> processes[p].exitedAt, verifiedAt |-> now]
        OBVIOUS
      <3>3. recovery[w].generation \in DOMAIN leases /\ claim # None
        BY <1>4, <2>3 DEF observeRecoveryExit, TurnIsSound
      <3>4. claim.claimedAt \in Nat
        BY <3>3 DEF SessionSafety, Records, ClaimIsSound, ClaimRow
      <3>5. /\ processes[p].exitedAt # None
            /\ claim.claimedAt <= processes[p].openedAt /\ processes[p].exitedAt <= HandoffEnd
        BY <3>1 DEF ExitOfClaim
      <3>6. processes[p] \in ProcessRow /\ processes[p].openedAt <= processes[p].exitedAt
        BY <3>5 DEF SessionSafety, ProcessesAreSound
      <3>7. processes[p].openedAt \in Nat /\ processes[p].exitedAt \in Nat
        BY <3>5, <3>6 DEF ProcessRow
      <3>8. processes[p].exitedAt \in claim.claimedAt .. HandoffEnd
        BY <3>4, <3>5, <3>6, <3>7
      <3>9. Exited(p, processes[p].exitedAt)
        BY <3>5 DEF Exited
      <3>10. s.pc = "observed" /\ s.generation = recovery[w].generation /\ s.exitedAt = processes[p].exitedAt
        BY <3>2
      <3>11. TurnIsSound(s)'
        BY <1>1, <1>2, <3>3, <3>8, <3>9, <3>10 DEF TurnIsSound, Exited
      <3> QED BY <3>1, <3>2, <3>11
    <2>4. CASE recoveryFails(w)
      <3>1. PICK s : s = Idle
        OBVIOUS
      <3>2. recovery' = Turn(w, s) /\ TurnIsSound(s)'
        BY <2>4, <3>1 DEF recoveryFails, TurnIsSound, Idle
      <3> QED BY <3>2
    <2> QED BY <2>1, <2>2, <2>3, <2>4
  <1>6. Callers'
    BY <1>1, <1>3, <1>5, TurnKeeps
  <1>7. Records'
    BY <1>1, <1>3, RecordsStay
  <1> QED BY <1>1, <1>6, <1>7 DEF SessionSafety, ProcessesAreSound

\* claimRecoveryLease: the new lease begins when every earlier one has ended.
LEMMA LeaseKeeps ==
    ASSUME WindowAssumption, SessionSafety, NEW w \in Workers, claimRecoveryLease(w)
    PROVE  SessionSafety'
  <1>1. PICK t : t = recovery[w].since
    OBVIOUS
  <1>2. PICK row : row = [owner |-> w, claimedAt |-> t, expiresAt |-> t + LeaseTTL]
    OBVIOUS
  <1>3. PICK s : s = [pc |-> "leased", generation |-> NextGeneration]
    OBVIOUS
  <1>4. /\ recovery[w].pc = "leasing" /\ claim # None /\ completion = None
        /\ HandoffEnd <= t /\ \A g \in DOMAIN leases : leases[g].expiresAt <= t
        /\ leases' = Append(leases, row) /\ recovery' = Turn(w, s)
        /\ UNCHANGED <<now, claim, completion, outcomes, processes, exec, messages>>
    BY <1>1, <1>2, <1>3 DEF claimRecoveryLease, RecoveryAuthority, ClaimExpired, LastLeaseExpired, WorkItem, Turn
  <1>5. t \in Nat
    BY <1>1, <1>4 DEF SessionSafety, Callers, TurnIsSound
  <1>6. row \in Lease /\ row.claimedAt = t
    BY <1>2, <1>5 DEF Lease, WindowAssumption
  <1>7. leases \in Seq(Lease)
    BY DEF SessionSafety, Records
  <1>8. /\ leases' \in Seq(Lease)
        /\ Len(leases) \in Nat
        /\ DOMAIN leases = 1 .. Len(leases)
        /\ DOMAIN leases' = 1 .. Len(leases) + 1
        /\ \A g \in DOMAIN leases : leases'[g] = leases[g]
        /\ leases'[Len(leases) + 1] = row
    BY <1>4, <1>6, <1>7
  <1>9. Grows
    BY <1>4, <1>8 DEF Grows
  <1>10. TurnIsSound(s)'
    BY <1>3, <1>4, <1>8 DEF TurnIsSound, NextGeneration
  <1>11. Callers'
    BY <1>4, <1>9, <1>10, TurnKeeps
  <1>12. LeasesAreDisjoint'
    <2>1. \A g \in DOMAIN leases' : g \in DOMAIN leases \/ g = Len(leases) + 1
      BY <1>8
    <2>2. \A g \in DOMAIN leases' : HandoffEnd <= leases'[g].claimedAt
      BY <1>4, <1>6, <1>8, <2>1 DEF SessionSafety, Records, LeasesAreDisjoint
    <2>3. ASSUME NEW g \in DOMAIN leases', NEW h \in DOMAIN leases', g < h
          PROVE  leases'[g].expiresAt <= leases'[h].claimedAt
      <3>1. g \in DOMAIN leases
        BY <1>8, <2>3
      <3>2. CASE h \in DOMAIN leases
        BY <1>8, <2>3, <3>1, <3>2 DEF SessionSafety, Records, LeasesAreDisjoint
      <3>3. CASE h = Len(leases) + 1
        BY <1>4, <1>6, <1>8, <3>1, <3>3
      <3> QED BY <2>1, <3>2, <3>3
    <2> QED BY <2>2, <2>3 DEF LeasesAreDisjoint
  <1>13. Records'
    BY <1>4, <1>8, <1>12 DEF SessionSafety, Records, ClaimIsSound, OutcomesAreSound, MessagesAgree,
                             CompletionIsAnExit, CompletionRespectsLeases, Exited
  <1> QED BY <1>4, <1>11, <1>13 DEF SessionSafety, ProcessesAreSound

\* completeProcessSessionRecovery: the holder of a running lease records an exit it saw.
LEMMA RecoveryCompletionKeeps ==
    ASSUME WindowAssumption, SessionSafety, NEW w \in Workers, completeProcessSessionRecovery(w)
    PROVE  SessionSafety'
  <1>1. PICK r : r = recovery[w]
    OBVIOUS
  <1>2. PICK row : row = RecoveryCompletion(r)
    OBVIOUS
  <1>3. PICK s : s = Idle
    OBVIOUS
  <1>4. /\ r.pc = "observed" /\ completion = None /\ completion' = row /\ recovery' = Turn(w, s)
        /\ leases[r.generation].claimedAt <= now /\ now < leases[r.generation].expiresAt
        /\ UNCHANGED <<now, claim, leases, outcomes, processes, exec, messages>>
    BY <1>1, <1>2, <1>3 DEF completeProcessSessionRecovery, LeaseStillActive, LeaseIsActive
  <1>5. /\ r.generation \in DOMAIN leases /\ claim # None
        /\ r.exitedAt \in claim.claimedAt .. HandoffEnd
        /\ \E p \in DOMAIN processes : Exited(p, r.exitedAt)
    BY <1>1, <1>4 DEF SessionSafety, Callers, TurnIsSound
  <1>6. r.exitedAt \in Nat
    <2>1. claim.claimedAt \in Nat
      BY <1>5 DEF SessionSafety, Records, ClaimIsSound, ClaimRow
    <2> QED BY <1>5, <2>1 DEF WindowAssumption
  <1>7. row \in CompletionRow /\ row.closedAt = r.exitedAt /\ row.at = now /\ row.by = "recovery"
    BY <1>2, <1>6 DEF RecoveryCompletion, CompletionRow, Reasons, SessionSafety
  <1>8. Records' /\ Grows /\ completion' # None
    BY <1>4, <1>5, <1>7, CompletionKeeps
  <1>9. TurnIsSound(s)'
    BY <1>3 DEF TurnIsSound, Idle
  <1>10. Callers'
    BY <1>4, <1>8, <1>9, TurnKeeps
  <1> QED BY <1>4, <1>8, <1>10 DEF SessionSafety, ProcessesAreSound

\* A process exits by itself, and time passes.
LEMMA WorldKeeps ==
    ASSUME SessionSafety, sessionTimePasses \/ \E p \in DOMAIN processes : processExits(p)
    PROVE  SessionSafety'
  <1>1. UNCHANGED <<durable, exec, messages, recovery>> /\ now' \in Nat /\ now <= now'
    BY DEF SessionSafety, sessionTimePasses, processExits
  <1>2. UNCHANGED <<claim, completion, leases>>
    BY <1>1 DEF durable
  <1>3. ProcessesAreSound' /\ Grows
    <2>1. CASE sessionTimePasses
      <3>1. \A p \in DOMAIN processes : processes[p] \in ProcessRow
        BY DEF SessionSafety, ProcessesAreSound
      <3>2. \A p \in DOMAIN processes : processes[p].openedAt \in Nat
                                      /\ (processes[p].exitedAt # None => processes[p].exitedAt \in Nat)
        BY <3>1 DEF ProcessRow
      <3> QED BY <1>1, <1>2, <2>1, <3>2 DEF sessionTimePasses, SessionSafety, ProcessesAreSound, Grows
    <2>2. CASE \E p \in DOMAIN processes : processExits(p)
      <3>1. PICK p \in DOMAIN processes : processExits(p)
        BY <2>2
      <3>2. processes[p].exitedAt = None /\ processes' = [processes EXCEPT ![p].exitedAt = now] /\ now' = now
        BY <3>1 DEF processExits
      <3>3. processes \in Seq(ProcessRow) /\ processes[p] \in ProcessRow
        BY DEF SessionSafety, ProcessesAreSound
      <3>4. PICK row : row = [processes[p] EXCEPT !.exitedAt = now]
        OBVIOUS
      <3>5. row \in ProcessRow /\ row.openedAt = processes[p].openedAt /\ row.exitedAt = now
        BY <3>3, <3>4 DEF ProcessRow, SessionSafety
      <3>6. processes' = [processes EXCEPT ![p] = row]
        BY <3>2, <3>4
      <3>7. /\ processes' \in Seq(ProcessRow) /\ DOMAIN processes' = DOMAIN processes
            /\ processes'[p] = row /\ \A q \in DOMAIN processes : q # p => processes'[q] = processes[q]
        BY <3>3, <3>5, <3>6
      <3>8. ProcessesAreSound'
        BY <3>2, <3>5, <3>7 DEF SessionSafety, ProcessesAreSound
      <3> QED BY <1>2, <3>2, <3>7, <3>8 DEF Grows
    <2> QED BY <2>1, <2>2
  <1>4. Callers' /\ Records'
    BY <1>1, <1>3, ExecKeeps, RecordsStay
  <1> QED BY <1>1, <1>3, <1>4 DEF SessionSafety

\* The inductive invariant of a process session.
THEOREM SessionIsSafe ==
    ASSUME WindowAssumption
    PROVE  SessionSpec => []SessionSafety
  <1>1. SessionInit => SessionSafety
    <2> SUFFICES ASSUME SessionInit PROVE SessionSafety
      OBVIOUS
    <2>1. ProcessesAreSound /\ now \in Nat
      BY DEF SessionInit, ProcessesAreSound
    <2>2. Callers
      BY DEF SessionInit, Callers, ExecIsSound, TurnIsSound, Idle
    <2>3. Records
      BY DEF SessionInit, Records, ClaimIsSound, OutcomesAreSound, MessagesAgree, CompletionIsAnExit,
             LeasesAreDisjoint, CompletionRespectsLeases
    <2> QED BY <2>1, <2>2, <2>3 DEF SessionSafety
  <1>2. SessionSafety /\ [SessionNext]_sessionVars => SessionSafety'
    <2> SUFFICES ASSUME SessionSafety, [SessionNext]_sessionVars PROVE SessionSafety'
      OBVIOUS
    <2>1. ASSUME NEW c \in Coordinators, CoordinatorStep(c) PROVE SessionSafety'
      BY <2>1, QuietStepKeeps, ClaimSessionKeeps, OwnerCompletionKeeps, EmitKeeps DEF CoordinatorStep
    <2>2. ASSUME NEW w \in Workers, WorkerStep(w) PROVE SessionSafety'
      BY <2>2, QuietTurnKeeps, LeaseKeeps, RecoveryCompletionKeeps DEF WorkerStep
    <2>3. ASSUME NEW m \in messages, acceptRoundTripEvidence(m) \/ acceptCancellationEvidence(m) PROVE SessionSafety'
      BY <2>3, AcceptKeeps
    <2>4. CASE sessionTimePasses \/ \E p \in DOMAIN processes : processExits(p)
      BY <2>4, WorldKeeps
    <2>5. CASE UNCHANGED sessionVars
      <3>1. UNCHANGED <<now, claim, completion, leases, outcomes, processes, exec, messages, recovery>>
        BY <2>5 DEF sessionVars
      <3>2. Grows
        BY <3>1 DEF Grows
      <3>3. Callers' /\ Records'
        BY <3>1, <3>2, ExecKeeps, RecordsStay DEF durable
      <3> QED BY <3>1, <3>3 DEF SessionSafety, ProcessesAreSound
    <2> QED BY <2>1, <2>2, <2>3, <2>4, <2>5 DEF SessionNext
  <1> QED BY <1>1, <1>2, PTL DEF SessionSpec

\* A process session has one end (BoundedCodexValidationProcessSessionCoordinator and the
\* claim, completion and lease tables of acp-bridge-admission.service.ts): whatever
\* coordinators crash, workers race and transactions commit long after they start, at most
\* one outcome is accepted and it has the reason of the completion.
THEOREM SessionsHaveOneOutcome ==
    ASSUME WindowAssumption
    PROVE  SessionSpec => []OneOutcome
  <1>1. SessionSafety => OneOutcome
    <2> SUFFICES ASSUME SessionSafety PROVE OneOutcome
      OBVIOUS
    <2>1. Cardinality(outcomes) <= 1
      <3>1. CASE outcomes = {}
        BY <3>1, FS_EmptySet
      <3>2. CASE \E m \in messages : outcomes = {m}
        BY <3>2, FS_Singleton
      <3> QED BY <3>1, <3>2 DEF SessionSafety, Records, OutcomesAreSound
    <2>2. \A m \in outcomes : completion # None /\ completion.reason = m.reason
      BY DEF SessionSafety, Records, OutcomesAreSound, MessagesAgree
    <2> QED BY <2>1, <2>2 DEF SessionSafety, Records, OneOutcome
  <1> QED BY <1>1, SessionIsSafe, PTL
=============================================================================
