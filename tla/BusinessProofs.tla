--------------------------- MODULE BusinessProofs ---------------------------
(***************************************************************************)
(* Proofs about the parts that do business: Publication, for every number  *)
(* of calls, uploads, daily attempts and approvals; AgentFactory, for      *)
(* every set of requests, templates and limits; and AiCoo, for every set   *)
(* of plans.                                                               *)
(*                                                                         *)
(* The invariant of the factory (FactoryInvariant) adds to LineageHolds    *)
(* that the log tells the life of every identifier, also of those that     *)
(* were never used.  The planner's (CooInvariant) adds to                  *)
(* DependenciesComeFirst that plans are valid and disjoint, that a task    *)
(* which may still be assigned has an attempt left, and that the agent of  *)
(* any task, not only of an assigned one, is its own.                      *)
(***************************************************************************)
EXTENDS AiCoo, Publication, FiniteSetTheorems, TLAPS

-----------------------------------------------------------------------------
(* The inductive invariant *)

\* A call that has not begun does not publish.
NewCallsAreIdle == \A c \in Calls : AtPc(c, "new") => ~Publishes(c)

\* The call is between its claim of a key and the end of that claim.
HoldsKey(c) == calls[c].pc \in Claimed /\ (Publishes(c) \/ ~AtPc(c, "reserve"))

\* A key has at most one holder, whose write is the only one; who finds a key
\* to be claimed finds that nothing was written.
KeysAreOwned ==
    /\ \A c \in Calls : HoldsKey(c) =>
         /\ KeyOf(c).status = "PENDING"
         /\ writes[calls[c].op] = IF AtPc(c, "cache") THEN 1 ELSE 0
    /\ \A c, d \in Calls : HoldsKey(c) /\ HoldsKey(d) /\ calls[c].op = calls[d].op => c = d
    /\ \A op \in Ops :
         /\ keys[op].status \in {"NONE", "FAILED"} => writes[op] = 0
         /\ keys[op].status = "SUCCEEDED" => writes[op] = 1
         /\ writes[op] <= 1

-----------------------------------------------------------------------------
(* Types *)

\* The operations are numbered from the draft to the publication.
LEMMA OpsNumbered ==
    /\ Uploads \in Nat /\ RateLimit \in Nat /\ MaxApprovals \in Nat
    /\ Draft \in Ops /\ Publish \in Ops /\ Draft # Publish
    /\ \A op \in Ops : op \in Nat /\ (op < Uploads => op + 1 \in Ops /\ op + 1 # Publish)
BY BoundAssumption DEF Ops, Draft, Publish

\* Replacing a member of a sequence
LEMMA ReplaceMember ==
    ASSUME NEW S, NEW s \in Seq(S), NEW i, NEW v, i \in 1..Len(s) => v \in S
    PROVE  /\ [s EXCEPT ![i] = v] \in Seq(S)
           /\ Len([s EXCEPT ![i] = v]) = Len(s)
           /\ \A j \in 1..Len(s) : [s EXCEPT ![i] = v][j] = IF j = i THEN v ELSE s[j]
<1> DEFINE t == [s EXCEPT ![i] = v]
<1>1. s \in [1..Len(s) -> S] /\ Len(s) \in Nat
  OBVIOUS
<1>2. t \in [1..Len(s) -> S] /\ \A j \in 1..Len(s) : t[j] = IF j = i THEN v ELSE s[j]
  BY <1>1
<1>3. t \in Seq(S) /\ Len(t) = Len(s)
  BY <1>1, <1>2
<1>4. QED
  BY <1>2, <1>3

\* Appending to a sequence
LEMMA AppendMember ==
    ASSUME NEW S, NEW s \in Seq(S), NEW v \in S
    PROVE  /\ Append(s, v) \in Seq(S)
           /\ Len(Append(s, v)) = Len(s) + 1
           /\ \A j \in 1..Len(s) : Append(s, v)[j] = s[j]
           /\ Append(s, v)[Len(s) + 1] = v
OBVIOUS

\* The execution result of an approval changes nothing else of it.
LEMMA ResultKept ==
    ASSUME approvals \in Seq(Approval), NEW a, NEW x \in {"NONE", "SUCCESS", "FAILURE"},
           approvals' = [approvals EXCEPT ![a].result = x]
    PROVE  /\ approvals' \in Seq(Approval) /\ Len(approvals') = Len(approvals)
           /\ \A b \in 1..Len(approvals) :
                /\ approvals'[b].state = approvals[b].state
                /\ approvals'[b].attempt = approvals[b].attempt
                /\ approvals'[b].decided = approvals[b].decided
<1> DEFINE v == [approvals[a] EXCEPT !.result = x]
<1>1. approvals' = [approvals EXCEPT ![a] = v]
  OBVIOUS
<1>2. \A b \in 1..Len(approvals) : approvals[b] \in Approval
  OBVIOUS
<1>3. a \in 1..Len(approvals) =>
        /\ v \in Approval /\ v.state = approvals[a].state
        /\ v.attempt = approvals[a].attempt /\ v.decided = approvals[a].decided
  BY <1>2 DEF Approval
<1>4. a \in 1..Len(approvals) => v \in Approval
  BY <1>3
<1> HIDE DEF v
<1>5. /\ approvals' \in Seq(Approval) /\ Len(approvals') = Len(approvals)
      /\ \A b \in 1..Len(approvals) : approvals'[b] = IF b = a THEN v ELSE approvals[b]
  BY <1>1, <1>4, ReplaceMember
<1>6. QED
  BY <1>3, <1>5

\* A call moves on and refers to attempt a; the others stay.
MovesTo(c, a) == \E r \in Call :
    /\ calls' = [calls EXCEPT ![c] = r]
    /\ r.attempt = a
    /\ r.prepared = calls[c].prepared
    /\ r.approval = calls[c].approval

\* A call that only changes its pc, and
LEMMA GotoMoves ==
    ASSUME calls \in [Calls -> Call], NEW c \in Calls, NEW p \in Pcs, Goto(c, p)
    PROVE  MovesTo(c, calls[c].attempt)
<1> DEFINE r == [calls[c] EXCEPT !.pc = p]
<1>1. /\ r \in Call /\ r.attempt = calls[c].attempt
      /\ r.prepared = calls[c].prepared /\ r.approval = calls[c].approval
  BY DEF Call
<1>2. calls' = [calls EXCEPT ![c] = r]
  BY DEF Goto
<1>3. QED
  BY <1>1, <1>2 DEF MovesTo

\* one that is also given an outcome.
LEMMA OutcomeMoves ==
    ASSUME calls \in [Calls -> Call], NEW c \in Calls, NEW p \in Pcs,
           NEW o \in {"FAILED", "BLOCKED"},
           calls' = [calls EXCEPT ![c] = [@ EXCEPT !.pc = p, !.outcome = o]]
    PROVE  MovesTo(c, calls[c].attempt)
<1> DEFINE r == [calls[c] EXCEPT !.pc = p, !.outcome = o]
<1>1. /\ r \in Call /\ r.attempt = calls[c].attempt
      /\ r.prepared = calls[c].prepared /\ r.approval = calls[c].approval
  BY DEF Call
<1>2. QED
  BY <1>1 DEF MovesTo

\* Any other move
LEMMA RecordMoves ==
    ASSUME NEW c, NEW r \in Call, calls' = [calls EXCEPT ![c] = r],
           r.prepared = calls[c].prepared, r.approval = calls[c].approval
    PROVE  MovesTo(c, r.attempt)
BY DEF MovesTo

\* Rows are added or changed, and have their types.
RowsTyped ==
    /\ keys' \in [Ops -> Key] /\ writes' \in [Ops -> Nat]
    /\ attempts' \in Seq(Attempt) /\ approvals' \in Seq(Approval)
    /\ Len(attempts') >= Len(attempts) /\ Len(approvals') >= Len(approvals)
    /\ publisher' \in 0..Len(attempts')

\* What is left to show of the types when a call moves
LEMMA TypesKept ==
    ASSUME TypeOK, NEW c \in Calls, NEW a, a \in 0..Len(attempts'), MovesTo(c, a), RowsTyped
    PROVE  TypeOK'
<1>1. PICK r \in Call : /\ calls' = [calls EXCEPT ![c] = r]
                        /\ r.attempt = a
                        /\ r.prepared = calls[c].prepared
                        /\ r.approval = calls[c].approval
  BY DEF MovesTo
<1>2. /\ calls' \in [Calls -> Call]
      /\ calls'[c] = r
      /\ \A d \in Calls : d # c => calls'[d] = calls[d]
  BY <1>1 DEF TypeOK
<1>3. /\ Len(attempts) \in Nat /\ Len(attempts') \in Nat
      /\ Len(approvals) \in Nat /\ Len(approvals') \in Nat
      /\ Len(attempts') >= Len(attempts) /\ Len(approvals') >= Len(approvals)
  BY DEF TypeOK, RowsTyped
<1>4. ASSUME NEW d \in Calls
      PROVE  /\ calls'[d].attempt \in 0..Len(attempts')
             /\ calls'[d].prepared \in 0..Len(attempts')
             /\ calls'[d].approval \in 0..Len(approvals')
  <2>1. /\ calls[d].attempt \in 0..Len(attempts)
        /\ calls[d].prepared \in 0..Len(attempts)
        /\ calls[d].approval \in 0..Len(approvals)
    BY DEF TypeOK
  <2>2. CASE d = c
    BY <1>1, <1>2, <1>3, <2>1, <2>2
  <2>3. CASE d # c
    BY <1>2, <1>3, <2>1, <2>3
  <2>4. QED
    BY <2>2, <2>3
<1>5. QED
  BY <1>2, <1>4 DEF TypeOK, RowsTyped

\* The operations of a call keep the types.
LEMMA ContinueKeepsTypes ==
    ASSUME TypeOK, NEW c \in Calls, Continue(c)
    PROVE  TypeOK'
<1> DEFINE call == calls[c]
<1>1. /\ call \in Call /\ call.op \in Ops /\ keys[call.op] \in Key
      /\ call.attempt \in 0..Len(attempts) /\ call.listing \in Nat
      /\ Len(attempts) \in Nat /\ Len(approvals) \in Nat
      /\ publisher \in 0..Len(attempts)
      /\ attempts \in Seq(Attempt) /\ approvals \in Seq(Approval)
      /\ keys \in [Ops -> Key] /\ writes \in [Ops -> Nat]
      /\ calls \in [Calls -> Call]
  BY DEF TypeOK, Call
<1>2. CASE claimKey(c)
  <2>1. MovesTo(c, call.attempt)
    BY <1>1, <1>2, GotoMoves DEF claimKey, Pcs, Claimed, Stopped
  <2>2. Payload(c) \in Nat
    BY <1>1 DEF Payload
  <2>3. keys' \in [Ops -> Key]
    BY <1>1, <1>2, <2>2 DEF claimKey, Key, KeyStatuses
  <2>4. UNCHANGED <<attempts, approvals, writes, publisher>>
    BY <1>2 DEF claimKey
  <2>5. RowsTyped /\ call.attempt \in 0..Len(attempts')
    BY <1>1, <2>2, <2>3, <2>4 DEF RowsTyped
  <2>6. QED
    BY <2>1, <2>5, TypesKept
<1>3. CASE replayKey(c)
  <2>1. LET r == [NextOp(c) EXCEPT !.listing =
                    IF call.op = Draft THEN KeyOf(c).result ELSE call.listing]
        IN  /\ r \in Call /\ r.attempt = call.attempt
            /\ r.prepared = call.prepared /\ r.approval = call.approval
    BY <1>1, OpsNumbered DEF NextOp, KeyOf, Call, Key, Pcs, Claimed, Stopped
  <2>2. Publishes(c) => MovesTo(c, call.attempt)
    BY <1>1, <1>3, GotoMoves DEF replayKey, Pcs, Claimed, Stopped
  <2>3. ~Publishes(c) => MovesTo(c, call.attempt)
    BY <1>1, <1>3, <2>1, RecordMoves DEF replayKey
  <2>4. UNCHANGED <<keys, attempts, approvals, writes, publisher>>
    BY <1>3 DEF replayKey
  <2>5. RowsTyped /\ call.attempt \in 0..Len(attempts')
    BY <1>1, <2>1, <2>4 DEF RowsTyped
  <2>6. QED
    BY <2>2, <2>3, <2>5, TypesKept
<1>4. CASE refuseKey(c)
  <2>1. MovesTo(c, call.attempt)
    BY <1>1, <1>4, OutcomeMoves DEF refuseKey, Pcs, Claimed, Stopped
  <2>2. UNCHANGED <<keys, attempts, approvals, writes, publisher>>
    BY <1>4 DEF refuseKey
  <2>3. RowsTyped /\ call.attempt \in 0..Len(attempts')
    BY <1>1, <2>2 DEF RowsTyped
  <2>4. QED
    BY <2>1, <2>3, TypesKept
<1>5. CASE keyWriteThrows(c)
  <2>1. MovesTo(c, call.attempt)
    BY <1>1, <1>5, OutcomeMoves DEF keyWriteThrows, Pcs, Claimed, Stopped
  <2>2. UNCHANGED <<keys, attempts, approvals, writes, publisher>>
    BY <1>5 DEF keyWriteThrows
  <2>3. RowsTyped /\ call.attempt \in 0..Len(attempts')
    BY <1>1, <2>2 DEF RowsTyped
  <2>4. QED
    BY <2>1, <2>3, TypesKept
<1>6. CASE checkDispatch(c)
  <2>1. MovesTo(c, call.attempt)
    BY <1>1, <1>6, GotoMoves, OutcomeMoves DEF checkDispatch, Pcs, Claimed, Stopped
  <2>2. UNCHANGED <<keys, attempts, approvals, writes, publisher>>
    BY <1>6 DEF checkDispatch
  <2>3. RowsTyped /\ call.attempt \in 0..Len(attempts')
    BY <1>1, <2>2 DEF RowsTyped
  <2>4. QED
    BY <2>1, <2>3, TypesKept
<1>7. CASE providerAccepts(c)
  <2>1. writes' \in [Ops -> Nat] /\ writes[call.op] + 1 \in Nat
    BY <1>1, <1>7 DEF providerAccepts
  <2>2. publisher' \in 0..Len(attempts)
    BY <1>1, <1>7 DEF providerAccepts
  <2>3. LET r == [call EXCEPT !.pc = "cache",
                    !.listing = IF call.op = Draft THEN writes[call.op] + 1 ELSE call.listing]
        IN  /\ r \in Call /\ r.attempt = call.attempt
            /\ r.prepared = call.prepared /\ r.approval = call.approval
    BY <1>1, <2>1 DEF Call, Pcs, Claimed, Stopped
  <2>4. MovesTo(c, call.attempt)
    <3>1. calls' = [calls EXCEPT ![c] =
            [call EXCEPT !.pc = "cache",
                         !.listing = IF call.op = Draft THEN writes[call.op] + 1 ELSE call.listing]]
      BY <1>7 DEF providerAccepts
    <3>2. QED
      BY <2>3, <3>1, RecordMoves
  <2>5. UNCHANGED <<keys, attempts, approvals>>
    BY <1>7 DEF providerAccepts
  <2>6. RowsTyped /\ call.attempt \in 0..Len(attempts')
    BY <1>1, <2>1, <2>2, <2>3, <2>5 DEF RowsTyped
  <2>7. QED
    BY <2>4, <2>6, TypesKept
<1>8. CASE providerRefuses(c)
  <2>1. MovesTo(c, call.attempt)
    BY <1>1, <1>8, OutcomeMoves DEF providerRefuses, Pcs, Claimed, Stopped
  <2>2. UNCHANGED <<keys, attempts, approvals, writes, publisher>>
    BY <1>8 DEF providerRefuses
  <2>3. RowsTyped /\ call.attempt \in 0..Len(attempts')
    BY <1>1, <2>2 DEF RowsTyped
  <2>4. QED
    BY <2>1, <2>3, TypesKept
<1>9. CASE cacheSuccess(c)
  <2>1. keys' \in [Ops -> Key]
    BY <1>1, <1>9 DEF cacheSuccess, Key, KeyStatuses
  <2>2. LET r == IF Publishes(c) THEN [call EXCEPT !.pc = "record"] ELSE NextOp(c)
        IN  /\ r \in Call /\ r.attempt = call.attempt
            /\ r.prepared = call.prepared /\ r.approval = call.approval
    BY <1>1, OpsNumbered DEF NextOp, Call, Pcs, Claimed, Stopped
  <2>3. MovesTo(c, call.attempt)
    BY <1>9, <2>2, RecordMoves DEF cacheSuccess
  <2>4. UNCHANGED <<attempts, approvals, writes, publisher>>
    BY <1>9 DEF cacheSuccess
  <2>5. RowsTyped /\ call.attempt \in 0..Len(attempts')
    BY <1>1, <2>1, <2>2, <2>4 DEF RowsTyped
  <2>6. QED
    BY <2>3, <2>5, TypesKept
<1>10. CASE failKey(c)
  <2>1. keys' \in [Ops -> Key]
    BY <1>1, <1>10 DEF failKey, Key, KeyStatuses
  <2>2. MovesTo(c, call.attempt)
    BY <1>1, <1>10, GotoMoves DEF failKey, Pcs, Claimed, Stopped
  <2>3. UNCHANGED <<attempts, approvals, writes, publisher>>
    BY <1>10 DEF failKey
  <2>4. RowsTyped /\ call.attempt \in 0..Len(attempts')
    BY <1>1, <2>1, <2>3 DEF RowsTyped
  <2>5. QED
    BY <2>2, <2>4, TypesKept
<1>11. CASE markFailed(c)
  <2>1. MovesTo(c, call.attempt)
    BY <1>1, <1>11, GotoMoves DEF markFailed, Pcs, Claimed, Stopped
  <2>2. call.attempt \in 1..Len(attempts) => attempts[call.attempt] \in Attempt
    BY <1>1
  <2>3. call.attempt \in 1..Len(attempts) =>
          [attempts[call.attempt] EXCEPT !.status = call.outcome] \in Attempt
    BY <1>1, <2>2 DEF Attempt, AttemptStatuses, Call
  <2>4. attempts' \in Seq(Attempt) /\ Len(attempts') = Len(attempts)
    BY <1>1, <1>11, <2>3, ReplaceMember DEF markFailed
  <2>5. UNCHANGED <<keys, approvals, writes, publisher>>
    BY <1>11 DEF markFailed
  <2>6. RowsTyped /\ call.attempt \in 0..Len(attempts')
    BY <1>1, <2>4, <2>5 DEF RowsTyped
  <2>7. QED
    BY <2>1, <2>6, TypesKept
<1>12. CASE blameApproval(c)
  <2>1. MovesTo(c, call.attempt)
    BY <1>1, <1>12, GotoMoves DEF blameApproval, Pcs, Stopped
  <2>2. approvals' \in Seq(Approval) /\ Len(approvals') = Len(approvals)
    BY <1>1, <1>12, ResultKept DEF blameApproval
  <2>3. UNCHANGED <<keys, attempts, writes, publisher>>
    BY <1>12 DEF blameApproval
  <2>4. RowsTyped /\ call.attempt \in 0..Len(attempts')
    BY <1>1, <2>2, <2>3 DEF RowsTyped
  <2>5. QED
    BY <2>1, <2>4, TypesKept
<1>13. CASE recordPrepared(c)
  <2>1. MovesTo(c, call.attempt)
    BY <1>1, <1>13, GotoMoves DEF recordPrepared, Pcs, Claimed, Stopped
  <2>2. call.attempt \in 1..Len(attempts) => attempts[call.attempt] \in Attempt
    BY <1>1
  <2>3. call.attempt \in 1..Len(attempts) =>
          [attempts[call.attempt] EXCEPT !.status = "READY_FOR_PUBLISH",
                                           !.listing = call.listing] \in Attempt
    BY <1>1, <2>2 DEF Attempt, AttemptStatuses
  <2>4. attempts' \in Seq(Attempt) /\ Len(attempts') = Len(attempts)
    BY <1>1, <1>13, <2>3, ReplaceMember DEF recordPrepared
  <2>5. UNCHANGED <<keys, approvals, writes, publisher>>
    BY <1>13 DEF recordPrepared
  <2>6. RowsTyped /\ call.attempt \in 0..Len(attempts')
    BY <1>1, <2>4, <2>5 DEF RowsTyped
  <2>7. QED
    BY <2>1, <2>6, TypesKept
<1>14. CASE recordPublished(c)
  <2>1. MovesTo(c, call.attempt)
    BY <1>1, <1>14, GotoMoves DEF recordPublished, Pcs, Claimed, Stopped
  <2>2. call.attempt \in 1..Len(attempts) => attempts[call.attempt] \in Attempt
    BY <1>1
  <2>3. call.attempt \in 1..Len(attempts) =>
          [attempts[call.attempt] EXCEPT !.status = "PUBLISHED",
                                         !.listing = call.listing] \in Attempt
    BY <1>1, <2>2 DEF Attempt, AttemptStatuses
  <2>4. attempts' \in Seq(Attempt) /\ Len(attempts') = Len(attempts)
    <3>1. CASE attempts' = attempts
      BY <1>1, <3>1
    <3>2. CASE attempts' = [attempts EXCEPT ![call.attempt] =
                 [attempts[call.attempt] EXCEPT !.status = "PUBLISHED", !.listing = call.listing]]
      BY <1>1, <2>3, <3>2, ReplaceMember
    <3>3. QED
      BY <1>14, <3>1, <3>2 DEF recordPublished
  <2>5. UNCHANGED <<keys, approvals, writes, publisher>>
    BY <1>14 DEF recordPublished
  <2>6. RowsTyped /\ call.attempt \in 0..Len(attempts')
    BY <1>1, <2>4, <2>5 DEF RowsTyped
  <2>7. QED
    BY <2>1, <2>6, TypesKept
<1>15. CASE creditApproval(c)
  <2>1. MovesTo(c, call.attempt)
    BY <1>1, <1>15, GotoMoves DEF creditApproval, Pcs, Stopped
  <2>2. approvals' \in Seq(Approval) /\ Len(approvals') = Len(approvals)
    BY <1>1, <1>15, ResultKept DEF creditApproval
  <2>3. UNCHANGED <<keys, attempts, writes, publisher>>
    BY <1>15 DEF creditApproval
  <2>4. RowsTyped /\ call.attempt \in 0..Len(attempts')
    BY <1>1, <2>2, <2>3 DEF RowsTyped
  <2>5. QED
    BY <2>1, <2>4, TypesKept
<1>16. CASE documentReplay(c)
  <2>1. MovesTo(c, call.attempt)
    BY <1>1, <1>16, GotoMoves DEF documentReplay, Pcs, Claimed, Stopped
  <2>2. [status |-> "IDEMPOTENT_REPLAY", listing |-> KeyOf(c).result, keyed |-> TRUE] \in Attempt
    BY <1>1 DEF Attempt, AttemptStatuses, KeyOf, Key
  <2>3. attempts' \in Seq(Attempt) /\ Len(attempts') = Len(attempts) + 1
    BY <1>1, <1>16, <2>2, AppendMember DEF documentReplay
  <2>4. UNCHANGED <<keys, approvals, writes, publisher>>
    BY <1>16 DEF documentReplay
  <2>5. RowsTyped /\ call.attempt \in 0..Len(attempts')
    BY <1>1, <2>2, <2>3, <2>4 DEF RowsTyped
  <2>6. QED
    BY <2>1, <2>5, TypesKept
<1>17. CASE replayPublication(c)
  <2>1. RowsTyped /\ attempts' = attempts
    <3>1. UNCHANGED <<keys, attempts, approvals, writes, publisher>>
      BY <1>17 DEF replayPublication
    <3>2. QED
      BY <1>1, <3>1 DEF RowsTyped
  <2>2. CASE \E p \in Pcs : Goto(c, p)
    BY <1>1, <2>1, <2>2, GotoMoves, TypesKept
  <2>3. CASE \E i \in 1..Len(attempts) :
               calls' = [calls EXCEPT ![c] = [calls[c] EXCEPT !.attempt = i, !.pc = "recover"]]
    <3>1. PICK i \in 1..Len(attempts) :
               calls' = [calls EXCEPT ![c] = [call EXCEPT !.attempt = i, !.pc = "recover"]]
      BY <2>3
    <3>2. LET r == [call EXCEPT !.attempt = i, !.pc = "recover"]
          IN  /\ r \in Call /\ r.attempt = i
              /\ r.prepared = call.prepared /\ r.approval = call.approval
      <4>1. i \in Nat /\ "recover" \in Pcs
        BY <1>1 DEF Pcs
      <4>2. QED
        BY <1>1, <4>1 DEF Call
    <3>3. MovesTo(c, i)
      BY <3>1, <3>2, RecordMoves
    <3>4. i \in 0..Len(attempts')
      BY <1>1, <2>1
    <3>5. QED
      BY <2>1, <3>3, <3>4, TypesKept
  <2>4. QED
    BY <1>17, <2>2, <2>3 DEF replayPublication, KeyedAttempts, Pcs, Stopped
<1>18. CASE reservePublicationAttempt(c)
  <2>1. \A st \in AttemptStatuses, k \in BOOLEAN : [Row(st) EXCEPT !.keyed = k] \in Attempt
    BY DEF Row, Attempt
  <2>2. UNCHANGED <<keys, approvals, writes, publisher>>
    BY <1>18 DEF reservePublicationAttempt
  <2>3. CASE /\ attempts' = Append(attempts, [Row("RESERVED") EXCEPT !.keyed = Publishes(c)])
             /\ calls' = [calls EXCEPT ![c] =
                  [@ EXCEPT !.attempt = Len(attempts) + 1,
                            !.pc = IF Publishes(c) THEN "check" ELSE "claim"]]
    <3>1. [Row("RESERVED") EXCEPT !.keyed = Publishes(c)] \in Attempt
      BY <2>1 DEF AttemptStatuses, Publishes
    <3>2. attempts' \in Seq(Attempt) /\ Len(attempts') = Len(attempts) + 1
      BY <1>1, <2>3, <3>1, AppendMember
    <3>3. LET r == [call EXCEPT !.attempt = Len(attempts) + 1,
                                !.pc = IF Publishes(c) THEN "check" ELSE "claim"]
          IN  /\ r \in Call /\ r.attempt = Len(attempts) + 1
              /\ r.prepared = call.prepared /\ r.approval = call.approval
      <4>1. Len(attempts) + 1 \in Nat
        BY <1>1
      <4>2. (IF Publishes(c) THEN "check" ELSE "claim") \in Pcs
        BY DEF Pcs, Claimed
      <4>3. QED
        BY <1>1, <4>1, <4>2 DEF Call
    <3>4. MovesTo(c, Len(attempts) + 1)
      BY <2>3, <3>3, RecordMoves
    <3>5. RowsTyped /\ Len(attempts) + 1 \in 0..Len(attempts')
      BY <1>1, <2>2, <3>2 DEF RowsTyped
    <3>6. QED
      BY <3>4, <3>5, TypesKept
  <2>4. CASE /\ \/ attempts' = Append(attempts, [Row("BLOCKED") EXCEPT !.keyed = Publishes(c)])
                \/ attempts' = attempts
             /\ Goto(c, IF Publishes(c) THEN "failKey" ELSE "done")
    <3>1. [Row("BLOCKED") EXCEPT !.keyed = Publishes(c)] \in Attempt
      BY <2>1 DEF AttemptStatuses, Publishes
    <3>2. attempts' \in Seq(Attempt) /\ Len(attempts') >= Len(attempts)
      <4>1. CASE attempts' = attempts
        BY <1>1, <4>1
      <4>2. CASE attempts' = Append(attempts, [Row("BLOCKED") EXCEPT !.keyed = Publishes(c)])
        BY <1>1, <3>1, <4>2, AppendMember
      <4>3. QED
        BY <2>4, <4>1, <4>2
    <3>3. MovesTo(c, call.attempt)
      BY <1>1, <2>4, GotoMoves DEF Pcs, Claimed, Stopped
    <3>4. RowsTyped /\ call.attempt \in 0..Len(attempts')
      BY <1>1, <2>2, <3>2 DEF RowsTyped
    <3>5. QED
      BY <3>3, <3>4, TypesKept
  <2>5. QED
    BY <1>18, <2>3, <2>4 DEF reservePublicationAttempt
<1>19. CASE writeMarketplaceHealth(c)
  <2>1. MovesTo(c, call.attempt)
    BY <1>1, <1>19, GotoMoves, OutcomeMoves DEF writeMarketplaceHealth, Pcs, Stopped
  <2>2. UNCHANGED <<keys, attempts, approvals, writes, publisher>>
    BY <1>19 DEF writeMarketplaceHealth
  <2>3. RowsTyped /\ call.attempt \in 0..Len(attempts')
    BY <1>1, <2>2 DEF RowsTyped
  <2>4. QED
    BY <2>1, <2>3, TypesKept
<1>20. QED
  BY <1>2, <1>3, <1>4, <1>5, <1>6, <1>7, <1>8, <1>9, <1>10, <1>11, <1>12, <1>13,
     <1>14, <1>15, <1>16, <1>17, <1>18, <1>19 DEF Continue

\* So do the two entry points,
LEMMA EntryKeepsTypes ==
    ASSUME TypeOK, NEW c \in Calls,
           prepareListingForPublication(c) \/ \E a \in 1..MaxApprovals : publishListing(c, a)
    PROVE  TypeOK'
<1> DEFINE call == calls[c]
<1>1. /\ call \in Call /\ call.attempt \in 0..Len(attempts)
      /\ calls \in [Calls -> Call] /\ attempts \in Seq(Attempt) /\ approvals \in Seq(Approval)
      /\ Len(attempts) \in Nat /\ Len(approvals) \in Nat
      /\ publisher \in 0..Len(attempts)
      /\ keys \in [Ops -> Key] /\ writes \in [Ops -> Nat]
  BY DEF TypeOK
<1>2. UNCHANGED <<keys, approvals, writes, publisher>>
  BY DEF prepareListingForPublication, publishListing
<1>3. CASE /\ attempts' = attempts \/ attempts' = Append(attempts, Row("BLOCKED"))
           /\ \E p \in Pcs : Goto(c, p)
  <2>1. Row("BLOCKED") \in Attempt
    BY DEF Row, Attempt, AttemptStatuses
  <2>2. attempts' \in Seq(Attempt) /\ Len(attempts') >= Len(attempts)
    <3>1. CASE attempts' = attempts
      BY <1>1, <3>1
    <3>2. CASE attempts' = Append(attempts, Row("BLOCKED"))
      BY <1>1, <2>1, <3>2, AppendMember
    <3>3. QED
      BY <1>3, <3>1, <3>2
  <2>3. RowsTyped /\ call.attempt \in 0..Len(attempts')
    BY <1>1, <1>2, <2>2 DEF RowsTyped
  <2>4. QED
    BY <1>1, <1>3, <2>3, GotoMoves, TypesKept
<1>4. CASE \E i \in 1..Len(attempts), a \in 1..Len(approvals) :
             /\ calls' = [calls EXCEPT ![c] =
                   [call EXCEPT !.pc = "claim", !.op = Publish, !.prepared = i,
                                !.approval = a, !.listing = attempts[i].listing]]
             /\ UNCHANGED attempts
  <2>1. PICK i \in 1..Len(attempts), a \in 1..Len(approvals) :
             /\ calls' = [calls EXCEPT ![c] =
                   [call EXCEPT !.pc = "claim", !.op = Publish, !.prepared = i,
                                !.approval = a, !.listing = attempts[i].listing]]
             /\ UNCHANGED attempts
    BY <1>4
  <2> DEFINE r == [call EXCEPT !.pc = "claim", !.op = Publish, !.prepared = i,
                               !.approval = a, !.listing = attempts[i].listing]
  <2>2. attempts[i] \in Attempt
    BY <1>1
  <2>3. i \in 0..Len(attempts) /\ a \in 0..Len(approvals) /\ i \in Nat /\ a \in Nat
    BY <1>1
  <2>4. attempts[i].listing \in Nat /\ Publish \in Ops /\ "claim" \in Pcs
    BY <2>2, OpsNumbered DEF Attempt, Pcs
  <2>5. /\ r \in Call /\ r.attempt = call.attempt
        /\ r.prepared = i /\ r.approval = a
    BY <1>1, <2>3, <2>4 DEF Call
  <2> HIDE DEF r
  <2>6. /\ calls' \in [Calls -> Call] /\ calls'[c] = r
        /\ \A d \in Calls : d # c => calls'[d] = calls[d]
    BY <1>1, <2>1, <2>5 DEF r
  <2>7. QED
    BY <1>1, <1>2, <2>1, <2>3, <2>5, <2>6 DEF TypeOK
<1>5. QED
  BY <1>3, <1>4 DEF prepareListingForPublication, publishListing, LatestReady, ReadyAttempts, Pcs,
     Stopped, Claimed

\* and what happens to the approvals.
LEMMA ApprovalsKeepTypes ==
    ASSUME TypeOK,
           \/ \E i \in 1..Len(attempts) : requestPublicationApproval(i)
           \/ \E a \in 1..MaxApprovals : decideApprovalRequest(a) \/ expireApproval(a)
    PROVE  TypeOK'
<1>1. /\ approvals \in Seq(Approval) /\ Len(approvals) \in Nat
      /\ UNCHANGED <<keys, attempts, calls, writes, publisher>>
  <2>1. approvals \in Seq(Approval) /\ Len(approvals) \in Nat
    BY DEF TypeOK
  <2>2. UNCHANGED <<keys, attempts, calls, writes, publisher>>
    BY DEF requestPublicationApproval, decideApprovalRequest, expireApproval, SetApproval
  <2>3. QED
    BY <2>1, <2>2
<1>2. approvals' \in Seq(Approval) /\ Len(approvals') >= Len(approvals)
  <2>1. CASE \E i \in 1..Len(attempts) : requestPublicationApproval(i)
    <3>1. PICK i \in 1..Len(attempts) : requestPublicationApproval(i)
      BY <2>1
    <3> DEFINE v == [state |-> "PENDING", attempt |-> i, decided |-> FALSE, result |-> "NONE"]
    <3>2. v \in Approval
      BY DEF Approval, ApprovalStates
    <3>3. approvals' = Append(approvals, v)
      BY <3>1 DEF requestPublicationApproval
    <3> HIDE DEF v
    <3>4. QED
      BY <1>1, <3>2, <3>3, AppendMember
  <2>2. CASE \E a \in 1..MaxApprovals : decideApprovalRequest(a) \/ expireApproval(a)
    <3>1. PICK a \in 1..MaxApprovals, from \in SUBSET ApprovalStates, to \in ApprovalStates :
            SetApproval(a, from, to)
      BY <2>2 DEF decideApprovalRequest, expireApproval, ApprovalStates
    <3> DEFINE v == [approvals[a] EXCEPT !.state = to,
                                         !.decided = approvals[a].decided \/ to = "APPROVED"]
    <3>2. a \in 1..Len(approvals) /\ approvals[a] \in Approval
      BY <1>1, <3>1 DEF SetApproval
    <3>3. v \in Approval
      BY <3>2 DEF Approval
    <3>4. approvals' = [approvals EXCEPT ![a] = v]
      BY <3>1 DEF SetApproval
    <3> HIDE DEF v
    <3>5. QED
      BY <1>1, <3>2, <3>3, <3>4, ReplaceMember
  <2>3. QED
    BY <2>1, <2>2
<1>3. QED
  BY <1>1, <1>2 DEF TypeOK

\* Every step keeps the types.
LEMMA NextKeepsTypes == TypeOK /\ [Next]_vars => TypeOK'
<1> SUFFICES ASSUME TypeOK, [Next]_vars
             PROVE  TypeOK'
  OBVIOUS
<1>1. CASE UNCHANGED vars
  BY <1>1 DEF vars, TypeOK
<1>2. ASSUME NEW c \in Calls, crash(c)
      PROVE  TypeOK'
  <2>1. /\ calls \in [Calls -> Call] /\ RowsTyped /\ calls[c].attempt \in 0..Len(attempts')
    BY <1>2 DEF crash, TypeOK, RowsTyped
  <2>2. MovesTo(c, calls[c].attempt)
    BY <1>2, <2>1, GotoMoves DEF crash, Pcs, Stopped
  <2>3. QED
    BY <2>1, <2>2, TypesKept
<1>3. QED
  BY <1>1, <1>2, ContinueKeepsTypes, EntryKeepsTypes, ApprovalsKeepTypes DEF Next

\* Keys, attempts, approvals and calls keep their types, and a call refers to
\* rows that exist.
THEOREM TypeCorrect == Spec => []TypeOK
<1>1. Init => TypeOK
  BY OpsNumbered DEF Init, TypeOK, NoKey, NewCall, Key, KeyStatuses, Call, Pcs
<1>2. QED
  BY <1>1, NextKeepsTypes, PTL DEF Spec

-----------------------------------------------------------------------------
(* Every operation is written at most once *)

\* Only call c has moved.
OnlyMoves(c) == \A d \in Calls : d # c => calls'[d] = calls[d]

\* What a move to another pc leaves alone
LEMMA GotoChanges ==
    ASSUME calls \in [Calls -> Call], NEW c \in Calls, NEW p, Goto(c, p)
    PROVE  /\ OnlyMoves(c) /\ calls'[c].pc = p /\ calls'[c].op = calls[c].op
           /\ calls'[c].attempt = calls[c].attempt /\ calls'[c].prepared = calls[c].prepared
           /\ calls'[c].approval = calls[c].approval /\ calls'[c].listing = calls[c].listing
           /\ calls'[c].outcome = calls[c].outcome
BY DEF Goto, OnlyMoves, Call

\* A record that replaces a call's is what the call becomes.
LEMMA RecordChanges ==
    ASSUME calls \in [Calls -> Call], NEW c \in Calls, NEW r, calls' = [calls EXCEPT ![c] = r]
    PROVE  OnlyMoves(c) /\ calls'[c] = r
BY DEF OnlyMoves

\* What a call keeps of itself
SameErrand(c) ==
    /\ OnlyMoves(c)
    /\ calls'[c].op = calls[c].op /\ calls'[c].prepared = calls[c].prepared
    /\ calls'[c].approval = calls[c].approval /\ calls'[c].listing = calls[c].listing

\* The two ways out of a reservation
Reserved(c) ==
    /\ SameErrand(c)
    /\ calls'[c].pc = IF Publishes(c) THEN "check" ELSE "claim"
    /\ calls'[c].attempt = Len(attempts) + 1
    /\ HasCapacity
    /\ attempts' = Append(attempts, [Row("RESERVED") EXCEPT !.keyed = Publishes(c)])

NotReserved(c) ==
    /\ SameErrand(c)
    /\ calls'[c].pc = IF Publishes(c) THEN "failKey" ELSE "done"
    /\ calls'[c].attempt = calls[c].attempt
    /\ \/ attempts' = attempts
       \/ attempts' = Append(attempts, [Row("BLOCKED") EXCEPT !.keyed = Publishes(c)])

\* A reservation takes one of these two ways.
LEMMA ReservationMoves ==
    ASSUME calls \in [Calls -> Call], NEW c \in Calls, reservePublicationAttempt(c)
    PROVE  Reserved(c) \/ NotReserved(c)
<1>1. calls[c] \in Call
  OBVIOUS
<1>2. CASE /\ HasCapacity
           /\ attempts' = Append(attempts, [Row("RESERVED") EXCEPT !.keyed = Publishes(c)])
           /\ calls' = [calls EXCEPT ![c] =
                [@ EXCEPT !.attempt = Len(attempts) + 1,
                          !.pc = IF Publishes(c) THEN "check" ELSE "claim"]]
  <2>1. /\ OnlyMoves(c)
        /\ calls'[c] = [calls[c] EXCEPT !.attempt = Len(attempts) + 1,
                                       !.pc = IF Publishes(c) THEN "check" ELSE "claim"]
    BY <1>2, RecordChanges
  <2>2. QED
    BY <1>1, <1>2, <2>1 DEF Reserved, SameErrand, Call
<1>3. CASE /\ Goto(c, IF Publishes(c) THEN "failKey" ELSE "done")
           /\ \/ attempts' = attempts
              \/ attempts' = Append(attempts, [Row("BLOCKED") EXCEPT !.keyed = Publishes(c)])
  BY <1>3, GotoChanges DEF NotReserved, SameErrand
<1>4. QED
  BY <1>2, <1>3 DEF reservePublicationAttempt

\* The check before the dispatch: it is passed, or the key is given up.
LEMMA CheckMoves ==
    ASSUME calls \in [Calls -> Call], NEW c \in Calls, checkDispatch(c)
    PROVE  /\ SameErrand(c) /\ calls'[c].attempt = calls[c].attempt
           /\ \/ calls'[c].pc = "dispatch" /\ MayDispatch(c)
              \/ calls'[c].pc = "failKey"
<1>1. calls[c] \in Call
  OBVIOUS
<1>2. CASE MayDispatch(c) /\ Goto(c, "dispatch")
  BY <1>2, GotoChanges DEF SameErrand
<1>3. ASSUME NEW o \in {"FAILED", "BLOCKED"},
             calls' = [calls EXCEPT ![c] = [@ EXCEPT !.pc = "failKey", !.outcome = o]]
      PROVE  SameErrand(c) /\ calls'[c].attempt = calls[c].attempt /\ calls'[c].pc = "failKey"
  <2>1. OnlyMoves(c) /\ calls'[c] = [calls[c] EXCEPT !.pc = "failKey", !.outcome = o]
    BY <1>3, RecordChanges
  <2>2. QED
    BY <1>1, <2>1 DEF SameErrand, Call
<1>4. QED
  BY <1>2, <1>3 DEF checkDispatch

\* A replay finds a published attempt, a reserved one, or none.
LEMMA ReplayMoves ==
    ASSUME calls \in [Calls -> Call], NEW c \in Calls, replayPublication(c)
    PROVE  /\ SameErrand(c)
           /\ \/ calls'[c].pc \in {"document", "done"} /\ calls'[c].attempt = calls[c].attempt
              \/ calls'[c].pc = "recover" /\ calls'[c].attempt \in KeyedAttempts("RESERVED")
<1>1. calls[c] \in Call
  OBVIOUS
<1>2. ASSUME NEW p \in {"document", "done"}, Goto(c, p)
      PROVE  SameErrand(c) /\ calls'[c].pc = p /\ calls'[c].attempt = calls[c].attempt
  BY <1>2, GotoChanges DEF SameErrand
<1>3. ASSUME NEW i \in KeyedAttempts("RESERVED"),
             calls' = [calls EXCEPT ![c] = [@ EXCEPT !.attempt = i, !.pc = "recover"]]
      PROVE  SameErrand(c) /\ calls'[c].pc = "recover" /\ calls'[c].attempt = i
  <2>1. OnlyMoves(c) /\ calls'[c] = [calls[c] EXCEPT !.attempt = i, !.pc = "recover"]
    BY <1>3, RecordChanges
  <2>2. QED
    BY <1>1, <2>1 DEF SameErrand, Call
<1>4. QED
  BY <1>2, <1>3 DEF replayPublication

\* A call that does not touch the keys keeps them owned, as long as it does not
\* take up a claim or come to be about to cache.
LEMMA KeysStayOwned ==
    ASSUME KeysAreOwned, NEW c \in Calls, OnlyMoves(c), keys' = keys, writes' = writes,
           HoldsKey(c)' => /\ HoldsKey(c)
                           /\ calls'[c].op = calls[c].op
                           /\ calls'[c].pc = "cache" <=> calls[c].pc = "cache"
    PROVE  KeysAreOwned'
<1>1. ASSUME NEW d \in Calls, HoldsKey(d)'
      PROVE  /\ HoldsKey(d)
             /\ calls'[d].op = calls[d].op
             /\ calls'[d].pc = "cache" <=> calls[d].pc = "cache"
  BY <1>1 DEF OnlyMoves, HoldsKey, AtPc, Publishes
<1>2. QED
  BY <1>1 DEF KeysAreOwned, KeyOf, AtPc

\* The claim of a key that has no holder, and whose operation was not written
LEMMA ClaimKeepsOwned ==
    ASSUME TypeOK, KeysAreOwned, NEW c \in Calls, claimKey(c)
    PROVE  KeysAreOwned'
<1> DEFINE op == calls[c].op
<1>1. /\ op \in Ops /\ keys \in [Ops -> Key] /\ keys[op] \in Key
      /\ keys[op].status \in {"NONE", "FAILED"}
  BY DEF TypeOK, Call, claimKey, MayClaim, KeyOf
<1>2. /\ keys'[op].status = "PENDING"
      /\ \A o \in Ops : o # op => keys'[o] = keys[o]
      /\ writes' = writes
  BY <1>1 DEF claimKey, Key
<1>3. /\ OnlyMoves(c) /\ calls'[c].op = op
      /\ calls'[c].pc \in {"reserve", "check"}
  BY DEF claimKey, Goto, OnlyMoves, TypeOK, Call
<1>4. \A d \in Calls : HoldsKey(d) => calls[d].op # op
  BY <1>1 DEF KeysAreOwned, KeyOf
<1>5. \A d \in Calls : d # c => /\ HoldsKey(d)' = HoldsKey(d)
                              /\ calls'[d].op = calls[d].op
                              /\ calls'[d].pc = calls[d].pc
  BY <1>3 DEF OnlyMoves, HoldsKey, AtPc, Publishes
<1>6. ASSUME NEW d \in Calls, HoldsKey(d)'
      PROVE  /\ keys'[calls'[d].op].status = "PENDING"
             /\ writes'[calls'[d].op] = IF calls'[d].pc = "cache" THEN 1 ELSE 0
             /\ d # c => calls'[d].op # op
  <2>1. CASE d = c
    BY <1>1, <1>2, <1>3, <2>1 DEF KeysAreOwned
  <2>2. CASE d # c
    BY <1>2, <1>4, <1>5, <1>6, <2>2 DEF KeysAreOwned, KeyOf, AtPc, TypeOK, Call
  <2>3. QED
    BY <2>1, <2>2
<1>7. \A o \in Ops :
         /\ keys'[o].status \in {"NONE", "FAILED"} => writes'[o] = 0
         /\ keys'[o].status = "SUCCEEDED" => writes'[o] = 1
         /\ writes'[o] <= 1
  BY <1>2 DEF KeysAreOwned
<1>8. \A d, e \in Calls : HoldsKey(d)' /\ HoldsKey(e)' /\ calls'[d].op = calls'[e].op => d = e
  BY <1>3, <1>5, <1>6 DEF KeysAreOwned
<1>9. QED
  BY <1>6, <1>7, <1>8 DEF KeysAreOwned, KeyOf, AtPc

\* The holder of a key acts on it alone: it writes, caches or gives up.
LEMMA HolderKeepsOwned ==
    ASSUME TypeOK, KeysAreOwned, NEW c \in Calls, HoldsKey(c), OnlyMoves(c),
           keys' \in [Ops -> Key], writes' \in [Ops -> Nat],
           \A o \in Ops : o # calls[c].op => keys'[o] = keys[o] /\ writes'[o] = writes[o],
           HoldsKey(c)' =>
               /\ calls'[c].op = calls[c].op
               /\ keys'[calls[c].op].status = "PENDING"
               /\ writes'[calls[c].op] = IF calls'[c].pc = "cache" THEN 1 ELSE 0,
           keys'[calls[c].op].status \in {"NONE", "FAILED"} => writes'[calls[c].op] = 0,
           keys'[calls[c].op].status = "SUCCEEDED" => writes'[calls[c].op] = 1,
           writes'[calls[c].op] <= 1
    PROVE  KeysAreOwned'
<1> DEFINE op == calls[c].op
<1>1. op \in Ops
  BY DEF TypeOK, Call
<1>2. \A d \in Calls : d # c => /\ HoldsKey(d)' = HoldsKey(d)
                              /\ calls'[d].op = calls[d].op
                              /\ calls'[d].pc = calls[d].pc
  BY DEF OnlyMoves, HoldsKey, AtPc, Publishes
<1>3. \A d \in Calls : d # c /\ HoldsKey(d) => calls[d].op # op
  BY DEF KeysAreOwned
<1>4. ASSUME NEW d \in Calls, HoldsKey(d)'
      PROVE  /\ keys'[calls'[d].op].status = "PENDING"
             /\ writes'[calls'[d].op] = IF calls'[d].pc = "cache" THEN 1 ELSE 0
  <2>1. CASE d = c
    BY <1>4, <2>1
  <2>2. CASE d # c
    BY <1>2, <1>3, <1>4, <2>2 DEF KeysAreOwned, KeyOf, AtPc, TypeOK, Call
  <2>3. QED
    BY <2>1, <2>2
<1>5. \A o \in Ops :
         /\ keys'[o].status \in {"NONE", "FAILED"} => writes'[o] = 0
         /\ keys'[o].status = "SUCCEEDED" => writes'[o] = 1
         /\ writes'[o] <= 1
  BY <1>1 DEF KeysAreOwned
<1>6. \A d, e \in Calls : HoldsKey(d)' /\ HoldsKey(e)' /\ calls'[d].op = calls'[e].op => d = e
  BY <1>2, <1>3 DEF KeysAreOwned
<1>7. QED
  BY <1>4, <1>5, <1>6 DEF KeysAreOwned, KeyOf, AtPc

\* No step makes a call new, or a new call a publication.
LEMMA NextKeepsIdle == TypeOK /\ NewCallsAreIdle /\ [Next]_vars => NewCallsAreIdle'
<1> SUFFICES ASSUME TypeOK, NewCallsAreIdle, [Next]_vars
             PROVE  NewCallsAreIdle'
  OBVIOUS
<1>1. calls \in [Calls -> Call]
  BY DEF TypeOK
<1>2. ASSUME NEW c \in Calls, OnlyMoves(c), calls'[c].pc # "new"
      PROVE  NewCallsAreIdle'
  BY <1>2 DEF OnlyMoves, NewCallsAreIdle, AtPc, Publishes
<1>3. ASSUME NEW c \in Calls, Continue(c)
      PROVE  OnlyMoves(c) /\ calls'[c].pc # "new"
  <2>1. calls[c] \in Call
    BY <1>1
  <2>2. CASE reservePublicationAttempt(c)
    BY <1>1, <2>2, ReservationMoves DEF Reserved, NotReserved, SameErrand
  <2>3. CASE claimKey(c)
    BY <1>1, <2>1, <2>3, GotoChanges DEF claimKey
  <2>4. CASE replayKey(c)
    BY <1>1, <2>1, <2>4 DEF replayKey, Call, NextOp, Goto, OnlyMoves
  <2>5. CASE refuseKey(c)
    BY <1>1, <2>1, <2>5 DEF refuseKey, Call, Goto, OnlyMoves
  <2>6. CASE keyWriteThrows(c)
    BY <1>1, <2>1, <2>6, GotoChanges, RecordChanges DEF keyWriteThrows, Call
  <2>7. CASE checkDispatch(c)
    BY <1>1, <2>7, CheckMoves DEF SameErrand
  <2>8. CASE providerAccepts(c)
    BY <1>1, <2>1, <2>8, GotoChanges, RecordChanges DEF providerAccepts, Call
  <2>9. CASE providerRefuses(c)
    BY <1>1, <2>1, <2>9, GotoChanges, RecordChanges DEF providerRefuses, Call
  <2>10. CASE cacheSuccess(c)
    BY <1>1, <2>1, <2>10, GotoChanges, RecordChanges DEF cacheSuccess, Call, NextOp
  <2>11. CASE failKey(c)
    BY <1>1, <2>1, <2>11, GotoChanges DEF failKey
  <2>12. CASE markFailed(c)
    BY <1>1, <2>1, <2>12, GotoChanges DEF markFailed
  <2>13. CASE blameApproval(c)
    BY <1>1, <2>1, <2>13, GotoChanges DEF blameApproval
  <2>14. CASE recordPrepared(c)
    BY <1>1, <2>1, <2>14, GotoChanges DEF recordPrepared
  <2>15. CASE recordPublished(c)
    BY <1>1, <2>1, <2>15, GotoChanges DEF recordPublished
  <2>16. CASE creditApproval(c)
    BY <1>1, <2>1, <2>16, GotoChanges DEF creditApproval
  <2>17. CASE replayPublication(c)
    BY <1>1, <2>17, ReplayMoves DEF SameErrand
  <2>18. CASE documentReplay(c)
    BY <1>1, <2>1, <2>18, GotoChanges DEF documentReplay
  <2>19. CASE writeMarketplaceHealth(c)
    <3>1. CASE Goto(c, "done")
      BY <1>1, <3>1, GotoChanges
    <3>2. CASE calls' = [calls EXCEPT ![c] =
                 [calls[c] EXCEPT !.pc = "markFailed", !.outcome = "FAILED"]]
      BY <1>1, <2>1, <3>2, RecordChanges DEF Call
    <3>3. QED
      BY <2>19, <3>1, <3>2 DEF writeMarketplaceHealth
  <2>20. QED
    BY <1>3, <2>2, <2>3, <2>4, <2>5, <2>6, <2>7, <2>8, <2>9, <2>10, <2>11, <2>12, <2>13,
       <2>14, <2>15, <2>16, <2>17, <2>18, <2>19 DEF Continue
<1>4. ASSUME NEW c \in Calls,
             \/ prepareListingForPublication(c)
             \/ \E a \in 1..MaxApprovals : publishListing(c, a)
             \/ crash(c)
      PROVE  OnlyMoves(c) /\ calls'[c].pc # "new"
  <2>1. calls[c] \in Call
    BY <1>1
  <2>2. CASE prepareListingForPublication(c)
    BY <1>1, <2>2, GotoChanges DEF prepareListingForPublication
  <2>3. CASE \E a \in 1..MaxApprovals : publishListing(c, a)
    BY <1>1, <2>1, <2>3 DEF publishListing, Call, Goto, OnlyMoves
  <2>4. CASE crash(c)
    BY <1>1, <2>4, GotoChanges DEF crash
  <2>5. QED
    BY <1>4, <2>2, <2>3, <2>4
<1>5. CASE UNCHANGED calls
  BY <1>5 DEF NewCallsAreIdle, AtPc, Publishes
<1>6. QED
  BY <1>2, <1>3, <1>4, <1>5 DEF Next, vars, requestPublicationApproval, decideApprovalRequest,
     expireApproval, SetApproval

\* Every step keeps the keys owned.
LEMMA NextKeepsOwned ==
    TypeOK /\ NewCallsAreIdle /\ KeysAreOwned /\ [Next]_vars => KeysAreOwned'
<1> SUFFICES ASSUME TypeOK, NewCallsAreIdle, KeysAreOwned, [Next]_vars
             PROVE  KeysAreOwned'
  OBVIOUS
<1>1. ASSUME NEW c \in Calls, Continue(c)
      PROVE  KeysAreOwned'
  <2> DEFINE call == calls[c]
  <2> USE DEF Goto, AtPc
  <2>1. /\ calls \in [Calls -> Call] /\ call \in Call /\ call.op \in Ops
        /\ keys \in [Ops -> Key] /\ keys[call.op] \in Key
        /\ writes \in [Ops -> Nat] /\ call.listing \in Nat
    BY DEF TypeOK, Call
  <2>2. CASE replayKey(c)
    <3>1. OnlyMoves(c) /\ keys' = keys /\ writes' = writes
      BY <2>1, <2>2 DEF replayKey, OnlyMoves
    <3>2. HoldsKey(c)' => /\ HoldsKey(c)
                          /\ calls'[c].op = call.op
                          /\ calls'[c].pc = "cache" <=> call.pc = "cache"
      <4>1. calls'[c].pc \in {"replay", "claim", "record"}
        BY <2>1, <2>2 DEF replayKey, Call, NextOp
      <4>2. QED
        BY <4>1 DEF HoldsKey, Claimed
    <3>3. QED
      BY <3>1, <3>2, KeysStayOwned
  <2>3. CASE refuseKey(c)
    <3>1. OnlyMoves(c) /\ keys' = keys /\ writes' = writes
      BY <2>1, <2>3 DEF refuseKey, OnlyMoves
    <3>2. HoldsKey(c)' => /\ HoldsKey(c)
                          /\ calls'[c].op = call.op
                          /\ calls'[c].pc = "cache" <=> call.pc = "cache"
      BY <2>1, <2>3 DEF refuseKey, HoldsKey, Claimed, Publishes, Call
    <3>3. QED
      BY <3>1, <3>2, KeysStayOwned
  <2>4. CASE keyWriteThrows(c)
    <3>1. OnlyMoves(c) /\ keys' = keys /\ writes' = writes
      BY <2>1, <2>4 DEF keyWriteThrows, OnlyMoves
    <3>2. HoldsKey(c)' => /\ HoldsKey(c)
                          /\ calls'[c].op = call.op
                          /\ calls'[c].pc = "cache" <=> call.pc = "cache"
      BY <2>1, <2>4 DEF keyWriteThrows, HoldsKey, Claimed, Publishes, Call
    <3>3. QED
      BY <3>1, <3>2, KeysStayOwned
  <2>5. CASE checkDispatch(c)
    <3>1. OnlyMoves(c) /\ keys' = keys /\ writes' = writes
      BY <2>1, <2>5 DEF checkDispatch, OnlyMoves
    <3>2. HoldsKey(c)' => /\ HoldsKey(c)
                          /\ calls'[c].op = call.op
                          /\ calls'[c].pc = "cache" <=> call.pc = "cache"
      BY <2>1, <2>5 DEF checkDispatch, HoldsKey, Claimed, Publishes, Call
    <3>3. QED
      BY <3>1, <3>2, KeysStayOwned
  <2>6. CASE providerRefuses(c)
    <3>1. OnlyMoves(c) /\ keys' = keys /\ writes' = writes
      BY <2>1, <2>6 DEF providerRefuses, OnlyMoves
    <3>2. HoldsKey(c)' => /\ HoldsKey(c)
                          /\ calls'[c].op = call.op
                          /\ calls'[c].pc = "cache" <=> call.pc = "cache"
      BY <2>1, <2>6 DEF providerRefuses, HoldsKey, Claimed, Publishes, Call
    <3>3. QED
      BY <3>1, <3>2, KeysStayOwned
  <2>7. CASE markFailed(c)
    <3>1. OnlyMoves(c) /\ keys' = keys /\ writes' = writes
      BY <2>1, <2>7 DEF markFailed, OnlyMoves
    <3>2. HoldsKey(c)' => /\ HoldsKey(c)
                          /\ calls'[c].op = call.op
                          /\ calls'[c].pc = "cache" <=> call.pc = "cache"
      BY <2>1, <2>7 DEF markFailed, HoldsKey, Claimed, Publishes, Call
    <3>3. QED
      BY <3>1, <3>2, KeysStayOwned
  <2>8. CASE blameApproval(c)
    <3>1. OnlyMoves(c) /\ keys' = keys /\ writes' = writes
      BY <2>1, <2>8 DEF blameApproval, OnlyMoves
    <3>2. HoldsKey(c)' => /\ HoldsKey(c)
                          /\ calls'[c].op = call.op
                          /\ calls'[c].pc = "cache" <=> call.pc = "cache"
      BY <2>1, <2>8 DEF blameApproval, HoldsKey, Claimed, Publishes, Call
    <3>3. QED
      BY <3>1, <3>2, KeysStayOwned
  <2>9. CASE recordPrepared(c)
    <3>1. OnlyMoves(c) /\ keys' = keys /\ writes' = writes
      BY <2>1, <2>9 DEF recordPrepared, OnlyMoves
    <3>2. HoldsKey(c)' => /\ HoldsKey(c)
                          /\ calls'[c].op = call.op
                          /\ calls'[c].pc = "cache" <=> call.pc = "cache"
      BY <2>1, <2>9 DEF recordPrepared, HoldsKey, Claimed, Publishes, Call
    <3>3. QED
      BY <3>1, <3>2, KeysStayOwned
  <2>10. CASE recordPublished(c)
    <3>1. OnlyMoves(c) /\ keys' = keys /\ writes' = writes
      BY <2>1, <2>10 DEF recordPublished, OnlyMoves
    <3>2. HoldsKey(c)' => /\ HoldsKey(c)
                          /\ calls'[c].op = call.op
                          /\ calls'[c].pc = "cache" <=> call.pc = "cache"
      BY <2>1, <2>10 DEF recordPublished, HoldsKey, Claimed, Publishes, Call
    <3>3. QED
      BY <3>1, <3>2, KeysStayOwned
  <2>11. CASE creditApproval(c)
    <3>1. OnlyMoves(c) /\ keys' = keys /\ writes' = writes
      BY <2>1, <2>11 DEF creditApproval, OnlyMoves
    <3>2. HoldsKey(c)' => /\ HoldsKey(c)
                          /\ calls'[c].op = call.op
                          /\ calls'[c].pc = "cache" <=> call.pc = "cache"
      BY <2>1, <2>11 DEF creditApproval, HoldsKey, Claimed, Publishes, Call
    <3>3. QED
      BY <3>1, <3>2, KeysStayOwned
  <2>12. CASE replayPublication(c)
    <3>1. OnlyMoves(c) /\ keys' = keys /\ writes' = writes
      BY <2>1, <2>12 DEF replayPublication, OnlyMoves
    <3>2. HoldsKey(c)' => /\ HoldsKey(c)
                          /\ calls'[c].op = call.op
                          /\ calls'[c].pc = "cache" <=> call.pc = "cache"
      <4>1. calls'[c].pc \in {"document", "recover", "done"}
        BY <2>1, <2>12, ReplayMoves
      <4>2. QED
        BY <4>1 DEF HoldsKey, Claimed
    <3>3. QED
      BY <3>1, <3>2, KeysStayOwned
  <2>13. CASE documentReplay(c)
    <3>1. OnlyMoves(c) /\ keys' = keys /\ writes' = writes
      BY <2>1, <2>13 DEF documentReplay, OnlyMoves
    <3>2. HoldsKey(c)' => /\ HoldsKey(c)
                          /\ calls'[c].op = call.op
                          /\ calls'[c].pc = "cache" <=> call.pc = "cache"
      BY <2>1, <2>13 DEF documentReplay, HoldsKey, Claimed, Publishes, Call
    <3>3. QED
      BY <3>1, <3>2, KeysStayOwned
  <2>14. CASE reservePublicationAttempt(c)
    <3>1. OnlyMoves(c) /\ keys' = keys /\ writes' = writes
      BY <2>1, <2>14 DEF reservePublicationAttempt, OnlyMoves
    <3>2. HoldsKey(c)' => /\ HoldsKey(c)
                          /\ calls'[c].op = call.op
                          /\ calls'[c].pc = "cache" <=> call.pc = "cache"
      <4>1. call.pc = "reserve" /\ calls'[c].op = call.op
        BY <2>1, <2>14, ReservationMoves
           DEF reservePublicationAttempt, Reserved, NotReserved, SameErrand
      <4>2. calls'[c].pc \in IF Publishes(c) THEN {"check", "failKey"} ELSE {"claim", "done"}
        BY <2>1, <2>14, ReservationMoves DEF Reserved, NotReserved
      <4>3. QED
        BY <4>1, <4>2 DEF HoldsKey, Claimed, Publishes
    <3>3. QED
      BY <3>1, <3>2, KeysStayOwned
  <2>15. CASE claimKey(c)
    BY <2>15, ClaimKeepsOwned
  <2>16. CASE providerAccepts(c)
    <3>1. HoldsKey(c) /\ OnlyMoves(c) /\ writes[call.op] = IF call.pc = "cache" THEN 1 ELSE 0
      BY <2>1, <2>16 DEF providerAccepts, HoldsKey, Claimed, OnlyMoves, KeysAreOwned
    <3>2. /\ keys' \in [Ops -> Key] /\ writes' \in [Ops -> Nat]
          /\ \A o \in Ops : o # call.op => keys'[o] = keys[o] /\ writes'[o] = writes[o]
          /\ writes'[call.op] = writes[call.op] + 1 /\ keys' = keys
      BY <2>1, <2>16 DEF providerAccepts, Key, KeyStatuses
    <3>3. keys[call.op].status = "PENDING"
      BY <3>1 DEF KeysAreOwned, KeyOf
    <3>4. HoldsKey(c)' => calls'[c].op = call.op /\ calls'[c].pc = "cache" /\ call.pc = "dispatch"
      BY <2>1, <2>16 DEF providerAccepts, HoldsKey, Claimed, Publishes, Call
    <3>5. call.pc \in {"dispatch", "cache", "failKey"}
      BY <2>16 DEF providerAccepts
    <3>6. QED
      BY <2>1, <2>16, <3>1, <3>2, <3>3, <3>4, <3>5, HolderKeepsOwned DEF providerAccepts
  <2>17. CASE cacheSuccess(c)
    <3>1. HoldsKey(c) /\ OnlyMoves(c) /\ writes[call.op] = IF call.pc = "cache" THEN 1 ELSE 0
      BY <2>1, <2>17 DEF cacheSuccess, HoldsKey, Claimed, OnlyMoves, KeysAreOwned
    <3>2. /\ keys' \in [Ops -> Key] /\ writes' \in [Ops -> Nat]
          /\ \A o \in Ops : o # call.op => keys'[o] = keys[o] /\ writes'[o] = writes[o]
          /\ keys'[call.op].status = "SUCCEEDED" /\ writes' = writes
      BY <2>1, <2>17 DEF cacheSuccess, Key, KeyStatuses
    <3>3. keys[call.op].status = "PENDING"
      BY <3>1 DEF KeysAreOwned, KeyOf
    <3>4. HoldsKey(c)' => calls'[c].op = call.op /\ calls'[c].pc = "cache" /\ call.pc = "dispatch"
      BY <2>1, <2>17 DEF cacheSuccess, HoldsKey, Claimed, Publishes, Call, NextOp
    <3>5. call.pc \in {"dispatch", "cache", "failKey"}
      BY <2>17 DEF cacheSuccess
    <3>6. QED
      BY <2>1, <2>17, <3>1, <3>2, <3>3, <3>4, <3>5, HolderKeepsOwned DEF cacheSuccess
  <2>18. CASE failKey(c)
    <3>1. HoldsKey(c) /\ OnlyMoves(c) /\ writes[call.op] = IF call.pc = "cache" THEN 1 ELSE 0
      BY <2>1, <2>18 DEF failKey, HoldsKey, Claimed, OnlyMoves, KeysAreOwned
    <3>2. /\ keys' \in [Ops -> Key] /\ writes' \in [Ops -> Nat]
          /\ \A o \in Ops : o # call.op => keys'[o] = keys[o] /\ writes'[o] = writes[o]
          /\ keys'[call.op].status = "FAILED" /\ writes' = writes
      BY <2>1, <2>18 DEF failKey, Key, KeyStatuses
    <3>3. keys[call.op].status = "PENDING"
      BY <3>1 DEF KeysAreOwned, KeyOf
    <3>4. HoldsKey(c)' => calls'[c].op = call.op /\ calls'[c].pc = "cache" /\ call.pc = "dispatch"
      BY <2>1, <2>18 DEF failKey, HoldsKey, Claimed, Publishes, Call
    <3>5. call.pc \in {"dispatch", "cache", "failKey"}
      BY <2>18 DEF failKey
    <3>6. QED
      BY <2>1, <2>18, <3>1, <3>2, <3>3, <3>4, <3>5, HolderKeepsOwned DEF failKey
  <2>19. CASE writeMarketplaceHealth(c)
    <3>1. OnlyMoves(c) /\ keys' = keys /\ writes' = writes
      BY <2>1, <2>19 DEF writeMarketplaceHealth, OnlyMoves
    <3>2. ~HoldsKey(c)'
      BY <2>1, <2>19 DEF writeMarketplaceHealth, HoldsKey, Claimed, Call
    <3>3. QED
      BY <3>1, <3>2, KeysStayOwned
  <2>20. QED
    BY <1>1, <2>2, <2>3, <2>4, <2>5, <2>6, <2>7, <2>8, <2>9, <2>10, <2>11, <2>12, <2>13,
       <2>14, <2>15, <2>16, <2>17, <2>18, <2>19 DEF Continue
<1>2. ASSUME NEW c \in Calls,
             \/ prepareListingForPublication(c)
             \/ \E a \in 1..MaxApprovals : publishListing(c, a)
             \/ crash(c)
      PROVE  KeysAreOwned'
  <2>1. calls \in [Calls -> Call] /\ calls[c] \in Call
    BY DEF TypeOK
  <2>2. OnlyMoves(c) /\ keys' = keys /\ writes' = writes
    BY <1>2, <2>1 DEF prepareListingForPublication, publishListing, crash, Goto, OnlyMoves
  <2>3. calls[c].pc = "new" => calls[c].op # Publish
    BY DEF NewCallsAreIdle, AtPc, Publishes
  <2>4. \/ calls'[c].pc \in {"claim", "done", "crashed"}
        \/ calls'[c].pc = "reserve" /\ calls'[c].op # Publish
    BY <1>2, <2>1, <2>3 DEF prepareListingForPublication, publishListing, crash, Goto, AtPc, Call
  <2>5. ~HoldsKey(c)'
    BY <2>4 DEF HoldsKey, Claimed, AtPc, Publishes
  <2>6. QED
    BY <2>2, <2>5, KeysStayOwned
<1>3. CASE UNCHANGED <<keys, calls, writes>>
  BY <1>3 DEF KeysAreOwned, HoldsKey, KeyOf, AtPc, Publishes
<1>4. QED
  BY <1>1, <1>2, <1>3 DEF Next, vars, requestPublicationApproval, decideApprovalRequest,
     expireApproval, SetApproval

\* The provider accepts each operation at most once.
THEOREM WrittenAtMostOnce == Spec => []WriteAtMostOnce
<1>1. Init => KeysAreOwned
  BY OpsNumbered DEF Init, KeysAreOwned, HoldsKey, NewCall, NoKey, Claimed, AtPc
<1>2. KeysAreOwned => WriteAtMostOnce
  BY DEF KeysAreOwned, WriteAtMostOnce
<1>3. Init => NewCallsAreIdle
  BY OpsNumbered DEF Init, NewCallsAreIdle, NewCall, Publishes
<1>4. QED
  BY <1>1, <1>2, <1>3, TypeCorrect, NextKeepsIdle, NextKeepsOwned, PTL DEF Spec

-----------------------------------------------------------------------------
(* The rate limit, and the approval of what is published *)

\* A preparation that has reserved its attempt and not yet recorded an outcome
Prepares(c) == ~Publishes(c) /\ calls[c].pc \in {"claim", "check", "dispatch", "cache", "record"}

\* A call that has not come to its reservation
Unreserved(c) == calls[c].pc \in {"new", "reserve"} \/ (Publishes(c) /\ AtPc(c, "claim"))

\* A preparation is alone with its attempt, which stays RESERVED until the
\* preparation says otherwise; publications only have attempts with their key.
AttemptsAreOwned ==
    /\ \A c \in Calls :
         /\ Unreserved(c) => calls[c].attempt = 0
         /\ AtPc(c, "replay") => Publishes(c)
         /\ calls[c].attempt # 0 => attempts[calls[c].attempt].keyed = Publishes(c)
         /\ Prepares(c) => calls[c].attempt # 0 /\ attempts[calls[c].attempt].status = "RESERVED"
    /\ \A c, d \in Calls :
         ~Publishes(c) /\ calls[c].attempt # 0 /\ calls[d].attempt = calls[c].attempt => c = d

\* pcs of a publication that has looked at its approval
Checked == {"dispatch", "cache", "record", "credit"}

\* An approval is approved by a decision, and a publication that dispatches has
\* found its own approved for the attempt it publishes.
ApprovalsAreChecked ==
    /\ \A a \in 1..Len(approvals) : approvals[a].state = "APPROVED" => approvals[a].decided
    /\ \A c \in Calls : Publishes(c) =>
         /\ calls[c].approval # 0
         /\ calls[c].pc \in Checked =>
              /\ approvals[calls[c].approval].decided
              /\ approvals[calls[c].approval].attempt = calls[c].prepared

\* A step in which a call stays with its attempt and its errand
Keeps(c) ==
    /\ OnlyMoves(c)
    /\ calls'[c].attempt = calls[c].attempt
    /\ Publishes(c)' = Publishes(c)
    /\ calls'[c].prepared = calls[c].prepared /\ calls'[c].approval = calls[c].approval
    /\ Prepares(c)' => Prepares(c)
    /\ Unreserved(c)' => Unreserved(c)
    /\ calls'[c].pc = "replay" => Publishes(c)
    /\ Publishes(c) /\ calls'[c].pc \in Checked => calls[c].pc \in Checked \/ MayDispatch(c)

IsCounted(row) == row.status \in {"RESERVED", "READY_FOR_PUBLISH", "PUBLISHED"}

\* What a step of a call may do to the rows: add one that does not count, or
\* change its own once it has stopped preparing.
RowsKept(c) ==
    /\ Len(attempts') >= Len(attempts)
    /\ \A i \in 1..Len(attempts) :
         /\ attempts'[i].keyed = attempts[i].keyed
         /\ attempts'[i] = attempts[i] \/ (i = calls[c].attempt /\ ~Prepares(c)')
         /\ IsCounted(attempts'[i]) => IsCounted(attempts[i])
    /\ \A i \in 1..Len(attempts') : i > Len(attempts) => ~IsCounted(attempts'[i])

\* A call that only goes elsewhere
LEMMA GotoKeeps ==
    ASSUME calls \in [Calls -> Call], NEW c \in Calls, NEW p, Goto(c, p),
           p \in {"claim", "check", "dispatch", "cache", "record"} /\ ~Publishes(c) => Prepares(c),
           p = "new" \/ p = "reserve" \/ (p = "claim" /\ Publishes(c)) => Unreserved(c),
           p = "replay" => Publishes(c),
           p \in Checked /\ Publishes(c) => calls[c].pc \in Checked \/ MayDispatch(c)
    PROVE  Keeps(c)
<1>1. /\ OnlyMoves(c) /\ calls'[c].pc = p /\ calls'[c].op = calls[c].op
      /\ calls'[c].attempt = calls[c].attempt /\ calls'[c].prepared = calls[c].prepared
      /\ calls'[c].approval = calls[c].approval
  BY GotoChanges
<1>2. QED
  BY <1>1 DEF Keeps, Publishes, Prepares, Unreserved, AtPc

\* Every operation of a call but the reservation and the replay keeps it.
LEMMA ContinueKeeps ==
    ASSUME TypeOK, NEW c \in Calls, Continue(c)
    PROVE  \/ Keeps(c)
           \/ reservePublicationAttempt(c)
           \/ replayPublication(c)
<1>1. calls \in [Calls -> Call] /\ calls[c] \in Call
  BY DEF TypeOK
<1> USE DEF AtPc, Prepares, Unreserved, Checked
<1>2. CASE claimKey(c)
  BY <1>1, <1>2, GotoKeeps DEF claimKey
<1>3. CASE replayKey(c)
  <2>1. CASE Publishes(c)
    BY <1>1, <1>3, <2>1, GotoKeeps DEF replayKey
  <2>2. CASE ~Publishes(c)
    <3> DEFINE r == [NextOp(c) EXCEPT !.listing =
                       IF calls[c].op = Draft THEN KeyOf(c).result ELSE calls[c].listing]
    <3>1. calls' = [calls EXCEPT ![c] = r]
      BY <1>3, <2>2 DEF replayKey
    <3>2. /\ r.attempt = calls[c].attempt /\ r.prepared = calls[c].prepared
          /\ r.approval = calls[c].approval /\ r.pc \in {"claim", "record"}
          /\ r.op # Publish
      BY <1>1, <2>2, OpsNumbered DEF NextOp, Call, Publishes
    <3> HIDE DEF r
    <3>3. OnlyMoves(c) /\ calls'[c] = r
      BY <1>1, <3>1, RecordChanges
    <3>4. QED
      BY <1>3, <2>2, <3>2, <3>3 DEF Keeps, Publishes, replayKey
  <2>3. QED
    BY <2>1, <2>2
<1>4. CASE \E p \in {"done", "markFailed", "failKey"}, o \in {"FAILED", "BLOCKED"} :
             calls' = [calls EXCEPT ![c] = [@ EXCEPT !.pc = p, !.outcome = o]]
  <2>1. PICK p \in {"done", "markFailed", "failKey"}, o \in {"FAILED", "BLOCKED"} :
             calls' = [calls EXCEPT ![c] = [calls[c] EXCEPT !.pc = p, !.outcome = o]]
    BY <1>4
  <2>2. OnlyMoves(c) /\ calls'[c] = [calls[c] EXCEPT !.pc = p, !.outcome = o]
    BY <1>1, <2>1, RecordChanges
  <2>3. QED
    BY <1>1, <2>2 DEF Keeps, Publishes, Call
<1>5. CASE refuseKey(c) \/ keyWriteThrows(c) \/ providerRefuses(c)
  BY <1>4, <1>5 DEF refuseKey, keyWriteThrows, providerRefuses
<1>6. CASE checkDispatch(c)
  <2>1. CASE MayDispatch(c) /\ Goto(c, "dispatch")
    BY <1>1, <1>6, <2>1, GotoKeeps DEF checkDispatch
  <2>2. QED
    BY <1>4, <1>6, <2>1 DEF checkDispatch
<1>7. CASE providerAccepts(c)
  <2> DEFINE r == [calls[c] EXCEPT !.pc = "cache",
                     !.listing = IF calls[c].op = Draft THEN writes[calls[c].op] + 1 ELSE calls[c].listing]
  <2>1. calls' = [calls EXCEPT ![c] = r] /\ calls[c].pc = "dispatch"
    BY <1>7 DEF providerAccepts
  <2>2. OnlyMoves(c) /\ calls'[c] = r
    BY <1>1, <2>1, RecordChanges
  <2>3. QED
    BY <1>1, <2>1, <2>2 DEF Keeps, Publishes, Call
<1>8. CASE cacheSuccess(c)
  <2> DEFINE r == IF Publishes(c) THEN [calls[c] EXCEPT !.pc = "record"] ELSE NextOp(c)
  <2>1. calls' = [calls EXCEPT ![c] = r] /\ calls[c].pc = "cache"
    BY <1>8 DEF cacheSuccess
  <2>2. /\ r.attempt = calls[c].attempt /\ r.prepared = calls[c].prepared
        /\ r.approval = calls[c].approval /\ (r.op = Publish <=> Publishes(c))
        /\ r.pc \in IF Publishes(c) THEN {"record"} ELSE {"claim", "record"}
    BY <1>1, OpsNumbered DEF NextOp, Call, Publishes
  <2> HIDE DEF r
  <2>3. OnlyMoves(c) /\ calls'[c] = r
    BY <1>1, <2>1, RecordChanges
  <2>4. QED
    BY <2>1, <2>2, <2>3 DEF Keeps, Publishes
<1>9. CASE failKey(c) \/ markFailed(c) \/ blameApproval(c) \/ recordPrepared(c) \/ documentReplay(c)
  BY <1>1, <1>9, GotoKeeps DEF failKey, markFailed, blameApproval, recordPrepared, documentReplay
<1>10. CASE recordPublished(c) \/ creditApproval(c)
  BY <1>1, <1>10, GotoKeeps DEF recordPublished, creditApproval
<1>11. CASE writeMarketplaceHealth(c)
  <2>1. CASE Goto(c, "done")
    BY <1>1, <2>1, GotoKeeps
  <2>2. QED
    BY <1>4, <1>11, <2>1 DEF writeMarketplaceHealth
<1>12. QED
  BY <1>2, <1>3, <1>5, <1>6, <1>7, <1>8, <1>9, <1>10, <1>11 DEF Continue

\* What every operation of a call but the reservation does to the rows
LEMMA ContinueKeepsRows ==
    ASSUME TypeOK, AttemptsAreOwned, NEW c \in Calls, Continue(c), ~reservePublicationAttempt(c)
    PROVE  RowsKept(c)
<1>1. /\ calls \in [Calls -> Call] /\ calls[c] \in Call /\ attempts \in Seq(Attempt)
      /\ Len(attempts) \in Nat /\ calls[c].attempt \in 0..Len(attempts) /\ keys \in [Ops -> Key]
  BY DEF TypeOK
<1>2. CASE attempts' = attempts
  BY <1>1, <1>2 DEF RowsKept
<1>3. ASSUME NEW v, attempts' = [attempts EXCEPT ![calls[c].attempt] = v], ~Prepares(c)',
             calls[c].attempt # 0 =>
                 /\ v \in Attempt /\ v.keyed = attempts[calls[c].attempt].keyed
                 /\ IsCounted(v) => IsCounted(attempts[calls[c].attempt])
      PROVE  RowsKept(c)
  <2>1. /\ Len(attempts') = Len(attempts)
        /\ \A j \in 1..Len(attempts) : attempts'[j] = IF j = calls[c].attempt THEN v ELSE attempts[j]
    <3>1. calls[c].attempt \in 1..Len(attempts) => v \in Attempt
      BY <1>1, <1>3
    <3>2. QED
      BY <1>1, <1>3, <3>1, ReplaceMember
  <2>2. QED
    BY <1>1, <1>3, <2>1 DEF RowsKept
<1>4. calls[c].attempt # 0 => attempts[calls[c].attempt] \in Attempt
  BY <1>1
<1>5. CASE markFailed(c)
  <2>1. ~Prepares(c)'
    BY <1>1, <1>5, GotoChanges DEF markFailed, Prepares
  <2>2. calls[c].attempt # 0 =>
          LET v == [attempts[calls[c].attempt] EXCEPT !.status = calls[c].outcome]
          IN  /\ v \in Attempt /\ v.keyed = attempts[calls[c].attempt].keyed
              /\ ~IsCounted(v)
    BY <1>1, <1>4 DEF Attempt, AttemptStatuses, Call, IsCounted
  <2>3. attempts' = [attempts EXCEPT ![calls[c].attempt] =
                       [attempts[calls[c].attempt] EXCEPT !.status = calls[c].outcome]]
    BY <1>5 DEF markFailed
  <2>4. QED
    BY <1>3, <2>1, <2>2, <2>3
<1>6. CASE recordPrepared(c)
  <2>1. ~Prepares(c)'
    BY <1>1, <1>6, GotoChanges DEF recordPrepared, Prepares
  <2>2. calls[c].attempt # 0 => IsCounted(attempts[calls[c].attempt])
    BY <1>6 DEF AttemptsAreOwned, Prepares, recordPrepared, AtPc, IsCounted
  <2>3. calls[c].attempt # 0 =>
          LET v == [attempts[calls[c].attempt] EXCEPT !.status = "READY_FOR_PUBLISH",
                                                      !.listing = calls[c].listing]
          IN  v \in Attempt /\ v.keyed = attempts[calls[c].attempt].keyed
    BY <1>1, <1>4 DEF Attempt, AttemptStatuses, Call
  <2>4. attempts' = [attempts EXCEPT ![calls[c].attempt] =
                       [attempts[calls[c].attempt] EXCEPT !.status = "READY_FOR_PUBLISH",
                                                          !.listing = calls[c].listing]]
    BY <1>6 DEF recordPrepared
  <2>5. QED
    BY <1>3, <2>1, <2>2, <2>3, <2>4
<1>7. CASE recordPublished(c)
  <2>1. ~Prepares(c)'
    BY <1>1, <1>7, GotoChanges DEF recordPublished, Prepares, Publishes
  <2>2. CASE attempts[calls[c].attempt].status = "RESERVED"
    <3>1. IsCounted(attempts[calls[c].attempt])
      BY <2>2 DEF IsCounted
    <3>2. calls[c].attempt # 0 =>
            LET v == [attempts[calls[c].attempt] EXCEPT !.status = "PUBLISHED",
                                                        !.listing = calls[c].listing]
            IN  v \in Attempt /\ v.keyed = attempts[calls[c].attempt].keyed
      BY <1>1, <1>4 DEF Attempt, AttemptStatuses, Call
    <3>3. attempts' = [attempts EXCEPT ![calls[c].attempt] =
                         [attempts[calls[c].attempt] EXCEPT !.status = "PUBLISHED",
                                                            !.listing = calls[c].listing]]
      BY <1>7, <2>2 DEF recordPublished
    <3>4. QED
      BY <1>3, <2>1, <3>1, <3>2, <3>3
  <2>3. QED
    BY <1>2, <1>7, <2>2 DEF recordPublished
<1>8. CASE documentReplay(c)
  <2> DEFINE row == [status |-> "IDEMPOTENT_REPLAY", listing |-> KeyOf(c).result, keyed |-> TRUE]
  <2>1. row \in Attempt /\ ~IsCounted(row)
    BY <1>1 DEF Attempt, AttemptStatuses, KeyOf, Key, Call, IsCounted
  <2>2. attempts' = Append(attempts, row)
    BY <1>8 DEF documentReplay
  <2> HIDE DEF row
  <2>3. QED
    BY <1>1, <2>1, <2>2, AppendMember DEF RowsKept
<1>9. QED
  BY <1>2, <1>5, <1>6, <1>7, <1>8 DEF Continue, claimKey, replayKey, refuseKey, keyWriteThrows,
     checkDispatch, providerAccepts, providerRefuses, cacheSuccess, failKey, blameApproval,
     writeMarketplaceHealth, creditApproval, replayPublication

\* A step that keeps a call with its attempt keeps attempts owned.
LEMMA KeepsOwned ==
    ASSUME TypeOK, AttemptsAreOwned, NEW c \in Calls, Keeps(c), RowsKept(c)
    PROVE  AttemptsAreOwned'
<1>1. /\ Len(attempts) \in Nat /\ \A d \in Calls : calls[d].attempt \in 0..Len(attempts)
  BY DEF TypeOK
<1>2. ASSUME NEW d \in Calls
      PROVE  /\ calls'[d].attempt = calls[d].attempt /\ Publishes(d)' = Publishes(d)
             /\ Prepares(d)' => Prepares(d)
             /\ Unreserved(d)' => Unreserved(d)
             /\ AtPc(d, "replay")' => Publishes(d) \/ AtPc(d, "replay")
  BY DEF Keeps, OnlyMoves, Publishes, Prepares, Unreserved, AtPc
<1>3. ASSUME NEW d \in Calls, calls[d].attempt # 0
      PROVE  /\ attempts'[calls[d].attempt].keyed = attempts[calls[d].attempt].keyed
             /\ Prepares(d)' => attempts'[calls[d].attempt] = attempts[calls[d].attempt]
  <2>1. calls[d].attempt \in 1..Len(attempts)
    BY <1>1, <1>3
  <2>2. /\ attempts'[calls[d].attempt].keyed = attempts[calls[d].attempt].keyed
        /\ \/ attempts'[calls[d].attempt] = attempts[calls[d].attempt]
           \/ calls[d].attempt = calls[c].attempt /\ ~Prepares(c)'
    BY <2>1 DEF RowsKept
  <2>3. Prepares(d)' /\ calls[d].attempt = calls[c].attempt => d = c
    BY <1>2, <1>3 DEF AttemptsAreOwned, Prepares
  <2>4. QED
    BY <2>2, <2>3
<1>4. QED
  BY <1>2, <1>3 DEF AttemptsAreOwned

\* A reservation gives the call an attempt that no other call has.
LEMMA ReservationKeepsOwned ==
    ASSUME TypeOK, AttemptsAreOwned, NEW c \in Calls, AtPc(c, "reserve"), Reserved(c)
    PROVE  AttemptsAreOwned'
<1> DEFINE row == [Row("RESERVED") EXCEPT !.keyed = Publishes(c)]
<1>1. /\ attempts \in Seq(Attempt) /\ Len(attempts) \in Nat
      /\ \A d \in Calls : calls[d].attempt \in 0..Len(attempts)
  BY DEF TypeOK
<1>2. row \in Attempt /\ row.status = "RESERVED" /\ row.keyed = Publishes(c)
  BY DEF Row, Attempt, AttemptStatuses, Publishes
<1>3. attempts' = Append(attempts, row)
  BY DEF Reserved
<1> HIDE DEF row
<1>4. /\ \A i \in 1..Len(attempts) : attempts'[i] = attempts[i]
      /\ attempts'[Len(attempts) + 1] = row
  BY <1>1, <1>2, <1>3, AppendMember
<1>5. /\ calls'[c].attempt = Len(attempts) + 1 /\ calls'[c].attempt # 0
      /\ Publishes(c)' = Publishes(c)
      /\ ~Unreserved(c)' /\ ~AtPc(c, "replay")'
  BY <1>1 DEF Reserved, SameErrand, Publishes, Unreserved, AtPc
<1>6. ASSUME NEW d \in Calls, d # c
      PROVE  /\ calls'[d].attempt = calls[d].attempt /\ Publishes(d)' = Publishes(d)
             /\ Prepares(d)' = Prepares(d) /\ Unreserved(d)' = Unreserved(d)
             /\ AtPc(d, "replay")' = AtPc(d, "replay")
             /\ calls[d].attempt # 0 => attempts'[calls[d].attempt] = attempts[calls[d].attempt]
             /\ calls'[d].attempt # Len(attempts) + 1
  <2>1. calls'[d] = calls[d]
    BY <1>6 DEF Reserved, SameErrand, OnlyMoves
  <2>2. /\ calls[d].attempt # 0 => calls[d].attempt \in 1..Len(attempts)
        /\ calls[d].attempt # Len(attempts) + 1
    BY <1>1
  <2>3. QED
    BY <1>4, <2>1, <2>2 DEF Publishes, Prepares, Unreserved, AtPc
<1>7. QED
  BY <1>2, <1>4, <1>5, <1>6 DEF AttemptsAreOwned

\* Every operation of a call keeps attempts owned.
LEMMA ContinueKeepsAttempts ==
    ASSUME TypeOK, AttemptsAreOwned, NEW c \in Calls, Continue(c)
    PROVE  AttemptsAreOwned'
<1>1. calls \in [Calls -> Call] /\ calls[c] \in Call /\ Len(attempts) \in Nat /\ attempts \in Seq(Attempt)
  BY DEF TypeOK
<1>2. CASE Keeps(c) /\ ~reservePublicationAttempt(c)
  BY <1>2, ContinueKeepsRows, KeepsOwned
<1>3. CASE reservePublicationAttempt(c)
  <2>1. AtPc(c, "reserve")
    BY <1>3 DEF reservePublicationAttempt
  <2>2. CASE NotReserved(c)
    <3>1. Keeps(c)
      BY <2>2 DEF NotReserved, SameErrand, Keeps, Publishes, Prepares, Unreserved, AtPc, Checked
    <3>2. RowsKept(c)
      <4> DEFINE row == [Row("BLOCKED") EXCEPT !.keyed = Publishes(c)]
      <4>1. row \in Attempt /\ ~IsCounted(row)
        BY DEF Row, Attempt, AttemptStatuses, Publishes, IsCounted
      <4>2. attempts' = attempts \/ attempts' = Append(attempts, row)
        BY <2>2 DEF NotReserved
      <4> HIDE DEF row
      <4>3. QED
        BY <1>1, <4>1, <4>2, AppendMember DEF RowsKept
    <3>3. QED
      BY <3>1, <3>2, KeepsOwned
  <2>3. QED
    BY <1>1, <1>3, <2>1, <2>2, ReservationMoves, ReservationKeepsOwned
<1>4. CASE replayPublication(c)
  <2>1. /\ calls[c].pc = "replay" /\ attempts' = attempts
    BY <1>4 DEF replayPublication, AtPc
  <2>2. /\ SameErrand(c)
        /\ \/ calls'[c].pc \in {"document", "done"} /\ calls'[c].attempt = calls[c].attempt
           \/ calls'[c].pc = "recover" /\ calls'[c].attempt \in KeyedAttempts("RESERVED")
    BY <1>1, <1>4, ReplayMoves
  <2>3. CASE calls'[c].attempt = calls[c].attempt
    <3>1. Keeps(c)
      BY <2>2, <2>3 DEF SameErrand, Keeps, Publishes, Prepares, Unreserved, AtPc, Checked
    <3>2. RowsKept(c)
      BY <1>1, <2>1 DEF RowsKept
    <3>3. QED
      BY <3>1, <3>2, KeepsOwned
  <2>4. CASE calls'[c].pc = "recover" /\ calls'[c].attempt \in KeyedAttempts("RESERVED")
    <3>1. Publishes(c) /\ Publishes(c)'
      BY <2>1, <2>2 DEF AttemptsAreOwned, SameErrand, Publishes, AtPc
    <3>2. attempts[calls'[c].attempt].keyed /\ calls'[c].attempt \in 1..Len(attempts)
      BY <2>4 DEF KeyedAttempts
    <3>3. \A d \in Calls : d # c => calls'[d] = calls[d]
      BY <2>2 DEF SameErrand, OnlyMoves
    <3>4. attempts[calls'[c].attempt].keyed = TRUE
      BY <1>1, <3>2 DEF Attempt
    <3>5. ASSUME NEW d \in Calls
          PROVE  /\ Unreserved(d)' => calls'[d].attempt = 0
                 /\ AtPc(d, "replay")' => Publishes(d)'
                 /\ calls'[d].attempt # 0 => attempts'[calls'[d].attempt].keyed = Publishes(d)'
                 /\ Prepares(d)' => /\ calls'[d].attempt # 0
                                    /\ attempts'[calls'[d].attempt].status = "RESERVED"
      <4>1. CASE d = c
        BY <2>1, <2>4, <3>1, <3>4, <4>1 DEF Unreserved, Prepares, AtPc, Publishes
      <4>2. CASE d # c
        BY <2>1, <3>3, <4>2 DEF AttemptsAreOwned, Unreserved, Prepares, AtPc, Publishes
      <4>3. QED
        BY <4>1, <4>2
    <3>6. ASSUME NEW d \in Calls, NEW e \in Calls,
                 ~Publishes(d)', calls'[d].attempt # 0, calls'[e].attempt = calls'[d].attempt
          PROVE  d = e
      <4>1. d # c /\ calls'[d] = calls[d] /\ ~Publishes(d)
        BY <3>1, <3>3, <3>6 DEF Publishes
      <4>2. CASE e = c
        <5>1. attempts[calls[d].attempt].keyed = Publishes(d)
          BY <3>6, <4>1 DEF AttemptsAreOwned
        <5>2. QED
          BY <3>4, <3>6, <4>1, <4>2, <5>1
      <4>3. CASE e # c
        BY <3>3, <3>6, <4>1, <4>3 DEF AttemptsAreOwned
      <4>4. QED
        BY <4>2, <4>3
    <3>7. QED
      BY <3>5, <3>6 DEF AttemptsAreOwned
  <2>5. QED
    BY <2>2, <2>3, <2>4
<1>5. QED
  BY <1>2, <1>3, <1>4, ContinueKeeps

\* How a call begins, and how it dies: it keeps its attempt, or becomes a
\* publication with an approval that was approved.
Begins(c) ==
    /\ OnlyMoves(c) /\ attempts' = attempts /\ AtPc(c, "new")
    /\ calls'[c].pc = "claim" /\ Publishes(c)' /\ calls'[c].attempt = calls[c].attempt
    /\ calls'[c].approval \in 1..Len(approvals)

LEMMA EntryOrCrashMoves ==
    ASSUME TypeOK, NEW c \in Calls,
           \/ prepareListingForPublication(c)
           \/ \E a \in 1..MaxApprovals : publishListing(c, a)
           \/ crash(c)
    PROVE  (Keeps(c) /\ RowsKept(c)) \/ Begins(c)
<1>1. /\ calls \in [Calls -> Call] /\ calls[c] \in Call
      /\ attempts \in Seq(Attempt) /\ Len(attempts) \in Nat
  BY DEF TypeOK
<1>2. Row("BLOCKED") \in Attempt /\ ~IsCounted(Row("BLOCKED"))
  BY DEF Row, Attempt, AttemptStatuses, IsCounted
<1>3. ASSUME attempts' = attempts \/ attempts' = Append(attempts, Row("BLOCKED"))
      PROVE  RowsKept(c)
  BY <1>1, <1>2, <1>3, AppendMember DEF RowsKept
<1>4. CASE prepareListingForPublication(c)
  <2>1. Keeps(c)
    BY <1>1, <1>4, GotoKeeps DEF prepareListingForPublication, Unreserved, AtPc, Checked
  <2>2. QED
    BY <1>3, <1>4, <2>1 DEF prepareListingForPublication
<1>5. CASE crash(c)
  <2>1. Keeps(c)
    BY <1>1, <1>5, GotoKeeps DEF crash, Checked
  <2>2. QED
    BY <1>3, <1>5, <2>1 DEF crash
<1>6. ASSUME NEW a \in 1..MaxApprovals, publishListing(c, a)
      PROVE  (Keeps(c) /\ RowsKept(c)) \/ Begins(c)
  <2>1. CASE Goto(c, "done") /\ attempts' = Append(attempts, Row("BLOCKED"))
    BY <1>1, <1>3, <2>1, GotoKeeps DEF Checked
  <2>2. ASSUME NEW i \in LatestReady,
               calls' = [calls EXCEPT ![c] =
                  [calls[c] EXCEPT !.pc = "claim", !.op = Publish, !.prepared = i,
                                   !.approval = a, !.listing = attempts[i].listing]],
               attempts' = attempts
        PROVE  Begins(c)
    <3>1. /\ OnlyMoves(c)
          /\ calls'[c] = [calls[c] EXCEPT !.pc = "claim", !.op = Publish, !.prepared = i,
                                          !.approval = a, !.listing = attempts[i].listing]
      BY <1>1, <2>2, RecordChanges
    <3>2. /\ calls'[c].pc = "claim" /\ calls'[c].op = Publish
          /\ calls'[c].attempt = calls[c].attempt /\ calls'[c].approval = a
      BY <1>1, <3>1 DEF Call
    <3>3. QED
      BY <1>6, <2>2, <3>1, <3>2 DEF Begins, publishListing, Publishes
  <2>3. QED
    BY <1>6, <2>1, <2>2 DEF publishListing
<1>7. QED
  BY <1>4, <1>5, <1>6

\* What happens to the approvals leaves calls and attempts alone.
LEMMA NextCases ==
    ASSUME [Next]_vars
    PROVE  \/ \E c \in Calls : Continue(c)
           \/ \E c \in Calls :
                \/ prepareListingForPublication(c)
                \/ \E a \in 1..MaxApprovals : publishListing(c, a)
                \/ crash(c)
           \/ /\ UNCHANGED <<attempts, calls>>
              /\ \/ \E i \in 1..Len(attempts) : requestPublicationApproval(i)
                 \/ \E a \in 1..MaxApprovals : decideApprovalRequest(a) \/ expireApproval(a)
                 \/ UNCHANGED approvals
BY DEF Next, vars, requestPublicationApproval, decideApprovalRequest, expireApproval, SetApproval

LEMMA NextKeepsAttempts == TypeOK /\ AttemptsAreOwned /\ [Next]_vars => AttemptsAreOwned'
<1> SUFFICES ASSUME TypeOK, AttemptsAreOwned, [Next]_vars
             PROVE  AttemptsAreOwned'
  OBVIOUS
<1>1. CASE \E c \in Calls : Continue(c)
  BY <1>1, ContinueKeepsAttempts
<1>2. ASSUME NEW c \in Calls, Begins(c)
      PROVE  AttemptsAreOwned'
  <2>1. calls[c].attempt = 0
    BY <1>2 DEF Begins, AttemptsAreOwned, Unreserved, AtPc
  <2>2. QED
    BY <1>2, <2>1 DEF Begins, AttemptsAreOwned, OnlyMoves, Publishes, Prepares, Unreserved, AtPc
<1>3. CASE \E c \in Calls :
             \/ prepareListingForPublication(c)
             \/ \E a \in 1..MaxApprovals : publishListing(c, a)
             \/ crash(c)
  BY <1>2, <1>3, EntryOrCrashMoves, KeepsOwned
<1>4. CASE UNCHANGED <<attempts, calls>>
  BY <1>4 DEF AttemptsAreOwned, Publishes, Prepares, Unreserved, AtPc
<1>5. QED
  BY <1>1, <1>3, <1>4, NextCases

\* Counted attempts are finitely many, and a step that keeps the rows adds none.
LEMMA CountedIsFinite ==
    ASSUME TypeOK
    PROVE  IsFiniteSet(Counted) /\ Cardinality(Counted) \in Nat
<1>1. Len(attempts) \in Nat
  BY DEF TypeOK
<1>2. IsFiniteSet(1..Len(attempts)) /\ Counted \in SUBSET (1..Len(attempts))
  BY <1>1, FS_Interval DEF Counted
<1>3. QED
  BY <1>2, FS_Subset, FS_CardinalityType

LEMMA CountedKept ==
    ASSUME TypeOK, RateLimitHolds, NEW c, RowsKept(c), Len(attempts') \in Nat
    PROVE  RateLimitHolds'
<1>1. Counted' \in SUBSET Counted
  <2>1. Len(attempts) \in Nat
    BY DEF TypeOK
  <2>2. ASSUME NEW i \in Counted'
        PROVE  i \in Counted
    BY <2>1, <2>2 DEF Counted, RowsKept, IsCounted
  <2>3. QED
    BY <2>2
<1>2. Cardinality(Counted') <= Cardinality(Counted) /\ Cardinality(Counted') \in Nat
  BY <1>1, CountedIsFinite, FS_Subset, FS_CardinalityType
<1>3. QED
  BY <1>2, CountedIsFinite, BoundAssumption DEF RateLimitHolds

LEMMA NextKeepsRateLimit ==
    TypeOK /\ AttemptsAreOwned /\ RateLimitHolds /\ [Next]_vars => RateLimitHolds'
<1> SUFFICES ASSUME TypeOK, AttemptsAreOwned, RateLimitHolds, [Next]_vars
             PROVE  RateLimitHolds'
  OBVIOUS
<1>1. /\ calls \in [Calls -> Call] /\ attempts \in Seq(Attempt)
      /\ Len(attempts) \in Nat /\ Len(attempts') \in Nat
  BY NextKeepsTypes DEF TypeOK
<1>2. ASSUME NEW c \in Calls, Reserved(c)
      PROVE  RateLimitHolds'
  <2> DEFINE row == [Row("RESERVED") EXCEPT !.keyed = Publishes(c)]
  <2>1. row \in Attempt /\ row.status = "RESERVED"
    BY DEF Row, Attempt, AttemptStatuses, Publishes
  <2>2. attempts' = Append(attempts, row) /\ HasCapacity
    BY <1>2 DEF Reserved
  <2> HIDE DEF row
  <2>3. /\ Len(attempts') = Len(attempts) + 1
        /\ \A i \in 1..Len(attempts) : attempts'[i] = attempts[i]
        /\ attempts'[Len(attempts) + 1] = row
    BY <1>1, <2>1, <2>2, AppendMember
  <2>4. Counted' = Counted \cup {Len(attempts) + 1}
    <3>1. ASSUME NEW i
          PROVE  i \in Counted' <=> i \in Counted \/ i = Len(attempts) + 1
      <4>1. i \in 1..Len(attempts') <=> i \in 1..Len(attempts) \/ i = Len(attempts) + 1
        BY <1>1, <2>3
      <4>2. QED
        BY <1>1, <2>1, <2>3, <4>1 DEF Counted
    <3>2. QED
      BY <3>1
  <2>5. Cardinality(Counted') <= Cardinality(Counted) + 1
    <3>1. Cardinality(Counted \cup {Len(attempts) + 1}) =
            IF Len(attempts) + 1 \in Counted THEN Cardinality(Counted) ELSE Cardinality(Counted) + 1
      BY CountedIsFinite, FS_AddElement
    <3>2. QED
      BY <2>4, <3>1, CountedIsFinite
  <2>6. Cardinality(Counted') \in Nat
    BY <2>4, CountedIsFinite, FS_AddElement, FS_CardinalityType
  <2>7. QED
    BY <2>2, <2>5, <2>6, CountedIsFinite, BoundAssumption DEF RateLimitHolds, HasCapacity
<1>3. ASSUME NEW c \in Calls, Continue(c)
      PROVE  RateLimitHolds'
  <2>1. CASE ~reservePublicationAttempt(c)
    BY <1>1, <1>3, <2>1, ContinueKeepsRows, CountedKept
  <2>2. CASE reservePublicationAttempt(c) /\ NotReserved(c)
    <3> DEFINE row == [Row("BLOCKED") EXCEPT !.keyed = Publishes(c)]
    <3>1. row \in Attempt /\ ~IsCounted(row)
      BY DEF Row, Attempt, AttemptStatuses, Publishes, IsCounted
    <3>2. attempts' = attempts \/ attempts' = Append(attempts, row)
      BY <2>2 DEF NotReserved
    <3> HIDE DEF row
    <3>3. RowsKept(c)
      BY <1>1, <3>1, <3>2, AppendMember DEF RowsKept
    <3>4. QED
      BY <1>1, <3>3, CountedKept
  <2>3. QED
    BY <1>1, <1>2, <2>1, <2>2, ReservationMoves
<1>4. CASE attempts' = attempts
  BY <1>4 DEF RateLimitHolds, Counted
<1>5. CASE \E c \in Calls :
             \/ prepareListingForPublication(c)
             \/ \E a \in 1..MaxApprovals : publishListing(c, a)
             \/ crash(c)
  BY <1>1, <1>4, <1>5, EntryOrCrashMoves, CountedKept DEF Begins
<1>6. QED
  BY <1>3, <1>4, <1>5, NextCases

\* Attempts that use up the account's daily limit are never more than it, in
\* spite of the first check without the lock, of retries and of crashes.
THEOREM RateLimitIsKept == Spec => []RateLimitHolds
<1>1. Init => AttemptsAreOwned
  BY OpsNumbered DEF Init, AttemptsAreOwned, NewCall, Unreserved, Prepares, Publishes, AtPc
<1>2. Init => RateLimitHolds
  <2> SUFFICES ASSUME Init PROVE RateLimitHolds
    OBVIOUS
  <2>1. Counted = {}
    BY DEF Init, Counted
  <2>2. QED
    BY <2>1, FS_EmptySet, BoundAssumption DEF RateLimitHolds
<1>3. QED
  BY <1>1, <1>2, TypeCorrect, NextKeepsAttempts, NextKeepsRateLimit, PTL DEF Spec

\* What any step leaves of the approvals: what was decided stays decided, for
\* the same attempt, and only a decision approves.
ApprovalsKept ==
    /\ Len(approvals') >= Len(approvals)
    /\ \A a \in 1..Len(approvals) :
         /\ approvals'[a].attempt = approvals[a].attempt
         /\ approvals[a].decided => approvals'[a].decided
    /\ \A a \in 1..Len(approvals') :
         approvals'[a].state = "APPROVED" =>
             approvals'[a].decided \/ (a <= Len(approvals) /\ approvals[a].state = "APPROVED")

LEMMA NextKeepsApprovals ==
    ASSUME TypeOK, [Next]_vars
    PROVE  ApprovalsKept
<1>1. approvals \in Seq(Approval) /\ Len(approvals) \in Nat
  BY DEF TypeOK
<1>2. CASE approvals' = approvals
  BY <1>1, <1>2 DEF ApprovalsKept
<1>3. ASSUME NEW a, NEW x \in {"NONE", "SUCCESS", "FAILURE"},
             approvals' = [approvals EXCEPT ![a].result = x]
      PROVE  ApprovalsKept
  <2>1. /\ Len(approvals') = Len(approvals)
        /\ \A b \in 1..Len(approvals) :
             /\ approvals'[b].state = approvals[b].state
             /\ approvals'[b].attempt = approvals[b].attempt
             /\ approvals'[b].decided = approvals[b].decided
    BY <1>1, <1>3, ResultKept
  <2>2. QED
    BY <1>1, <2>1 DEF ApprovalsKept
<1>4. ASSUME NEW i, requestPublicationApproval(i), i \in 1..Len(attempts)
      PROVE  ApprovalsKept
  <2> DEFINE v == [state |-> "PENDING", attempt |-> i, decided |-> FALSE, result |-> "NONE"]
  <2>1. v \in Approval /\ v.state # "APPROVED"
    BY <1>4 DEF Approval, ApprovalStates, TypeOK
  <2>2. approvals' = Append(approvals, v)
    BY <1>4 DEF requestPublicationApproval
  <2> HIDE DEF v
  <2>3. /\ Len(approvals') = Len(approvals) + 1
        /\ \A b \in 1..Len(approvals) : approvals'[b] = approvals[b]
        /\ approvals'[Len(approvals) + 1] = v
    BY <1>1, <2>1, <2>2, AppendMember
  <2>4. \A b \in 1..Len(approvals') : b \in 1..Len(approvals) \/ b = Len(approvals) + 1
    BY <1>1, <2>3
  <2>5. QED
    BY <1>1, <2>1, <2>3, <2>4 DEF ApprovalsKept
<1>5. ASSUME NEW a, NEW from, NEW to \in ApprovalStates, SetApproval(a, from, to)
      PROVE  ApprovalsKept
  <2> DEFINE v == [approvals[a] EXCEPT !.state = to,
                                       !.decided = approvals[a].decided \/ to = "APPROVED"]
  <2>1. a \in 1..Len(approvals) /\ approvals[a] \in Approval
    BY <1>1, <1>5 DEF SetApproval
  <2>2. /\ v \in Approval /\ v.attempt = approvals[a].attempt
        /\ approvals[a].decided => v.decided
        /\ v.state = "APPROVED" => v.decided
    BY <2>1 DEF Approval
  <2>3. approvals' = [approvals EXCEPT ![a] = v]
    BY <1>5 DEF SetApproval
  <2> HIDE DEF v
  <2>4. /\ Len(approvals') = Len(approvals)
        /\ \A b \in 1..Len(approvals) : approvals'[b] = IF b = a THEN v ELSE approvals[b]
    BY <1>1, <2>2, <2>3, ReplaceMember
  <2>5. QED
    BY <1>1, <2>2, <2>4 DEF ApprovalsKept
<1>6. ASSUME NEW c \in Calls, Continue(c)
      PROVE  ApprovalsKept
  <2>1. CASE blameApproval(c) \/ creditApproval(c)
    BY <1>3, <2>1 DEF blameApproval, creditApproval
  <2>2. QED
    BY <1>2, <1>6, <2>1 DEF Continue, reservePublicationAttempt, claimKey, replayKey, refuseKey,
       keyWriteThrows, checkDispatch, providerAccepts, providerRefuses, cacheSuccess, failKey,
       markFailed, recordPrepared, writeMarketplaceHealth, recordPublished, replayPublication,
       documentReplay
<1>7. CASE \E c \in Calls :
             \/ prepareListingForPublication(c)
             \/ \E a \in 1..MaxApprovals : publishListing(c, a)
             \/ crash(c)
  BY <1>2, <1>7 DEF prepareListingForPublication, publishListing, crash
<1>8. CASE \E a \in 1..MaxApprovals : decideApprovalRequest(a) \/ expireApproval(a)
  BY <1>5, <1>8 DEF decideApprovalRequest, expireApproval, ApprovalStates
<1>9. QED
  BY <1>2, <1>4, <1>6, <1>7, <1>8, NextCases

\* A publication keeps its approval, and passes from the check to the dispatch
\* only when it has found it approved.
LEMMA NextKeepsChecked == TypeOK /\ ApprovalsAreChecked /\ [Next]_vars => ApprovalsAreChecked'
<1> SUFFICES ASSUME TypeOK, ApprovalsAreChecked, [Next]_vars
             PROVE  ApprovalsAreChecked'
  OBVIOUS
<1>1. /\ calls \in [Calls -> Call] /\ Len(approvals) \in Nat /\ Len(approvals') \in Nat
      /\ \A c \in Calls : calls[c].approval \in 0..Len(approvals)
  BY NextKeepsTypes DEF TypeOK
<1>2. ApprovalsKept
  BY NextKeepsApprovals
<1>3. \A a \in 1..Len(approvals') : approvals'[a].state = "APPROVED" => approvals'[a].decided
  <2> TAKE a \in 1..Len(approvals')
  <2> HAVE approvals'[a].state = "APPROVED"
  <2>1. CASE a <= Len(approvals)
    BY <1>1, <1>2, <2>1 DEF ApprovalsKept, ApprovalsAreChecked
  <2>2. CASE ~(a <= Len(approvals))
    BY <1>2, <2>2 DEF ApprovalsKept
  <2>3. QED
    BY <2>1, <2>2
<1>4. ASSUME NEW d \in Calls, Publishes(d), Publishes(d)', calls'[d].approval = calls[d].approval,
             calls'[d].prepared = calls[d].prepared,
             calls'[d].pc \in Checked => calls[d].pc \in Checked \/ MayDispatch(d)
      PROVE  /\ calls'[d].approval # 0
             /\ calls'[d].pc \in Checked =>
                  /\ approvals'[calls'[d].approval].decided
                  /\ approvals'[calls'[d].approval].attempt = calls'[d].prepared
  <2>1. calls[d].approval \in 1..Len(approvals)
    BY <1>1, <1>4 DEF ApprovalsAreChecked
  <2>2. calls'[d].pc \in Checked =>
          /\ approvals[calls[d].approval].decided
          /\ approvals[calls[d].approval].attempt = calls[d].prepared
    BY <1>4, <2>1 DEF ApprovalsAreChecked, MayDispatch
  <2>3. QED
    BY <1>1, <1>2, <1>4, <2>1, <2>2 DEF ApprovalsKept
<1>5. ASSUME NEW c \in Calls, OnlyMoves(c), Publishes(c)' = Publishes(c),
             calls'[c].approval = calls[c].approval, calls'[c].prepared = calls[c].prepared,
             Publishes(c) /\ calls'[c].pc \in Checked => calls[c].pc \in Checked \/ MayDispatch(c)
      PROVE  ApprovalsAreChecked'
  <2>1. ASSUME NEW d \in Calls, Publishes(d)'
        PROVE  /\ calls'[d].approval # 0
               /\ calls'[d].pc \in Checked =>
                    /\ approvals'[calls'[d].approval].decided
                    /\ approvals'[calls'[d].approval].attempt = calls'[d].prepared
    <3>1. CASE d = c
      BY <1>4, <1>5, <2>1, <3>1
    <3>2. CASE d # c
      BY <1>4, <1>5, <2>1, <3>2 DEF OnlyMoves, Publishes
    <3>3. QED
      BY <3>1, <3>2
  <2>2. QED
    BY <1>3, <2>1 DEF ApprovalsAreChecked
<1>6. ASSUME NEW c \in Calls, Continue(c)
      PROVE  ApprovalsAreChecked'
  <2>1. CASE Keeps(c)
    BY <1>5, <2>1 DEF Keeps
  <2>2. CASE reservePublicationAttempt(c)
    <3>1. SameErrand(c) /\ calls'[c].pc \notin Checked
      BY <1>1, <2>2, ReservationMoves DEF Reserved, NotReserved, Checked
    <3>2. QED
      BY <1>5, <3>1 DEF SameErrand, Publishes
  <2>3. CASE replayPublication(c)
    <3>1. SameErrand(c) /\ calls'[c].pc \notin Checked
      BY <1>1, <2>3, ReplayMoves DEF Checked
    <3>2. QED
      BY <1>5, <3>1 DEF SameErrand, Publishes
  <2>4. QED
    BY <1>6, <2>1, <2>2, <2>3, ContinueKeeps
<1>7. ASSUME NEW c \in Calls, Begins(c)
      PROVE  ApprovalsAreChecked'
  <2>1. ASSUME NEW d \in Calls, Publishes(d)'
        PROVE  /\ calls'[d].approval # 0
               /\ calls'[d].pc \in Checked =>
                    /\ approvals'[calls'[d].approval].decided
                    /\ approvals'[calls'[d].approval].attempt = calls'[d].prepared
    <3>1. CASE d = c
      BY <1>1, <1>7, <3>1 DEF Begins, Checked
    <3>2. CASE d # c
      BY <1>4, <1>7, <2>1, <3>2 DEF Begins, OnlyMoves, Publishes
    <3>3. QED
      BY <3>1, <3>2
  <2>2. QED
    BY <1>3, <2>1 DEF ApprovalsAreChecked
<1>8. CASE \E c \in Calls :
             \/ prepareListingForPublication(c)
             \/ \E a \in 1..MaxApprovals : publishListing(c, a)
             \/ crash(c)
  BY <1>5, <1>7, <1>8, EntryOrCrashMoves DEF Keeps
<1>9. CASE UNCHANGED calls
  BY <1>3, <1>4, <1>9 DEF ApprovalsAreChecked, Publishes
<1>10. QED
  BY <1>6, <1>8, <1>9, NextCases

\* The provider is given a publication only by a call whose approval the founder
\* had given for exactly the prepared attempt that it publishes, whatever was
\* decided, revoked or expired between its reads.
THEOREM PublishedAsApproved == Spec => []PublicationWasApproved
<1>1. Init => ApprovalsAreChecked
  BY OpsNumbered DEF Init, ApprovalsAreChecked, NewCall, Publishes
<1>2. ApprovalsAreChecked => PublicationWasApproved
  BY DEF ApprovalsAreChecked, PublicationWasApproved, Checked
<1>3. QED
  BY <1>1, <1>2, TypeCorrect, NextKeepsChecked, PTL DEF Spec

-----------------------------------------------------------------------------
(* The agent factory *)

\* An agent has an identifier, and a number of children at most.
IsRequest(r) == r.id # None /\ r.ceilings["children"] \in Nat

\* Agents are finitely many records, of requests that were consumed, one of
\* each request.
AgentsAreKept ==
    /\ IsFiniteSet(agents)
    /\ \A a \in agents :
         /\ a = [request |-> a.request, depth |-> a.depth, life |-> a.life]
         /\ a.depth \in Nat /\ a.life \in {"ACTIVE", "ARCHIVED"} /\ IsRequest(a.request)
         /\ <<a.request.ws, a.request.id>> \in consumed
    /\ \A a, b \in agents :
         a.request.ws = b.request.ws /\ a.request.id = b.request.id => a = b

\* A task is linked to one objective, which is registered.
LinksAreKept ==
    /\ \A l \in links : l = <<l[1], l[2], l[3]>> /\ <<l[1], l[3]>> \in objectives
    /\ \A k, l \in links : k[1] = l[1] /\ k[2] = l[2] => k = l

LivesAreRecorded == \A ws, id : LifeIsRecorded(ws, id)

FactoryInvariant ==
    /\ templates \subseteq Templates
    /\ AgentsAreKept /\ LinksAreKept
    /\ AuthorityShrinks /\ AgentLimitsHold /\ LivesAreRecorded

\* The invariant of the factory implies what is promised of it.
LEMMA FactoryIsSound == FactoryInvariant => LineageHolds
BY DEF FactoryInvariant, LineageHolds, FactoryTypeOK, AgentsAreKept, LinksAreKept, LivesAreRecorded,
       AgentsAreAudited

\* The log of a birth
BirthIsLogged(r) ==
    \A ws, id, types :
        Recorded(ws, id, types)' <=> Recorded(ws, id, types) \/ (ws = r.ws /\ id = r.id /\ "created" \in types)

\* What instantiation found out before the agent is made
MayBeBorn(r) ==
    /\ IsRequest(r) /\ BelowAgentLimits(r.ws) /\ ParentAllows(r) /\ Depth(r) <= Limits.depth
    /\ IsUnused(r) /\ instantiate(r)

NewAgent(r) == [request |-> r, depth |-> Depth(r), life |-> "ACTIVE"]

\* The parent that instantiation looks up is an active agent.
LEMMA ParentIsFound ==
    ASSUME NEW r, r.parent # None, ParentAllows(r)
    PROVE  /\ Agent(r.ws, r.parent) \in agents
           /\ Agent(r.ws, r.parent).request.ws = r.ws
           /\ Agent(r.ws, r.parent).request.id = r.parent
           /\ Agent(r.ws, r.parent).life = "ACTIVE" /\ r.parent # r.id
BY DEF ParentAllows, ParentIsActive, HasAgent, Agent

\* The record of a new agent
LEMMA NewAgentFields ==
    ASSUME NEW r
    PROVE  /\ NewAgent(r).request = r /\ NewAgent(r).depth = Depth(r) /\ NewAgent(r).life = "ACTIVE"
           /\ NewAgent(r) = [request |-> NewAgent(r).request, depth |-> NewAgent(r).depth,
                             life |-> NewAgent(r).life]
BY DEF NewAgent

\* The depth of a new agent is a number.
LEMMA DepthIsNatural ==
    ASSUME NEW r, AgentsAreKept, ParentAllows(r)
    PROVE  Depth(r) \in Nat
<1>1. CASE r.parent = None
  BY <1>1 DEF Depth
<1>2. CASE r.parent # None
  <2>1. PICK p : p = Agent(r.ws, r.parent)
    OBVIOUS
  <2>2. p \in agents
    BY <1>2, <2>1, ParentIsFound
  <2>3. p.depth \in Nat
    BY <2>2 DEF AgentsAreKept
  <2>4. Depth(r) = p.depth + 1
    BY <1>2, <2>1 DEF Depth
  <2>5. QED
    BY <2>3, <2>4
<1>3. QED
  BY <1>1, <1>2

\* A new agent is added, and stays apart from the others.
LEMMA BirthKeepsAgents ==
    ASSUME NEW r, AgentsAreKept, MayBeBorn(r)
    PROVE  /\ agents' = agents \cup {NewAgent(r)} /\ NewAgent(r) \notin agents
           /\ AgentsAreKept'
<1>1. agents' = agents \cup {NewAgent(r)} /\ consumed' = consumed \cup {<<r.ws, r.id>>}
  BY DEF MayBeBorn, instantiate, NewAgent
<1>2. Depth(r) \in Nat /\ IsRequest(r) /\ <<r.ws, r.id>> \notin consumed
  BY DepthIsNatural DEF MayBeBorn, IsUnused
<1>3. PICK new : new = NewAgent(r)
  OBVIOUS
<1>4. /\ new.request = r /\ new.depth = Depth(r) /\ new.life = "ACTIVE"
      /\ new = [request |-> new.request, depth |-> new.depth, life |-> new.life]
  BY <1>3, NewAgentFields
<1>5. IsFiniteSet(agents')
  BY <1>1, FS_AddElement DEF AgentsAreKept
<1>6. ASSUME NEW a \in agents'
      PROVE  /\ a = [request |-> a.request, depth |-> a.depth, life |-> a.life]
             /\ a.depth \in Nat /\ a.life \in {"ACTIVE", "ARCHIVED"} /\ IsRequest(a.request)
             /\ <<a.request.ws, a.request.id>> \in consumed'
  <2>1. CASE a \in agents
    BY <2>1, <1>1 DEF AgentsAreKept
  <2>2. CASE a = new
    <3>1. /\ a.request = r /\ a.depth = Depth(r) /\ a.life = "ACTIVE"
          /\ a = [request |-> a.request, depth |-> a.depth, life |-> a.life]
      BY <2>2, <1>4
    <3>2. QED
      BY <3>1, <1>1, <1>2
  <2>3. QED
    BY <2>1, <2>2, <1>1, <1>3
<1>7. ASSUME NEW a \in agents', NEW b \in agents', a.request.ws = b.request.ws, a.request.id = b.request.id
      PROVE  a = b
  <2>1. \A x \in agents : ~(x.request.ws = r.ws /\ x.request.id = r.id)
    BY <1>2 DEF AgentsAreKept
  <2>2. QED
    BY <2>1, <1>1, <1>3, <1>4, <1>7 DEF AgentsAreKept
<1>8. NewAgent(r) \notin agents
  BY <1>2, <1>3, <1>4 DEF AgentsAreKept
<1>9. QED
  BY <1>1, <1>5, <1>6, <1>7, <1>8 DEF AgentsAreKept

\* No agent was made for a request before it was used, nor below it.
LEMMA NewAgentsHaveNoChildren ==
    ASSUME NEW r, AgentsAreKept, AuthorityShrinks, MayBeBorn(r)
    PROVE  Children(r.ws, r.id)' = {}
<1>1. \A a \in Active(agents) : ~(a.request.ws = r.ws /\ a.request.parent = r.id)
  <2>1. SUFFICES ASSUME NEW a \in Active(agents), a.request.ws = r.ws, a.request.parent = r.id
                 PROVE  FALSE
    OBVIOUS
  <2>2. r.id # None /\ <<r.ws, r.id>> \notin consumed
    BY DEF MayBeBorn, IsUnused, IsRequest
  <2>3. PICK p \in Active(agents) : p.request.ws = r.ws /\ p.request.id = r.id
    BY <2>1, <2>2 DEF AuthorityShrinks
  <2>4. QED
    BY <2>2, <2>3 DEF AgentsAreKept, Active
<1>2. agents' = agents \cup {NewAgent(r)} /\ NewAgent(r).request = r
  BY BirthKeepsAgents, NewAgentFields
<1>3. r.parent # r.id
  BY ParentIsFound DEF MayBeBorn, IsRequest
<1>4. QED
  BY <1>1, <1>2, <1>3 DEF Children, Active

\* A new agent is below its parent.
LEMMA BirthKeepsAuthority ==
    ASSUME NEW r, AgentsAreKept, AuthorityShrinks, MayBeBorn(r)
    PROVE  AuthorityShrinks'
<1>1. agents' = agents \cup {NewAgent(r)}
  BY BirthKeepsAgents
<1>2. PICK new : new = NewAgent(r)
  OBVIOUS
<1>3. new.request = r /\ new.depth = Depth(r)
  BY <1>2, NewAgentFields
<1>4. SUFFICES ASSUME NEW a \in Active(agents)', a.request.parent # None
               PROVE  \E p \in Active(agents)' :
                        /\ p.request.ws = a.request.ws /\ p.request.id = a.request.parent
                        /\ p.request.task = a.request.task
                        /\ a.request.grants \subseteq p.request.grants
                        /\ Below(a.request.ceilings, p.request.ceilings)
                        /\ a.depth = p.depth + 1
  BY DEF AuthorityShrinks, Below
<1>5. Active(agents) \subseteq Active(agents)'
  BY <1>1 DEF Active
<1>6. CASE a \in Active(agents)
  <2>1. PICK p \in Active(agents) :
                        /\ p.request.ws = a.request.ws /\ p.request.id = a.request.parent
                        /\ p.request.task = a.request.task
                        /\ a.request.grants \subseteq p.request.grants
                        /\ Below(a.request.ceilings, p.request.ceilings)
                        /\ a.depth = p.depth + 1
    BY <1>4, <1>6 DEF AuthorityShrinks
  <2>2. QED
    BY <2>1, <1>5
<1>7. CASE a = new
  <2>1. PICK p : p = Agent(r.ws, r.parent)
    OBVIOUS
  <2>2. p \in Active(agents) /\ p.request.ws = r.ws /\ p.request.id = r.parent
    BY <2>1, <1>3, <1>4, <1>7, ParentIsFound DEF MayBeBorn, Active
  <2>3. /\ p.request.task = r.task /\ r.grants \subseteq p.request.grants
        /\ Below(r.ceilings, p.request.ceilings)
    BY <2>1, <1>3, <1>4, <1>7 DEF MayBeBorn, ParentAllows, WithinParent
  <2>4. new.depth = p.depth + 1
    BY <2>1, <1>3, <1>4, <1>7 DEF Depth
  <2>5. QED
    BY <2>2, <2>3, <2>4, <1>3, <1>5, <1>7
<1>8. QED
  BY <1>1, <1>2, <1>6, <1>7 DEF Active

\* The subsets that the limits count
LEMMA CountsAreFinite ==
    ASSUME AgentsAreKept, NEW ws, NEW id
    PROVE  /\ IsFiniteSet(Active(agents)) /\ IsFiniteSet(Active(AgentsOf(ws))) /\ IsFiniteSet(Children(ws, id))
           /\ Cardinality(Active(agents)) \in Nat /\ Cardinality(Active(AgentsOf(ws))) \in Nat
           /\ Cardinality(Children(ws, id)) \in Nat
<1>1. /\ Active(agents) \subseteq agents /\ Active(AgentsOf(ws)) \subseteq agents
      /\ Children(ws, id) \subseteq agents
  BY DEF Active, AgentsOf, Children
<1>2. IsFiniteSet(agents)
  BY DEF AgentsAreKept
<1>3. IsFiniteSet(Active(agents)) /\ IsFiniteSet(Active(AgentsOf(ws))) /\ IsFiniteSet(Children(ws, id))
  BY <1>1, <1>2, FS_Subset
<1>4. QED
  BY <1>3, FS_CardinalityType

\* A new agent fits the limits, also those of its parent.
LEMMA BirthKeepsLimits ==
    ASSUME NEW r, AgentsAreKept, AuthorityShrinks, AgentLimitsHold, MayBeBorn(r)
    PROVE  AgentLimitsHold'
<1>1. agents' = agents \cup {NewAgent(r)} /\ AgentsAreKept'
  BY BirthKeepsAgents
<1>2. PICK new : new = NewAgent(r)
  OBVIOUS
<1>3. /\ new.request = r /\ new.depth = Depth(r) /\ new.life = "ACTIVE" /\ new \notin agents
      /\ agents' = agents \cup {new}
  BY <1>1, <1>2, NewAgentFields, BirthKeepsAgents
<1>4. Limits.agents \in Nat /\ Limits.concurrent \in Nat /\ Limits.workspace \in Nat /\ Limits.children \in Nat
  BY FactoryAssumption
<1>5. Cardinality(Active(agents)') <= SmallerOf(Limits.agents, Limits.concurrent)
  <2>1. Active(agents)' = Active(agents) \cup {new} /\ new \notin Active(agents)
    BY <1>3 DEF Active
  <2>2. Cardinality(Active(agents)') = Cardinality(Active(agents)) + 1 /\ Cardinality(Active(agents)) \in Nat
    BY <2>1, CountsAreFinite, FS_AddElement
  <2>3. QED
    BY <2>2, <1>4 DEF MayBeBorn, BelowAgentLimits, SmallerOf
<1>6. ASSUME NEW a \in agents'
      PROVE  Cardinality(Active(AgentsOf(a.request.ws))') <= Limits.workspace
  <2>1. CASE a.request.ws = r.ws
    <3>1. Active(AgentsOf(r.ws))' = Active(AgentsOf(r.ws)) \cup {new} /\ new \notin Active(AgentsOf(r.ws))
      BY <1>3 DEF Active, AgentsOf
    <3>2. Cardinality(Active(AgentsOf(r.ws))') = Cardinality(Active(AgentsOf(r.ws))) + 1
             /\ Cardinality(Active(AgentsOf(r.ws))) \in Nat
      BY <3>1, CountsAreFinite, FS_AddElement
    <3>3. QED
      BY <2>1, <3>2, <1>4 DEF MayBeBorn, BelowAgentLimits
  <2>2. CASE a.request.ws # r.ws
    <3>1. a \in agents
      BY <2>2, <1>3
    <3>2. Active(AgentsOf(a.request.ws))' = Active(AgentsOf(a.request.ws))
      BY <2>2, <1>3 DEF Active, AgentsOf
    <3>3. QED
      BY <3>1, <3>2 DEF AgentLimitsHold
  <2>3. QED
    BY <2>1, <2>2
<1>7. ASSUME NEW a \in agents'
      PROVE  a.depth <= Limits.depth
  BY <1>3, <1>7 DEF MayBeBorn, AgentLimitsHold
<1>8. ASSUME NEW a \in agents'
      PROVE  Cardinality(Children(a.request.ws, a.request.id)') <= a.request.ceilings["children"]
  <2>1. CASE a = new
    <3>1. Children(a.request.ws, a.request.id)' = {} /\ a.request.ceilings["children"] \in Nat
      BY <2>1, <1>3, NewAgentsHaveNoChildren DEF MayBeBorn, IsRequest
    <3>2. QED
      BY <3>1, FS_EmptySet
  <2>2. CASE a # new /\ a.request.ws = r.ws /\ a.request.id = r.parent
    <3>1. a \in agents /\ r.parent # None /\ a.request.ceilings["children"] \in Nat
      BY <2>2, <1>3 DEF AgentsAreKept, IsRequest
    <3>2. a = Agent(r.ws, r.parent)
      BY <3>1, <2>2, ParentIsFound DEF MayBeBorn, AgentsAreKept
    <3>3. Cardinality(Children(r.ws, r.parent)) < SmallerOf(a.request.ceilings["children"], Limits.children)
      BY <3>1, <3>2 DEF MayBeBorn, ParentAllows, HasRoomForChild
    <3>4. Children(r.ws, r.parent)' = Children(r.ws, r.parent) \cup {new} /\ new \notin Children(r.ws, r.parent)
      BY <1>3 DEF Children
    <3>5. Cardinality(Children(r.ws, r.parent)') = Cardinality(Children(r.ws, r.parent)) + 1
            /\ Cardinality(Children(r.ws, r.parent)) \in Nat
      BY <3>4, CountsAreFinite, FS_AddElement
    <3>6. QED
      BY <2>2, <3>1, <3>3, <3>5, <1>4 DEF SmallerOf
  <2>3. CASE a # new /\ ~(a.request.ws = r.ws /\ a.request.id = r.parent)
    <3>1. a \in agents
      BY <2>3, <1>3
    <3>2. Children(a.request.ws, a.request.id)' = Children(a.request.ws, a.request.id)
      BY <2>3, <1>3 DEF Children
    <3>3. QED
      BY <3>1, <3>2 DEF AgentLimitsHold
  <2>4. QED
    BY <2>1, <2>2, <2>3
<1>9. QED
  BY <1>5, <1>6, <1>7, <1>8 DEF AgentLimitsHold

\* The log tells of a new agent.
LEMMA BirthIsTold ==
    ASSUME NEW r, AgentsAreKept, LivesAreRecorded, MayBeBorn(r), BirthIsLogged(r)
    PROVE  LivesAreRecorded'
<1>1. SUFFICES ASSUME NEW ws, NEW id
               PROVE  LifeIsRecorded(ws, id)'
  BY DEF LivesAreRecorded
<1>2. LifeIsRecorded(ws, id)
  BY DEF LivesAreRecorded
<1>3. PICK new : new = NewAgent(r)
  OBVIOUS
<1>4. /\ new.request = r /\ new.life = "ACTIVE"
      /\ agents' = agents \cup {new} /\ consumed' = consumed \cup {<<r.ws, r.id>>}
      /\ <<r.ws, r.id>> \notin consumed
  BY <1>3, NewAgentFields, BirthKeepsAgents DEF MayBeBorn, instantiate, IsUnused
<1>5. /\ Recorded(ws, id, {"created"})' <=> Recorded(ws, id, {"created"}) \/ (ws = r.ws /\ id = r.id)
      /\ Recorded(ws, id, {"completed"})' <=> Recorded(ws, id, {"completed"})
      /\ Recorded(ws, id, {"failed"})' <=> Recorded(ws, id, {"failed"})
      /\ Recorded(ws, id, {"completed", "failed"})' <=> Recorded(ws, id, {"completed", "failed"})
  BY DEF BirthIsLogged
<1>6. QED
  BY <1>2, <1>4, <1>5 DEF LifeIsRecorded, Active

-----------------------------------------------------------------------------
(* The end of an agent *)

\* What is left of an agent that ends
Remains(a) == IF a.request.retention = "ARCHIVE" THEN {[a EXCEPT !.life = "ARCHIVED"]} ELSE {}

Ends(a) ==
    /\ a \in agents /\ a.life = "ACTIVE" /\ Children(a.request.ws, a.request.id) = {}
    /\ agents' = (agents \ {a}) \cup Remains(a) /\ consumed' = consumed

\* What is left of an agent is its archived record.
LEMMA RemainsAreArchived ==
    ASSUME NEW a, a = [request |-> a.request, depth |-> a.depth, life |-> a.life]
    PROVE  /\ IsFiniteSet(Remains(a))
           /\ \A b \in Remains(a) :
                /\ b.request = a.request /\ b.depth = a.depth /\ b.life = "ARCHIVED"
                /\ b = [request |-> b.request, depth |-> b.depth, life |-> b.life]
           /\ \A b, c \in Remains(a) : b = c
<1>1. PICK b : b = [a EXCEPT !.life = "ARCHIVED"]
  OBVIOUS
<1>2. b = [request |-> a.request, depth |-> a.depth, life |-> "ARCHIVED"]
  <2>1. [[request |-> a.request, depth |-> a.depth, life |-> a.life] EXCEPT !.life = "ARCHIVED"]
          = [request |-> a.request, depth |-> a.depth, life |-> "ARCHIVED"]
    OBVIOUS
  <2>2. QED
    BY <1>1, <2>1
<1>3. /\ b.request = a.request /\ b.depth = a.depth /\ b.life = "ARCHIVED"
      /\ b = [request |-> b.request, depth |-> b.depth, life |-> b.life]
  BY <1>2
<1>4. Remains(a) = {b} \/ Remains(a) = {}
  BY <1>1 DEF Remains
<1>5. IsFiniteSet({b}) /\ IsFiniteSet({})
  BY FS_Singleton, FS_EmptySet
<1>6. QED
  BY <1>3, <1>4, <1>5

\* An agent that ends leaves the others alone.
LEMMA EndKeepsAgents ==
    ASSUME NEW a, AgentsAreKept, Ends(a)
    PROVE  /\ AgentsAreKept'
           /\ Active(agents)' = Active(agents) \ {a}
           /\ \A b \in agents' : \E c \in agents : b.request = c.request /\ b.depth = c.depth
<1>1. /\ IsFiniteSet(Remains(a))
      /\ \A b \in Remains(a) :
            /\ b.request = a.request /\ b.depth = a.depth /\ b.life = "ARCHIVED"
            /\ b = [request |-> b.request, depth |-> b.depth, life |-> b.life]
      /\ \A b, c \in Remains(a) : b = c
  BY RemainsAreArchived DEF AgentsAreKept, Ends
<1>2. a \in agents /\ a.life = "ACTIVE" /\ agents' = (agents \ {a}) \cup Remains(a) /\ consumed' = consumed
  BY DEF Ends
<1>3. IsFiniteSet(agents')
  <2>1. IsFiniteSet(agents \ {a})
    BY FS_Subset DEF AgentsAreKept
  <2>2. QED
    BY <1>1, <1>2, <2>1, FS_Union
<1>4. \A b \in agents' : \E c \in agents : b.request = c.request /\ b.depth = c.depth
  BY <1>1, <1>2
<1>5. ASSUME NEW b \in agents'
      PROVE  /\ b = [request |-> b.request, depth |-> b.depth, life |-> b.life]
             /\ b.depth \in Nat /\ b.life \in {"ACTIVE", "ARCHIVED"} /\ IsRequest(b.request)
             /\ <<b.request.ws, b.request.id>> \in consumed'
  <2>1. b = [request |-> b.request, depth |-> b.depth, life |-> b.life] /\ b.life \in {"ACTIVE", "ARCHIVED"}
    BY <1>1, <1>2 DEF AgentsAreKept
  <2>2. PICK c \in agents : b.request = c.request /\ b.depth = c.depth
    BY <1>4
  <2>3. QED
    BY <1>2, <2>1, <2>2 DEF AgentsAreKept
<1>6. ASSUME NEW b \in agents', NEW c \in agents', b.request.ws = c.request.ws, b.request.id = c.request.id
      PROVE  b = c
  <2>1. CASE b \in agents \ {a} /\ c \in agents \ {a}
    BY <2>1, <1>6 DEF AgentsAreKept
  <2>2. CASE b \in Remains(a) /\ c \in Remains(a)
    BY <2>2, <1>1
  <2>3. CASE b \in Remains(a) /\ c \in agents \ {a}
    BY <2>3, <1>1, <1>2, <1>6 DEF AgentsAreKept
  <2>4. CASE c \in Remains(a) /\ b \in agents \ {a}
    BY <2>4, <1>1, <1>2, <1>6 DEF AgentsAreKept
  <2>5. QED
    BY <1>2, <2>1, <2>2, <2>3, <2>4
<1>7. Active(agents)' = Active(agents) \ {a}
  BY <1>1, <1>2 DEF Active
<1>8. QED
  BY <1>3, <1>4, <1>5, <1>6, <1>7 DEF AgentsAreKept

\* No active agent loses its parent.
LEMMA EndKeepsAuthority ==
    ASSUME NEW a, AgentsAreKept, AuthorityShrinks, Ends(a)
    PROVE  AuthorityShrinks'
<1>1. Active(agents)' = Active(agents) \ {a}
  BY EndKeepsAgents
<1>2. SUFFICES ASSUME NEW b \in Active(agents)', b.request.parent # None
               PROVE  \E p \in Active(agents)' :
                        /\ p.request.ws = b.request.ws /\ p.request.id = b.request.parent
                        /\ p.request.task = b.request.task
                        /\ b.request.grants \subseteq p.request.grants
                        /\ Below(b.request.ceilings, p.request.ceilings)
                        /\ b.depth = p.depth + 1
  BY DEF AuthorityShrinks, Below
<1>3. PICK p \in Active(agents) :
                        /\ p.request.ws = b.request.ws /\ p.request.id = b.request.parent
                        /\ p.request.task = b.request.task
                        /\ b.request.grants \subseteq p.request.grants
                        /\ Below(b.request.ceilings, p.request.ceilings)
                        /\ b.depth = p.depth + 1
  BY <1>1, <1>2 DEF AuthorityShrinks
<1>4. p # a
  BY <1>1, <1>2, <1>3 DEF Ends, Children, Active
<1>5. QED
  BY <1>1, <1>3, <1>4

\* Fewer agents fit the limits.
LEMMA EndKeepsLimits ==
    ASSUME NEW a, AgentsAreKept, AgentLimitsHold, Ends(a)
    PROVE  AgentLimitsHold'
<1>1. /\ Active(agents)' = Active(agents) \ {a} /\ AgentsAreKept'
      /\ \A b \in agents' : \E c \in agents : b.request = c.request /\ b.depth = c.depth
  BY EndKeepsAgents
<1>2. Limits.agents \in Nat /\ Limits.concurrent \in Nat /\ Limits.workspace \in Nat /\ Limits.children \in Nat
  BY FactoryAssumption
<1>3. ASSUME NEW ws, NEW id
      PROVE  /\ Cardinality(Active(agents)') <= Cardinality(Active(agents))
             /\ Cardinality(Active(AgentsOf(ws))') <= Cardinality(Active(AgentsOf(ws)))
             /\ Cardinality(Children(ws, id)') <= Cardinality(Children(ws, id))
  <2>1. /\ Active(agents)' \subseteq Active(agents)
        /\ Active(AgentsOf(ws))' \subseteq Active(AgentsOf(ws))
        /\ Children(ws, id)' \subseteq Children(ws, id)
    BY <1>1 DEF Active, AgentsOf, Children
  <2>2. /\ IsFiniteSet(Active(agents)) /\ IsFiniteSet(Active(AgentsOf(ws))) /\ IsFiniteSet(Children(ws, id))
    BY CountsAreFinite
  <2>3. QED
    BY <2>1, <2>2, FS_Subset
<1>4. ASSUME NEW ws, NEW id
      PROVE  /\ Cardinality(Active(agents)) \in Nat /\ Cardinality(Active(agents)') \in Nat
             /\ Cardinality(Active(AgentsOf(ws))) \in Nat /\ Cardinality(Active(AgentsOf(ws))') \in Nat
             /\ Cardinality(Children(ws, id)) \in Nat /\ Cardinality(Children(ws, id)') \in Nat
  <2>1. /\ Cardinality(Active(agents)) \in Nat /\ Cardinality(Active(AgentsOf(ws))) \in Nat
        /\ Cardinality(Children(ws, id)) \in Nat
        /\ IsFiniteSet(agents')
    BY <1>1, CountsAreFinite DEF AgentsAreKept
  <2>2. Active(agents)' \subseteq agents' /\ Active(AgentsOf(ws))' \subseteq agents' /\ Children(ws, id)' \subseteq agents'
    BY DEF Active, AgentsOf, Children
  <2>3. IsFiniteSet(Active(agents)') /\ IsFiniteSet(Active(AgentsOf(ws))') /\ IsFiniteSet(Children(ws, id)')
    BY <2>1, <2>2, FS_Subset
  <2>4. QED
    BY <2>1, <2>3, FS_CardinalityType
<1>5. Cardinality(Active(agents)') <= SmallerOf(Limits.agents, Limits.concurrent)
  BY <1>2, <1>3, <1>4 DEF AgentLimitsHold, SmallerOf
<1>6. ASSUME NEW b \in agents'
      PROVE  /\ Cardinality(Active(AgentsOf(b.request.ws))') <= Limits.workspace
             /\ b.depth <= Limits.depth
             /\ Cardinality(Children(b.request.ws, b.request.id)') <= b.request.ceilings["children"]
  <2>1. PICK c \in agents : b.request = c.request /\ b.depth = c.depth
    BY <1>1
  <2>2. /\ Cardinality(Active(AgentsOf(c.request.ws))) <= Limits.workspace
        /\ c.depth <= Limits.depth
        /\ Cardinality(Children(c.request.ws, c.request.id)) <= c.request.ceilings["children"]
    BY DEF AgentLimitsHold
  <2>3. c.request.ceilings["children"] \in Nat
    BY DEF AgentsAreKept, IsRequest
  <2>4. /\ Cardinality(Active(AgentsOf(c.request.ws))') <= Cardinality(Active(AgentsOf(c.request.ws)))
        /\ Cardinality(Children(c.request.ws, c.request.id)') <= Cardinality(Children(c.request.ws, c.request.id))
    BY <1>3
  <2>5. /\ Cardinality(Active(AgentsOf(c.request.ws))) \in Nat /\ Cardinality(Active(AgentsOf(c.request.ws))') \in Nat
        /\ Cardinality(Children(c.request.ws, c.request.id)) \in Nat
        /\ Cardinality(Children(c.request.ws, c.request.id)') \in Nat
    BY <1>4
  <2>6. QED
    BY <1>2, <2>1, <2>2, <2>3, <2>4, <2>5
<1>7. QED
  BY <1>5, <1>6 DEF AgentLimitsHold

\* The log of an end
EndIsLogged(a, outcome) ==
    \A ws, id, types :
        outcome \in types \/ types \cap {"archived", "deleted"} = {} =>
          (Recorded(ws, id, types)' <=>
             Recorded(ws, id, types) \/ (ws = a.request.ws /\ id = a.request.id /\ outcome \in types))

\* The log tells of the end of an agent.
LEMMA EndIsTold ==
    ASSUME NEW a, NEW outcome \in {"completed", "failed"},
           AgentsAreKept, LivesAreRecorded, Ends(a), EndIsLogged(a, outcome)
    PROVE  LivesAreRecorded'
<1>1. SUFFICES ASSUME NEW ws, NEW id
               PROVE  LifeIsRecorded(ws, id)'
  BY DEF LivesAreRecorded
<1>2. LifeIsRecorded(ws, id)
  BY DEF LivesAreRecorded
<1>3. Active(agents)' = Active(agents) \ {a} /\ consumed' = consumed /\ a \in Active(agents)
  BY EndKeepsAgents DEF Ends, Active
<1>4. /\ (Recorded(ws, id, {"created"})' <=> Recorded(ws, id, {"created"}))
      /\ (Recorded(ws, id, {"completed"})' <=>
            Recorded(ws, id, {"completed"}) \/ (ws = a.request.ws /\ id = a.request.id /\ outcome = "completed"))
      /\ (Recorded(ws, id, {"failed"})' <=>
            Recorded(ws, id, {"failed"}) \/ (ws = a.request.ws /\ id = a.request.id /\ outcome = "failed"))
      /\ (Recorded(ws, id, {"completed", "failed"})' <=>
            Recorded(ws, id, {"completed", "failed"}) \/ (ws = a.request.ws /\ id = a.request.id))
  BY DEF EndIsLogged
<1>5. /\ Recorded(ws, id, {"completed"}) => Recorded(ws, id, {"completed", "failed"})
      /\ Recorded(ws, id, {"failed"}) => Recorded(ws, id, {"completed", "failed"})
  BY DEF Recorded
<1>6. \A b \in Active(agents) : b.request.ws = a.request.ws /\ b.request.id = a.request.id => b = a
  BY <1>3 DEF AgentsAreKept, Active
<1>7. <<a.request.ws, a.request.id>> \in consumed
  BY <1>3 DEF AgentsAreKept, Active
<1>8. CASE ws = a.request.ws /\ id = a.request.id
  BY <1>2, <1>3, <1>4, <1>5, <1>6, <1>7, <1>8 DEF LifeIsRecorded
<1>9. CASE ~(ws = a.request.ws /\ id = a.request.id)
  <2>1. (\E b \in Active(agents)' : b.request.ws = ws /\ b.request.id = id)
           <=> (\E b \in Active(agents) : b.request.ws = ws /\ b.request.id = id)
    BY <1>3, <1>9
  <2>2. QED
    BY <1>2, <1>3, <1>4, <1>9, <2>1 DEF LifeIsRecorded
<1>10. QED
  BY <1>8, <1>9

-----------------------------------------------------------------------------
(* The log *)

\* Events of other sources do not count.
LEMMA OthersDoNotCount ==
    ASSUME NEW C, \A e \in C : e.source # "AGENT_FACTORY",
           NEW B, log' = log \cup B \cup C
    PROVE  \A ws, id, types :
             Recorded(ws, id, types)' <=>
               Recorded(ws, id, types) \/
               \E e \in B : e.source = "AGENT_FACTORY" /\ e.ws = ws /\ e.id[1] = id /\ e.id[2] \in types
BY DEF Recorded

\* The record of an event of the factory
LEMMA FactoryEventFields ==
    ASSUME NEW ctx, NEW r, NEW type
    PROVE  LET e == FactoryEvent(ctx, r, type)
           IN  e.source = "AGENT_FACTORY" /\ e.ws = r.ws /\ e.id[1] = r.id /\ e.id[2] = type
BY DEF FactoryEvent

\* The event of a new agent is the only one of the factory.
LEMMA BirthIsInTheLog ==
    ASSUME NEW ctx, NEW r, NEW C, \A e \in C : e.source # "AGENT_FACTORY",
           log' = log \cup {FactoryEvent(ctx, r, "created")} \cup C
    PROVE  BirthIsLogged(r)
<1>1. PICK e : e = FactoryEvent(ctx, r, "created")
  OBVIOUS
<1>2. e.source = "AGENT_FACTORY" /\ e.ws = r.ws /\ e.id[1] = r.id /\ e.id[2] = "created"
  BY <1>1, FactoryEventFields
<1>3. \A ws, id, types :
             Recorded(ws, id, types)' <=>
               Recorded(ws, id, types) \/
               \E f \in {e} : f.source = "AGENT_FACTORY" /\ f.ws = ws /\ f.id[1] = id /\ f.id[2] \in types
  <2>1. PICK B : B = {e}
    OBVIOUS
  <2>2. log' = log \cup B \cup C /\ \A g \in C : g.source # "AGENT_FACTORY"
    BY <1>1, <2>1
  <2>3. \A ws, id, types :
             Recorded(ws, id, types)' <=>
               Recorded(ws, id, types) \/
               \E f \in B : f.source = "AGENT_FACTORY" /\ f.ws = ws /\ f.id[1] = id /\ f.id[2] \in types
    BY <2>2, OthersDoNotCount
  <2>4. QED
    BY <2>1, <2>3
<1>4. QED
  BY <1>2, <1>3 DEF BirthIsLogged

\* The two events of the end of an agent
LEMMA EndIsInTheLog ==
    ASSUME NEW ctx, NEW a, NEW outcome \in {"completed", "failed"},
           log' = log \cup Finalization(ctx, a, outcome)
    PROVE  EndIsLogged(a, outcome)
<1>1. PICK end \in {"archived", "deleted"} :
        Finalization(ctx, a, outcome) =
          {FactoryEvent(ctx, a.request, outcome), FactoryEvent(ctx, a.request, end)}
  BY DEF Finalization
<1>2. PICK e : e = FactoryEvent(ctx, a.request, outcome)
  OBVIOUS
<1>3. PICK f : f = FactoryEvent(ctx, a.request, end)
  OBVIOUS
<1>4. /\ e.source = "AGENT_FACTORY" /\ e.ws = a.request.ws /\ e.id[1] = a.request.id /\ e.id[2] = outcome
      /\ f.source = "AGENT_FACTORY" /\ f.ws = a.request.ws /\ f.id[1] = a.request.id /\ f.id[2] = end
  BY <1>2, <1>3, FactoryEventFields
<1>5. PICK B, C : B = {e, f} /\ C = {}
  OBVIOUS
<1>6. \A ws, id, types :
             Recorded(ws, id, types)' <=>
               Recorded(ws, id, types) \/
               \E g \in {e, f} : g.source = "AGENT_FACTORY" /\ g.ws = ws /\ g.id[1] = id /\ g.id[2] \in types
  <2>1. log' = log \cup B \cup C /\ \A g \in C : g.source # "AGENT_FACTORY"
    BY <1>1, <1>2, <1>3, <1>5
  <2>2. \A ws, id, types :
             Recorded(ws, id, types)' <=>
               Recorded(ws, id, types) \/
               \E g \in B : g.source = "AGENT_FACTORY" /\ g.ws = ws /\ g.id[1] = id /\ g.id[2] \in types
    BY <2>1, OthersDoNotCount
  <2>3. QED
    BY <1>5, <2>2
<1>7. QED
  BY <1>1, <1>4, <1>6 DEF EndIsLogged

-----------------------------------------------------------------------------
(* Steps of the factory *)

\* A step that touches no agent keeps what agents promise.
LEMMA QuietStep ==
    ASSUME FactoryInvariant, NEW C, \A e \in C : e.source # "AGENT_FACTORY", log' = log \cup C,
           agents' = agents, consumed' = consumed
    PROVE  AgentsAreKept' /\ AuthorityShrinks' /\ AgentLimitsHold' /\ LivesAreRecorded'
<1>1. \A ws, id, types : Recorded(ws, id, types)' <=> Recorded(ws, id, types)
  BY DEF Recorded
<1>2. AgentsAreKept' /\ AuthorityShrinks' /\ AgentLimitsHold'
  BY DEF FactoryInvariant, AgentsAreKept, AuthorityShrinks, AgentLimitsHold, Active, AgentsOf, Children
<1>3. ASSUME NEW ws, NEW id
      PROVE  LifeIsRecorded(ws, id)'
  <2>1. LifeIsRecorded(ws, id)
    BY DEF FactoryInvariant, LivesAreRecorded
  <2>2. QED
    BY <1>1, <2>1 DEF LifeIsRecorded, Active
<1>4. QED
  BY <1>2, <1>3 DEF LivesAreRecorded

\* Instantiation, by whomever and with whatever events of others
LEMMA BirthStep ==
    ASSUME FactoryInvariant, NEW ctx, NEW r, IsRequest(r), CanInstantiate(ctx, r), instantiate(r),
           NEW C, \A e \in C : e.source # "AGENT_FACTORY",
           log' = log \cup {FactoryEvent(ctx, r, "created")} \cup C
    PROVE  AgentsAreKept' /\ AuthorityShrinks' /\ AgentLimitsHold' /\ LivesAreRecorded'
<1>1. MayBeBorn(r)
  BY DEF MayBeBorn, CanInstantiate
<1>2. BirthIsLogged(r)
  BY BirthIsInTheLog
<1>3. QED
  BY <1>1, <1>2, BirthKeepsAgents, BirthKeepsAuthority, BirthKeepsLimits, BirthIsTold DEF FactoryInvariant

\* Completion or failure of an agent
LEMMA EndStep ==
    ASSUME FactoryInvariant, NEW ctx, NEW id, NEW outcome \in {"completed", "failed"}, complete(ctx, id, outcome)
    PROVE  AgentsAreKept' /\ AuthorityShrinks' /\ AgentLimitsHold' /\ LivesAreRecorded'
<1>1. PICK a : a = Agent(ctx.ws, id)
  OBVIOUS
<1>2. a \in agents /\ a.request.ws = ctx.ws /\ a.request.id = id
  BY <1>1 DEF complete, HasAgent, Agent
<1>3. Ends(a)
  BY <1>1, <1>2 DEF complete, Ends, Remains, HasNoActiveChild
<1>4. EndIsLogged(a, outcome)
  BY <1>1, EndIsInTheLog DEF complete, appendBatch
<1>5. QED
  BY <1>3, <1>4, EndKeepsAgents, EndKeepsAuthority, EndKeepsLimits, EndIsTold DEF FactoryInvariant

\* New tasks are linked to one objective each.
LEMMA PlanKeepsLinks ==
    ASSUME LinksAreKept, NEW ctx, NEW o, NEW ts, \A t \in ts : ~TaskIsLinked(ctx.ws, t), registerPlan(ctx, o, ts)
    PROVE  LinksAreKept'
<1>1. /\ objectives' = objectives \cup {<<ctx.ws, o>>}
      /\ links' = links \cup {<<ctx.ws, t, o>> : t \in ts}
  BY DEF registerPlan
<1>2. \A l \in links : ~(l[1] = ctx.ws /\ l[2] \in ts)
  BY DEF TaskIsLinked
<1>3. \A l \in links' : l \in links \/ (l = <<l[1], l[2], l[3]>> /\ l[1] = ctx.ws /\ l[2] \in ts /\ l[3] = o)
  BY <1>1
<1>4. \A l \in links' : l = <<l[1], l[2], l[3]>> /\ <<l[1], l[3]>> \in objectives'
  BY <1>1, <1>3 DEF LinksAreKept
<1>5. \A k, l \in links' : k[1] = l[1] /\ k[2] = l[2] => k = l
  BY <1>2, <1>3 DEF LinksAreKept
<1>6. QED
  BY <1>4, <1>5 DEF LinksAreKept

\* Every operation of the factory keeps its invariant.
LEMMA FactoryStep ==
    ASSUME FactoryInvariant, FactoryNext
    PROVE  FactoryInvariant'
<1>1. PICK ctx \in Contexts :
        \/ \E l \in Links : l[1] = ctx.ws /\ registerObjective(ctx, l[3])
        \/ \E l \in Links : l[1] = ctx.ws /\ registerTask(ctx, l[2], l[3])
        \/ \E t \in Templates : putTemplate(ctx, t)
        \/ \E r \in Requests : instantiateAgent(ctx, r)
        \/ \E r \in Requests, outcome \in {"completed", "failed"} : complete(ctx, r.id, outcome)
  BY DEF FactoryNext
<1>2. ASSUME log' = log, agents' = agents, consumed' = consumed
      PROVE  AgentsAreKept' /\ AuthorityShrinks' /\ AgentLimitsHold' /\ LivesAreRecorded'
  <2>1. PICK C : C = {}
    OBVIOUS
  <2>2. log' = log \cup C /\ \A e \in C : e.source # "AGENT_FACTORY"
    BY <1>2, <2>1
  <2>3. QED
    BY <1>2, <2>2, QuietStep
<1>3. CASE \E l \in Links : l[1] = ctx.ws /\ registerObjective(ctx, l[3])
  <2>1. /\ log' = log /\ agents' = agents /\ consumed' = consumed /\ templates' = templates
        /\ links' = links /\ objectives \subseteq objectives'
    BY <1>3 DEF registerObjective
  <2>2. LinksAreKept'
    BY <2>1 DEF FactoryInvariant, LinksAreKept
  <2>3. QED
    BY <1>2, <2>1, <2>2 DEF FactoryInvariant
<1>4. CASE \E l \in Links : l[1] = ctx.ws /\ registerTask(ctx, l[2], l[3])
  <2>1. PICK l \in Links : registerTask(ctx, l[2], l[3])
    BY <1>4
  <2>2. /\ log' = log /\ agents' = agents /\ consumed' = consumed /\ templates' = templates
        /\ objectives' = objectives
    BY <2>1 DEF registerTask
  <2>3. registerPlan(ctx, l[3], {l[2]}) /\ \A t \in {l[2]} : ~TaskIsLinked(ctx.ws, t)
    BY <2>1 DEF registerTask, registerPlan
  <2>4. LinksAreKept'
    BY <2>3, PlanKeepsLinks DEF FactoryInvariant
  <2>5. QED
    BY <1>2, <2>2, <2>4 DEF FactoryInvariant
<1>5. CASE \E t \in Templates : putTemplate(ctx, t)
  <2>1. /\ log' = log /\ agents' = agents /\ consumed' = consumed /\ templates' \subseteq Templates
        /\ objectives' = objectives /\ links' = links
    BY <1>5 DEF putTemplate, FactoryInvariant
  <2>2. LinksAreKept'
    BY <2>1 DEF FactoryInvariant, LinksAreKept
  <2>3. QED
    BY <1>2, <2>1, <2>2 DEF FactoryInvariant
<1>6. CASE \E r \in Requests : instantiateAgent(ctx, r)
  <2>1. PICK r \in Requests : instantiateAgent(ctx, r)
    BY <1>6
  <2>2. PICK C : C = {}
    OBVIOUS
  <2>3. /\ CanInstantiate(ctx, r) /\ instantiate(r) /\ IsRequest(r)
        /\ log' = log \cup {FactoryEvent(ctx, r, "created")} \cup C
    BY <2>1, <2>2, FactoryAssumption DEF instantiateAgent, appendBatch, IsRequest
  <2>4. AgentsAreKept' /\ AuthorityShrinks' /\ AgentLimitsHold' /\ LivesAreRecorded'
    <3>1. \A e \in C : e.source # "AGENT_FACTORY"
      BY <2>2
    <3>2. QED
      BY <2>3, <3>1, BirthStep
  <2>5. templates' = templates /\ LinksAreKept'
    BY <2>1 DEF instantiateAgent, FactoryInvariant, LinksAreKept
  <2>6. QED
    BY <2>4, <2>5 DEF FactoryInvariant
<1>7. CASE \E r \in Requests, outcome \in {"completed", "failed"} : complete(ctx, r.id, outcome)
  <2>1. PICK r \in Requests, outcome \in {"completed", "failed"} : complete(ctx, r.id, outcome)
    BY <1>7
  <2>2. AgentsAreKept' /\ AuthorityShrinks' /\ AgentLimitsHold' /\ LivesAreRecorded'
    BY <2>1, EndStep
  <2>3. templates' = templates /\ LinksAreKept'
    BY <2>1 DEF complete, FactoryInvariant, LinksAreKept
  <2>4. QED
    BY <2>2, <2>3 DEF FactoryInvariant
<1>8. QED
  BY <1>1, <1>3, <1>4, <1>5, <1>6, <1>7

\* So does a step of others.
LEMMA RestKeepsTheFactory ==
    ASSUME FactoryInvariant, log' = log, templates' = templates, objectives' = objectives, links' = links,
           agents' = agents, consumed' = consumed
    PROVE  FactoryInvariant'
<1>1. PICK C : C = {}
  OBVIOUS
<1>2. log' = log \cup C /\ \A e \in C : e.source # "AGENT_FACTORY"
  BY <1>1
<1>3. AgentsAreKept' /\ AuthorityShrinks' /\ AgentLimitsHold' /\ LivesAreRecorded'
  BY <1>2, QuietStep
<1>4. QED
  BY <1>3 DEF FactoryInvariant, LinksAreKept

\* The invariant holds of the empty factory.
LEMMA FactoryStart ==
    ASSUME FactoryInit
    PROVE  FactoryInvariant
<1>1. log = {} /\ templates = {} /\ links = {} /\ agents = {} /\ consumed = {}
  BY DEF FactoryInit
<1>2. Active(agents) = {} /\ IsFiniteSet(agents) /\ Cardinality(Active(agents)) = 0
  BY <1>1, FS_EmptySet DEF Active
<1>3. AgentsAreKept /\ LinksAreKept /\ AuthorityShrinks
  BY <1>1, <1>2 DEF AgentsAreKept, LinksAreKept, AuthorityShrinks
<1>4. AgentLimitsHold
  BY <1>1, <1>2, FactoryAssumption DEF AgentLimitsHold, SmallerOf
<1>5. LivesAreRecorded
  BY <1>1, <1>2 DEF LivesAreRecorded, LifeIsRecorded, Recorded
<1>6. QED
  BY <1>1, <1>3, <1>4, <1>5 DEF FactoryInvariant

\* In every reachable state of the factory authority shrinks on the way down,
\* no active agent is orphaned, the active agents stay within the limits of the
\* factory, of their workspace and of their parent, and the log tells the life
\* of every agent (agent-factory.ts instantiate, complete).
THEOREM LineageIsKept == FactorySpec => []LineageHolds
<1>1. FactoryInit => FactoryInvariant
  BY FactoryStart
<1>2. FactoryInvariant /\ [FactoryNext]_factoryVars => FactoryInvariant'
  <2>1. CASE FactoryNext
    BY <2>1, FactoryStep
  <2>2. CASE UNCHANGED factoryVars
    <3>1. /\ log' = log /\ templates' = templates /\ objectives' = objectives /\ links' = links
          /\ agents' = agents /\ consumed' = consumed
      BY <2>2 DEF factoryVars
    <3>2. QED
      BY <3>1, RestKeepsTheFactory
  <2>3. QED
    BY <2>1, <2>2
<1>3. QED
  BY <1>1, <1>2, FactoryIsSound, PTL DEF FactorySpec

-----------------------------------------------------------------------------
(* Plans *)

TaskStatuses == {"AWAITING_APPROVAL", "BLOCKED", "READY", "ASSIGNED", "COMPLETED", "FAILED", "STOPPED"}

Working == {"READY", "ASSIGNED", "COMPLETED", "FAILED", "STOPPED"}

TaskStates ==
    [status : TaskStatuses, attempts : Nat, used : Nat, agent : RequestIds \cup {None},
     runtime : Runtimes \cup {None}]

\* Plans are valid, and a task is of one plan.
PlansAreKept ==
    /\ plans \subseteq Plans
    /\ \A p \in plans : ValidPlan(p)
    /\ \A p, q \in plans : p # q => TaskIds(p) \cap TaskIds(q) = {}
    /\ \A d \in Defined : <<Planner.ws, d[2].id, d[1].id>> \in links

TasksAreKept == tasks \in [UNION {TaskIds(p) : p \in plans} -> TaskStates]

\* A task that needs the Founder waits.
FounderIsAsked ==
    \A d \in Defined : d[2].authority = 4 => Status(d[2].id) = "AWAITING_APPROVAL" /\ tasks[d[2].id].agent = None

\* A task that may be assigned has an attempt left.
AttemptsAreLeft ==
    \A d \in Defined : Status(d[2].id) \in {"READY", "BLOCKED"} => tasks[d[2].id].attempts < d[2].attempts

\* What a task has for an agent is one of its own.
AgentIsOwn(id) ==
    /\ Status(id) = "ASSIGNED" => tasks[id].agent # None
    /\ tasks[id].agent # None =>
         /\ <<Planner.ws, tasks[id].agent>> \in consumed /\ tasks[id].agent \in assigned
         /\ \A a \in AgentsOf(Planner.ws) : a.request.id = tasks[id].agent => a.request.task = id
         /\ \A x \in DOMAIN tasks : x # id => tasks[x].agent # tasks[id].agent

AgentsAreOwn == \A id \in DOMAIN tasks : AgentIsOwn(id)

CooInvariant ==
    /\ FactoryInvariant
    /\ PlansAreKept /\ TasksAreKept /\ TasksWaitForOthers /\ FounderIsAsked /\ AttemptsAreLeft
    /\ TasksKeepToPolicy /\ AgentsAreOwn

\* A valid plan has as many identifiers as tasks: no two tasks share one.
LEMMA TaskIdsAreDistinct ==
    ASSUME NEW p \in Plans, ValidPlan(p), NEW t \in Elements(p.tasks), NEW u \in Elements(p.tasks), t.id = u.id
    PROVE  t = u
<1> DEFINE n == Len(p.tasks)
           f == [i \in 1 .. n |-> p.tasks[i].id]
<1>1. p.tasks \in Seq(Elements(p.tasks)) /\ n \in Nat /\ DOMAIN p.tasks = 1 .. n
  BY PlansAssumption
<1>2. TaskIds(p) = {p.tasks[i].id : i \in 1 .. n}
  BY <1>1 DEF TaskIds, Elements
<1>3. f \in Surjection(1 .. n, TaskIds(p))
  BY <1>2 DEF Surjection
<1>4. IsFiniteSet(1 .. n) /\ Cardinality(1 .. n) = n
  <2>1. IsFiniteSet(1 .. n) /\ Cardinality(1 .. n) = IF 1 > n THEN 0 ELSE n - 1 + 1
    <3> HIDE DEF n
    <3>1. n \in Int /\ 1 \in Int
      BY <1>1
    <3>2. QED
      BY <3>1, FS_Interval
  <2>2. QED
    BY <1>1, <2>1
<1>5. Cardinality(TaskIds(p)) = n
  BY DEF ValidPlan
<1>6. f \in Injection(1 .. n, TaskIds(p))
  BY <1>3, <1>4, <1>5, FS_SurjSameCardinalityImpliesInj
<1>7. PICK i \in 1 .. n, j \in 1 .. n : t = p.tasks[i] /\ u = p.tasks[j]
  BY <1>1 DEF Elements
<1>8. f[i] = f[j]
  BY <1>7
<1> HIDE DEF f
<1>9. i = j
  BY <1>6, <1>8 DEF Injection, IsInjective
<1>10. QED
  BY <1>7, <1>9

\* A task is found by its identifier.
LEMMA TaskIsFound ==
    ASSUME NEW p \in Plans, ValidPlan(p), NEW t \in Elements(p.tasks)
    PROVE  Definition(p, t.id) = t
<1>1. Definition(p, t.id) \in Elements(p.tasks) /\ Definition(p, t.id).id = t.id
  BY DEF Definition
<1>2. QED
  BY <1>1, TaskIdsAreDistinct

\* The planned tasks, with their plans
LEMMA DefinedAre ==
    /\ \A d \in Defined : d[1] \in plans /\ d[2] \in Elements(d[1].tasks) /\ d = <<d[1], d[2]>>
    /\ \A p \in plans : \A t \in Elements(p.tasks) : <<p, t>> \in Defined
BY DEF Defined

\* No two planned tasks share an identifier, in one plan or in two.
LEMMA DefinedByTheirIds ==
    ASSUME PlansAreKept, NEW d \in Defined, NEW e \in Defined, d[2].id = e[2].id
    PROVE  d = e
<1>1. /\ d[1] \in plans /\ d[2] \in Elements(d[1].tasks) /\ d = <<d[1], d[2]>>
      /\ e[1] \in plans /\ e[2] \in Elements(e[1].tasks) /\ e = <<e[1], e[2]>>
  BY DefinedAre
<1>2. d[2].id \in TaskIds(d[1]) /\ e[2].id \in TaskIds(e[1])
  BY <1>1 DEF TaskIds
<1>3. d[1] = e[1]
  BY <1>1, <1>2 DEF PlansAreKept
<1>4. d[2] = e[2]
  BY <1>1, <1>3, TaskIdsAreDistinct DEF PlansAreKept
<1>5. QED
  BY <1>1, <1>3, <1>4

\* The identifiers with a state are those of the planned tasks.
LEMMA IdsAreTasks ==
    /\ \A d \in Defined : d[2].id \in UNION {TaskIds(p) : p \in plans}
    /\ \A id \in UNION {TaskIds(p) : p \in plans} : \E d \in Defined : d[2].id = id
<1>1. \A d \in Defined : d[2].id \in UNION {TaskIds(p) : p \in plans}
  BY DefinedAre DEF TaskIds
<1>2. ASSUME NEW id \in UNION {TaskIds(p) : p \in plans}
      PROVE  \E d \in Defined : d[2].id = id
  <2>1. PICK p \in plans : \E t \in Elements(p.tasks) : t.id = id
    BY DEF TaskIds
  <2>2. PICK t \in Elements(p.tasks) : t.id = id
    BY <2>1
  <2>3. <<p, t>> \in Defined /\ <<p, t>>[2] = t
    BY DefinedAre
  <2>4. QED
    BY <2>2, <2>3
<1>3. QED
  BY <1>1, <1>2

\* The dependencies of a task are tasks of its plan.
LEMMA DependenciesAreTasks ==
    ASSUME PlansAreKept, NEW d \in Defined
    PROVE  d[2].deps \subseteq UNION {TaskIds(p) : p \in plans}
<1>1. d[1] \in plans /\ d[2] \in Elements(d[1].tasks)
  BY DefinedAre
<1>2. TaskIsValid(d[1], d[2])
  BY <1>1 DEF PlansAreKept, ValidPlan
<1>3. QED
  BY <1>1, <1>2 DEF TaskIsValid

\* The invariant of the planner implies what is promised of it.
LEMMA CooIsSound == CooInvariant => LineageHolds /\ DependenciesComeFirst /\ TasksKeepToPolicy
<1> SUFFICES ASSUME CooInvariant PROVE LineageHolds /\ DependenciesComeFirst /\ TasksKeepToPolicy
  OBVIOUS
<1> USE DEF CooInvariant
<1>1. LineageHolds /\ TasksKeepToPolicy /\ TasksWaitForOthers
  BY FactoryIsSound
<1>2. DOMAIN tasks = UNION {TaskIds(p) : p \in plans} /\ \A id \in DOMAIN tasks : tasks[id] \in TaskStates
  BY DEF TasksAreKept
<1>3. CooTypes
  <2>1. plans \subseteq Plans
    BY DEF PlansAreKept
  <2>2. ASSUME NEW id \in DOMAIN tasks
        PROVE  /\ Status(id) \in TaskStatuses
               /\ tasks[id].agent \in RequestIds \cup {None} /\ tasks[id].runtime \in Runtimes \cup {None}
    BY <1>2 DEF Status, TaskStates
  <2>3. ASSUME NEW d \in Defined
        PROVE  {l[3] : l \in {k \in links : k[2] = d[2].id /\ k[1] = Planner.ws}} = {d[1].id}
    <3>1. PICK l : l = <<Planner.ws, d[2].id, d[1].id>>
      OBVIOUS
    <3>2. l \in links /\ l[1] = Planner.ws /\ l[2] = d[2].id /\ l[3] = d[1].id
      BY <3>1 DEF PlansAreKept
    <3>3. \A k \in links : k[2] = d[2].id /\ k[1] = Planner.ws => k = l
      BY <3>2 DEF FactoryInvariant, LinksAreKept
    <3>4. QED
      BY <3>2, <3>3
  <2>4. QED
    BY <1>2, <2>1, <2>2, <2>3 DEF CooTypes, TaskStatuses
<1>4. FounderTasksWait
  <2>1. SUFFICES ASSUME NEW d \in Defined, d[2].authority = 4, NEW e \in Defined, d[2].id \in e[2].deps
                 PROVE  Status(e[2].id) \in {"BLOCKED", "AWAITING_APPROVAL"}
    BY DEF FounderTasksWait, FounderIsAsked
  <2>2. Status(d[2].id) = "AWAITING_APPROVAL"
    BY <2>1 DEF FounderIsAsked
  <2>3. e[2].id \in DOMAIN tasks
    BY <1>2, IdsAreTasks
  <2>4. Status(e[2].id) \in TaskStatuses
    BY <1>2, <2>3 DEF Status, TaskStates
  <2>5. QED
    BY <2>1, <2>2, <2>4 DEF TasksWaitForOthers, TaskStatuses
<1>5. AttemptsHaveTheirOwnAgents
  <2>1. SUFFICES ASSUME NEW d \in Defined, NEW id, id = d[2].id, Status(id) = "ASSIGNED"
                 PROVE  /\ <<Planner.ws, tasks[id].agent>> \in consumed /\ tasks[id].agent \in assigned
                        /\ \A a \in AgentsOf(Planner.ws) :
                              a.request.id = tasks[id].agent => a.request.task = id
                        /\ \A x \in DOMAIN tasks : x # id => tasks[x].agent # tasks[id].agent
    BY DEF AttemptsHaveTheirOwnAgents
  <2>2. id \in DOMAIN tasks
    BY <1>2, <2>1, IdsAreTasks
  <2>3. QED
    BY <2>1, <2>2 DEF AgentsAreOwn, AgentIsOwn
<1>6. QED
  BY <1>1, <1>3, <1>4, <1>5 DEF DependenciesComeFirst

-----------------------------------------------------------------------------
(* States of tasks *)

\* Changing the status of a task
LEMMA StatusUpdate ==
    ASSUME NEW D, NEW f \in [D -> TaskStates], NEW x \in D, NEW s \in TaskStatuses
    PROVE  LET g == [f EXCEPT ![x].status = s]
           IN  /\ g \in [D -> TaskStates]
               /\ \A y \in D : /\ g[y].status = (IF y = x THEN s ELSE f[y].status)
                               /\ g[y].attempts = f[y].attempts /\ g[y].used = f[y].used
                               /\ g[y].agent = f[y].agent
BY DEF TaskStates

\* Adding to the usage of a task
LEMMA UsageUpdate ==
    ASSUME NEW D, NEW f \in [D -> TaskStates], NEW x \in D, NEW n \in Nat
    PROVE  LET g == [f EXCEPT ![x].used = @ + n]
           IN  /\ g \in [D -> TaskStates]
               /\ \A y \in D : /\ g[y].used = (IF y = x THEN f[x].used + n ELSE f[y].used)
                               /\ g[y].attempts = f[y].attempts /\ g[y].status = f[y].status
                               /\ g[y].agent = f[y].agent
BY DEF TaskStates

\* Handing out an agent
HandedOut(f, x, id, runtime) ==
    [f EXCEPT ![x].status = "ASSIGNED", ![x].attempts = @ + 1, ![x].agent = id, ![x].runtime = runtime]

\* The state of a task that gets an agent
LEMMA AssignmentUpdate ==
    ASSUME NEW D, NEW f \in [D -> TaskStates], NEW x \in D, NEW id \in RequestIds, NEW runtime \in Runtimes
    PROVE  LET g == HandedOut(f, x, id, runtime)
           IN  /\ g \in [D -> TaskStates]
               /\ \A y \in D : /\ g[y].status = (IF y = x THEN "ASSIGNED" ELSE f[y].status)
                               /\ g[y].attempts = (IF y = x THEN f[x].attempts + 1 ELSE f[y].attempts)
                               /\ g[y].used = f[y].used
                               /\ g[y].agent = (IF y = x THEN id ELSE f[y].agent)
<1> DEFINE new == [f[x] EXCEPT !.status = "ASSIGNED", !.attempts = f[x].attempts + 1, !.agent = id, !.runtime = runtime]
<1>1. f[x] \in TaskStates /\ f[x].attempts + 1 \in Nat
  BY DEF TaskStates
<1>2. /\ new \in TaskStates /\ new.status = "ASSIGNED" /\ new.attempts = f[x].attempts + 1
      /\ new.used = f[x].used /\ new.agent = id
  BY <1>1 DEF TaskStates, TaskStatuses
<1>3. HandedOut(f, x, id, runtime) = [f EXCEPT ![x] = new]
  BY <1>1 DEF TaskStates, HandedOut
<1> HIDE DEF new
<1>4. QED
  BY <1>2, <1>3

\* What a refresh makes of a status: a task it finds ready has nothing to
\* wait for.
LEMMA ReadinessIs ==
    ASSUME NEW t, NEW states, states[t.id].status \in TaskStatuses
    PROVE  /\ Readiness(t, states) \in TaskStatuses
           /\ \/ Readiness(t, states) = states[t.id].status
              \/ states[t.id].status \in {"READY", "BLOCKED"} /\ Readiness(t, states) \in {"READY", "BLOCKED"}
           /\ Readiness(t, states) = "READY" => \A d \in t.deps : states[d].status = "COMPLETED"
           /\ states[t.id].status = "COMPLETED" => Readiness(t, states) = "COMPLETED"
BY DEF Readiness, TaskStatuses

-----------------------------------------------------------------------------
(* Steps of the planner *)

\* What the plans keep when tasks change
LEMMA TasksMayChange ==
    ASSUME CooInvariant, FactoryInvariant', plans' = plans, links \subseteq links', AgentsAreOwn',
           tasks' \in [DOMAIN tasks -> TaskStates],
           \A id \in DOMAIN tasks : Status(id) = "COMPLETED" => tasks'[id].status = "COMPLETED",
           \A d \in Defined :
              /\ tasks'[d[2].id].status \in Working =>
                   Status(d[2].id) \in Working \/ \A x \in d[2].deps : tasks'[x].status = "COMPLETED"
              /\ d[2].authority = 4 =>
                   tasks'[d[2].id].status = Status(d[2].id) /\ tasks'[d[2].id].agent = tasks[d[2].id].agent
              /\ tasks'[d[2].id].status \in {"READY", "BLOCKED"} => tasks'[d[2].id].attempts < d[2].attempts
              /\ tasks'[d[2].id].used <= d[2].cost /\ tasks'[d[2].id].attempts <= d[2].attempts
    PROVE  CooInvariant'
<1>1. Defined' = Defined /\ DOMAIN tasks = UNION {TaskIds(p) : p \in plans}
  BY DEF Defined, CooInvariant, TasksAreKept
<1>2. PlansAreKept' /\ TasksAreKept'
  BY <1>1 DEF CooInvariant, PlansAreKept, TasksAreKept
<1>3. TasksWaitForOthers'
  <2>1. SUFFICES ASSUME NEW d \in Defined, tasks'[d[2].id].status \in Working, NEW x \in d[2].deps
                 PROVE  tasks'[x].status = "COMPLETED"
    BY <1>1 DEF TasksWaitForOthers, Working, Status
  <2>2. x \in DOMAIN tasks
    BY <1>1, DependenciesAreTasks DEF CooInvariant
  <2>3. CASE Status(d[2].id) \in Working
    BY <2>1, <2>2, <2>3 DEF CooInvariant, TasksWaitForOthers, Working
  <2>4. QED
    BY <2>1, <2>3
<1>4. FounderIsAsked' /\ AttemptsAreLeft' /\ TasksKeepToPolicy'
  BY <1>1 DEF CooInvariant, FounderIsAsked, AttemptsAreLeft, TasksKeepToPolicy, Status
<1>5. QED
  BY <1>2, <1>3, <1>4 DEF CooInvariant

\* Agents stay their tasks' own when none is handed out.
LEMMA AgentsStayOwn ==
    ASSUME AgentsAreOwn, DOMAIN tasks' = DOMAIN tasks, consumed \subseteq consumed', assigned \subseteq assigned',
           \A a \in agents' : \/ \E b \in agents : b.request = a.request
                              \/ <<a.request.ws, a.request.id>> \notin consumed,
           \A y \in DOMAIN tasks : /\ tasks'[y].agent \in {tasks[y].agent, None}
                                   /\ tasks'[y].status = "ASSIGNED" =>
                                        tasks'[y].agent = tasks[y].agent /\ Status(y) = "ASSIGNED"
    PROVE  AgentsAreOwn'
<1>1. SUFFICES ASSUME NEW id \in DOMAIN tasks
               PROVE  AgentIsOwn(id)'
  BY DEF AgentsAreOwn
<1>2. AgentIsOwn(id)
  BY DEF AgentsAreOwn
<1>3. tasks'[id].status = "ASSIGNED" => tasks'[id].agent # None
  BY <1>2 DEF AgentIsOwn
<1>4. ASSUME tasks'[id].agent # None
      PROVE  /\ <<Planner.ws, tasks'[id].agent>> \in consumed' /\ tasks'[id].agent \in assigned'
             /\ \A a \in AgentsOf(Planner.ws)' : a.request.id = tasks'[id].agent => a.request.task = id
             /\ \A x \in DOMAIN tasks' : x # id => tasks'[x].agent # tasks'[id].agent
  <2>1. tasks'[id].agent = tasks[id].agent /\ tasks[id].agent # None
    BY <1>4
  <2>2. <<Planner.ws, tasks[id].agent>> \in consumed /\ tasks[id].agent \in assigned
    BY <1>2, <2>1 DEF AgentIsOwn
  <2>3. ASSUME NEW a \in agents', a.request.ws = Planner.ws, a.request.id = tasks[id].agent
        PROVE  a.request.task = id
    <3>1. PICK b \in agents : b.request = a.request
      BY <2>2, <2>3
    <3>2. QED
      BY <1>2, <2>1, <2>3, <3>1 DEF AgentIsOwn, AgentsOf
  <2>4. \A x \in DOMAIN tasks : x # id => tasks'[x].agent # tasks'[id].agent
    BY <1>2, <2>1 DEF AgentIsOwn
  <2>5. QED
    BY <2>1, <2>2, <2>3, <2>4 DEF AgentsOf
<1>5. QED
  BY <1>3, <1>4 DEF AgentIsOwn, Status

\* The planner's events are its own.
LEMMA CooEventSource ==
    ASSUME NEW p, NEW t, NEW type, NEW refs, NEW listed
    PROVE  CooEvent(p, t, type, refs, listed).source # "AGENT_FACTORY"
BY DEF CooEvent

\* The events of a refresh
LEMMA ReadinessEventsAre ==
    ASSUME NEW p, NEW t, NEW states
    PROVE  /\ \A e \in Elements(ReadinessEvents(p, t, states)) : e.source # "AGENT_FACTORY"
           /\ {ReadinessEvents(p, t, states)[i] : i \in RecordedOf(ReadinessEvents(p, t, states))}
                \subseteq Elements(ReadinessEvents(p, t, states))
<1>1. PICK e : e = DependencyEvent(p, t, StatusEvent(Readiness(t, states)))
  OBVIOUS
<1>2. e.source # "AGENT_FACTORY"
  BY <1>1, CooEventSource DEF DependencyEvent
<1>3. ReadinessEvents(p, t, states) = <<>> \/ ReadinessEvents(p, t, states) = <<e>>
  BY <1>1 DEF ReadinessEvents
<1>4. QED
  BY <1>2, <1>3 DEF Elements, RecordedOf

\* What the planner leaves of the factory alone
LEMMA FactoryRests ==
    ASSUME CooInvariant, NEW C, \A e \in C : e.source # "AGENT_FACTORY", log' = log \cup C,
           agents' = agents, consumed' = consumed, templates' = templates, objectives' = objectives, links' = links
    PROVE  FactoryInvariant'
<1>1. FactoryInvariant
  BY DEF CooInvariant
<1>2. AgentsAreKept' /\ AuthorityShrinks' /\ AgentLimitsHold' /\ LivesAreRecorded'
  BY <1>1, QuietStep
<1>3. LinksAreKept'
  BY <1>1 DEF FactoryInvariant, LinksAreKept
<1>4. QED
  BY <1>1, <1>2, <1>3 DEF FactoryInvariant

\* What holds of the task of a call
LEMMA TaskIsKnown ==
    ASSUME CooInvariant, NEW p \in plans, NEW t \in Elements(p.tasks)
    PROVE  /\ tasks \in [DOMAIN tasks -> TaskStates] /\ t.id \in DOMAIN tasks
           /\ \A d \in Defined : d[2].id \in DOMAIN tasks /\ (d[2].id = t.id => d[2] = t)
           /\ t.attempts \in Nat /\ t.cost \in Nat /\ p \in Plans
           /\ Status(t.id) \in {"READY", "BLOCKED"} => tasks[t.id].attempts < t.attempts
<1>1. DOMAIN tasks = UNION {TaskIds(q) : q \in plans} /\ tasks \in [DOMAIN tasks -> TaskStates]
  BY DEF CooInvariant, TasksAreKept
<1>2. PICK e : e = <<p, t>> /\ e \in Defined /\ e[1] = p /\ e[2] = t
  BY DefinedAre
<1>3. t.id \in DOMAIN tasks
  BY <1>1, <1>2, IdsAreTasks
<1>4. \A d \in Defined : d[2].id \in DOMAIN tasks
  BY <1>1, IdsAreTasks
<1>5. ASSUME NEW d \in Defined, d[2].id = t.id
      PROVE  d[2] = t
  <2>1. d = e
    BY <1>2, <1>5, DefinedByTheirIds DEF CooInvariant
  <2>2. QED
    BY <1>2, <2>1
<1>6. p \in Plans /\ TaskIsValid(p, t)
  BY DEF CooInvariant, PlansAreKept, ValidPlan
<1>7. t.attempts \in Nat /\ t.cost \in Nat
  BY <1>6, PlansAssumption DEF TaskIsValid
<1>8. Status(t.id) \in {"READY", "BLOCKED"} => tasks[t.id].attempts < t.attempts
  BY <1>2 DEF CooInvariant, AttemptsAreLeft
<1>9. QED
  BY <1>1, <1>3, <1>4, <1>5, <1>6, <1>7, <1>8

\* What the invariant says of a planned task
LEMMA TaskHolds ==
    ASSUME CooInvariant, NEW d \in Defined
    PROVE  /\ d[2].id \in DOMAIN tasks /\ d[2].deps \subseteq DOMAIN tasks
           /\ tasks[d[2].id].used <= d[2].cost /\ tasks[d[2].id].attempts <= d[2].attempts
           /\ d[2].authority = 4 => Status(d[2].id) = "AWAITING_APPROVAL"
           /\ Status(d[2].id) \in {"READY", "BLOCKED"} => tasks[d[2].id].attempts < d[2].attempts
<1>1. d[2].id \in DOMAIN tasks /\ d[2].deps \subseteq DOMAIN tasks
  BY IdsAreTasks, DependenciesAreTasks DEF CooInvariant, TasksAreKept
<1>2. QED
  BY <1>1 DEF CooInvariant, TasksKeepToPolicy, FounderIsAsked, AttemptsAreLeft

\* A refused request has refreshed the task, and no more.
LEMMA RefusalStep ==
    ASSUME CooInvariant, NEW p \in plans, NEW t \in Elements(p.tasks), refusedAssignment(p, t)
    PROVE  CooInvariant'
<1>1. /\ tasks \in [DOMAIN tasks -> TaskStates] /\ t.id \in DOMAIN tasks
      /\ \A d \in Defined : d[2].id \in DOMAIN tasks /\ (d[2].id = t.id => d[2] = t)
      /\ Status(t.id) \in {"READY", "BLOCKED"} => tasks[t.id].attempts < t.attempts
  BY TaskIsKnown
<1>2. PICK C : C = {ReadinessEvents(p, t, tasks)[i] : i \in RecordedOf(ReadinessEvents(p, t, tasks))}
  OBVIOUS
<1>3. log' = log \cup C /\ \A e \in C : e.source # "AGENT_FACTORY"
  BY <1>2, ReadinessEventsAre DEF refusedAssignment
<1>4. FactoryInvariant'
  BY <1>3, FactoryRests DEF refusedAssignment
<1>5. PICK s : s = Readiness(t, tasks)
  OBVIOUS
<1>6. /\ s \in TaskStatuses
      /\ s = Status(t.id) \/ (Status(t.id) \in {"READY", "BLOCKED"} /\ s \in {"READY", "BLOCKED"})
      /\ s = "READY" => \A d \in t.deps : Status(d) = "COMPLETED"
      /\ Status(t.id) = "COMPLETED" => s = "COMPLETED"
  <2>1. tasks[t.id].status \in TaskStatuses
    BY <1>1 DEF TaskStates
  <2>2. QED
    BY <1>5, <2>1, ReadinessIs DEF Status
<1>7. tasks' = [tasks EXCEPT ![t.id].status = s]
  BY <1>5 DEF refusedAssignment, Refreshed
<1>8. /\ tasks' \in [DOMAIN tasks -> TaskStates]
      /\ \A y \in DOMAIN tasks : /\ tasks'[y].status = (IF y = t.id THEN s ELSE tasks[y].status)
                                 /\ tasks'[y].attempts = tasks[y].attempts /\ tasks'[y].used = tasks[y].used
                                 /\ tasks'[y].agent = tasks[y].agent
  BY <1>1, <1>6, <1>7, StatusUpdate
<1>9. \A y \in DOMAIN tasks : Status(y) = "COMPLETED" => tasks'[y].status = "COMPLETED"
  BY <1>6, <1>8 DEF Status
<1>10. AgentsAreOwn'
  <2>1. \A y \in DOMAIN tasks : /\ tasks'[y].agent \in {tasks[y].agent, None}
                                /\ tasks'[y].status = "ASSIGNED" =>
                                     tasks'[y].agent = tasks[y].agent /\ Status(y) = "ASSIGNED"
    BY <1>6, <1>8 DEF Status
  <2>2. DOMAIN tasks' = DOMAIN tasks /\ consumed' = consumed /\ assigned' = assigned /\ agents' = agents
    BY <1>8 DEF refusedAssignment
  <2>3. QED
    BY <2>1, <2>2, AgentsStayOwn DEF CooInvariant
<1>11. ASSUME NEW d \in Defined
       PROVE  /\ tasks'[d[2].id].status \in Working =>
                   Status(d[2].id) \in Working \/ \A x \in d[2].deps : tasks'[x].status = "COMPLETED"
              /\ d[2].authority = 4 =>
                   tasks'[d[2].id].status = Status(d[2].id) /\ tasks'[d[2].id].agent = tasks[d[2].id].agent
              /\ tasks'[d[2].id].status \in {"READY", "BLOCKED"} => tasks'[d[2].id].attempts < d[2].attempts
              /\ tasks'[d[2].id].used <= d[2].cost /\ tasks'[d[2].id].attempts <= d[2].attempts
  <2>1. /\ d[2].id \in DOMAIN tasks /\ d[2].deps \subseteq DOMAIN tasks
        /\ tasks[d[2].id].used <= d[2].cost /\ tasks[d[2].id].attempts <= d[2].attempts
        /\ d[2].authority = 4 => Status(d[2].id) = "AWAITING_APPROVAL"
        /\ Status(d[2].id) \in {"READY", "BLOCKED"} => tasks[d[2].id].attempts < d[2].attempts
    BY TaskHolds
  <2>5. CASE d[2].id = t.id
    <3>1. d[2] = t
      BY <1>1, <2>5
    <3>2. tasks'[t.id].status = s
      BY <1>1, <1>8
    <3>3. s \in Working => Status(t.id) \in Working \/ \A x \in t.deps : tasks'[x].status = "COMPLETED"
      BY <1>6, <1>9, <2>1, <3>1 DEF Working
    <3>4. QED
      BY <1>6, <1>8, <2>1, <3>1, <3>2, <3>3
  <2>6. CASE d[2].id # t.id
    BY <1>8, <2>1, <2>6 DEF Status
  <2>7. QED
    BY <2>5, <2>6
<1>12. QED
  BY <1>4, <1>8, <1>9, <1>10, <1>11, TasksMayChange DEF refusedAssignment

\* Usage is recorded within the cost of the task.
LEMMA UsageStep ==
    ASSUME CooInvariant, NEW p \in plans, NEW t \in Elements(p.tasks), NEW n \in Amounts, recordUsage(p, t, n)
    PROVE  CooInvariant'
<1>1. /\ tasks \in [DOMAIN tasks -> TaskStates] /\ t.id \in DOMAIN tasks /\ n \in Nat
      /\ \A d \in Defined : d[2].id \in DOMAIN tasks /\ (d[2].id = t.id => d[2] = t)
  BY TaskIsKnown, PlansAssumption
<1>2. PICK C : C = {e \in {CooEvent(p, t.id, "usage.recorded", {}, 0)} : Recordable(e)}
  OBVIOUS
<1>3. log' = log \cup C /\ \A e \in C : e.source # "AGENT_FACTORY"
  BY <1>2, CooEventSource DEF recordUsage
<1>4. FactoryInvariant'
  BY <1>3, FactoryRests DEF recordUsage
<1>5. /\ tasks' \in [DOMAIN tasks -> TaskStates]
      /\ \A y \in DOMAIN tasks : /\ tasks'[y].used = (IF y = t.id THEN tasks[t.id].used + n ELSE tasks[y].used)
                                 /\ tasks'[y].attempts = tasks[y].attempts /\ tasks'[y].status = tasks[y].status
                                 /\ tasks'[y].agent = tasks[y].agent
  BY <1>1, UsageUpdate DEF recordUsage
<1>6. \A y \in DOMAIN tasks : Status(y) = "COMPLETED" => tasks'[y].status = "COMPLETED"
  BY <1>5 DEF Status
<1>7. AgentsAreOwn'
  <2>1. \A y \in DOMAIN tasks : /\ tasks'[y].agent \in {tasks[y].agent, None}
                                /\ tasks'[y].status = "ASSIGNED" =>
                                     tasks'[y].agent = tasks[y].agent /\ Status(y) = "ASSIGNED"
    BY <1>5 DEF Status
  <2>2. DOMAIN tasks' = DOMAIN tasks /\ consumed' = consumed /\ assigned' = assigned /\ agents' = agents
    BY <1>5 DEF recordUsage
  <2>3. QED
    BY <2>1, <2>2, AgentsStayOwn DEF CooInvariant
<1>8. tasks[t.id].used + n <= t.cost
  BY DEF recordUsage, WithinCost
<1>9. ASSUME NEW d \in Defined
      PROVE  /\ tasks'[d[2].id].status \in Working =>
                   Status(d[2].id) \in Working \/ \A x \in d[2].deps : tasks'[x].status = "COMPLETED"
             /\ d[2].authority = 4 =>
                   tasks'[d[2].id].status = Status(d[2].id) /\ tasks'[d[2].id].agent = tasks[d[2].id].agent
             /\ tasks'[d[2].id].status \in {"READY", "BLOCKED"} => tasks'[d[2].id].attempts < d[2].attempts
             /\ tasks'[d[2].id].used <= d[2].cost /\ tasks'[d[2].id].attempts <= d[2].attempts
  <2>1. /\ d[2].id \in DOMAIN tasks /\ d[2].deps \subseteq DOMAIN tasks
        /\ tasks[d[2].id].used <= d[2].cost /\ tasks[d[2].id].attempts <= d[2].attempts
        /\ d[2].authority = 4 => Status(d[2].id) = "AWAITING_APPROVAL"
        /\ Status(d[2].id) \in {"READY", "BLOCKED"} => tasks[d[2].id].attempts < d[2].attempts
    BY TaskHolds
  <2>2. d[2].id = t.id => d[2] = t
    BY <1>1
  <2>3. QED
    BY <1>5, <1>8, <2>1, <2>2 DEF Status
<1>10. QED
  BY <1>4, <1>5, <1>6, <1>7, <1>9, TasksMayChange DEF recordUsage

\* A failed attempt ends the task or leaves it an attempt.
LEMMA FailureStep ==
    ASSUME CooInvariant, NEW p \in plans, NEW t \in Elements(p.tasks), NEW code, recordFailure(p, t, code)
    PROVE  CooInvariant'
<1>1. /\ tasks \in [DOMAIN tasks -> TaskStates] /\ t.id \in DOMAIN tasks
      /\ \A d \in Defined : d[2].id \in DOMAIN tasks /\ (d[2].id = t.id => d[2] = t)
  BY TaskIsKnown
<1>2. PICK s \in {"STOPPED", "READY", "FAILED"} :
        /\ s = "READY" => tasks[t.id].attempts < t.attempts
        /\ tasks' = [tasks EXCEPT ![t.id].status = s, ![t.id].agent = None, ![t.id].runtime = None]
        /\ log' = log \cup {e \in {CooEvent(p, t.id, s, {}, 0)} : Recordable(e)}
  BY DEF recordFailure, MayRetry
<1>3. PICK C : C = {e \in {CooEvent(p, t.id, s, {}, 0)} : Recordable(e)}
  OBVIOUS
<1>4. log' = log \cup C /\ \A e \in C : e.source # "AGENT_FACTORY"
  BY <1>2, <1>3, CooEventSource
<1>5. FactoryInvariant'
  BY <1>4, FactoryRests DEF recordFailure
<1>6. /\ tasks' \in [DOMAIN tasks -> TaskStates]
      /\ \A y \in DOMAIN tasks : /\ tasks'[y].status = (IF y = t.id THEN s ELSE tasks[y].status)
                                 /\ tasks'[y].attempts = tasks[y].attempts /\ tasks'[y].used = tasks[y].used
                                 /\ tasks'[y].agent = (IF y = t.id THEN None ELSE tasks[y].agent)
  <2>1. s \in TaskStatuses
    BY <1>2 DEF TaskStatuses
  <2>2. PICK g : g = tasks'
    OBVIOUS
  <2>3. g = [tasks EXCEPT ![t.id].status = s, ![t.id].agent = None, ![t.id].runtime = None]
    BY <1>2, <2>2
  <2>4. /\ g \in [DOMAIN tasks -> TaskStates]
        /\ \A y \in DOMAIN tasks : /\ g[y].status = (IF y = t.id THEN s ELSE tasks[y].status)
                                   /\ g[y].attempts = tasks[y].attempts /\ g[y].used = tasks[y].used
                                   /\ g[y].agent = (IF y = t.id THEN None ELSE tasks[y].agent)
    BY <1>1, <2>1, <2>3 DEF TaskStates
  <2>5. QED
    BY <2>2, <2>4
<1>7. Status(t.id) = "ASSIGNED"
  BY DEF recordFailure
<1>8. \A y \in DOMAIN tasks : Status(y) = "COMPLETED" => tasks'[y].status = "COMPLETED"
  BY <1>6, <1>7 DEF Status
<1>9. AgentsAreOwn'
  <2>1. \A y \in DOMAIN tasks : /\ tasks'[y].agent \in {tasks[y].agent, None}
                                /\ tasks'[y].status = "ASSIGNED" =>
                                     tasks'[y].agent = tasks[y].agent /\ Status(y) = "ASSIGNED"
    BY <1>2, <1>6 DEF Status
  <2>2. DOMAIN tasks' = DOMAIN tasks /\ consumed' = consumed /\ assigned' = assigned /\ agents' = agents
    BY <1>6 DEF recordFailure
  <2>3. QED
    BY <2>1, <2>2, AgentsStayOwn DEF CooInvariant
<1>10. ASSUME NEW d \in Defined
       PROVE  /\ tasks'[d[2].id].status \in Working =>
                   Status(d[2].id) \in Working \/ \A x \in d[2].deps : tasks'[x].status = "COMPLETED"
              /\ d[2].authority = 4 =>
                   tasks'[d[2].id].status = Status(d[2].id) /\ tasks'[d[2].id].agent = tasks[d[2].id].agent
              /\ tasks'[d[2].id].status \in {"READY", "BLOCKED"} => tasks'[d[2].id].attempts < d[2].attempts
              /\ tasks'[d[2].id].used <= d[2].cost /\ tasks'[d[2].id].attempts <= d[2].attempts
  <2>1. /\ d[2].id \in DOMAIN tasks /\ d[2].deps \subseteq DOMAIN tasks
        /\ tasks[d[2].id].used <= d[2].cost /\ tasks[d[2].id].attempts <= d[2].attempts
        /\ d[2].authority = 4 => Status(d[2].id) = "AWAITING_APPROVAL"
        /\ Status(d[2].id) \in {"READY", "BLOCKED"} => tasks[d[2].id].attempts < d[2].attempts
    BY TaskHolds
  <2>2. CASE d[2].id = t.id
    <3>1. d[2] = t
      BY <1>1, <2>2
    <3>2. Status(t.id) \in Working
      BY <1>7 DEF Working
    <3>3. QED
      BY <1>2, <1>6, <1>7, <2>1, <3>1, <3>2
  <2>3. CASE d[2].id # t.id
    BY <1>6, <2>1, <2>3 DEF Status
  <2>4. QED
    BY <2>2, <2>3
<1>11. QED
  BY <1>5, <1>6, <1>8, <1>9, <1>10, TasksMayChange DEF recordFailure

\* A task is completed, and some of those that waited for it are ready.
LEMMA CompletionStep ==
    ASSUME CooInvariant, NEW p \in plans, NEW t \in Elements(p.tasks), NEW run, NEW artifact,
           completeTask(p, t, run, artifact)
    PROVE  CooInvariant'
<1>1. /\ tasks \in [DOMAIN tasks -> TaskStates] /\ t.id \in DOMAIN tasks /\ p \in Plans
      /\ \A d \in Defined : d[2].id \in DOMAIN tasks /\ (d[2].id = t.id => d[2] = t)
  BY TaskIsKnown
<1>2. PICK done : done = [tasks EXCEPT ![t.id].status = "COMPLETED"]
  OBVIOUS
<1>3. /\ done \in [DOMAIN tasks -> TaskStates]
      /\ \A y \in DOMAIN tasks : /\ done[y].status = (IF y = t.id THEN "COMPLETED" ELSE tasks[y].status)
                                 /\ done[y].attempts = tasks[y].attempts /\ done[y].used = tasks[y].used
                                 /\ done[y].agent = tasks[y].agent
  <2>1. "COMPLETED" \in TaskStatuses
    BY DEF TaskStatuses
  <2>2. QED
    BY <1>1, <1>2, <2>1, StatusUpdate
<1>4. PICK event : event = CooEvent(p, t.id, "task.completed", {artifact}, 1)
  OBVIOUS
<1>5. PICK after : after = RefreshAll(p, done)
  OBVIOUS
<1>6. \/ /\ tasks' = [id \in DOMAIN done |-> [done[id] EXCEPT !.status = after.states[id]]]
         /\ log' = log \cup {event} \cup after.events
      \/ tasks' = done /\ log' = log
  BY <1>2, <1>4, <1>5 DEF completeTask
<1>7. \A e \in after.events : e.source # "AGENT_FACTORY"
  BY <1>5, ReadinessEventsAre DEF RefreshAll
<1>8. PICK C : log' = log \cup C /\ \A e \in C : e.source # "AGENT_FACTORY"
  <2>1. event.source # "AGENT_FACTORY"
    BY <1>4, CooEventSource
  <2>2. CASE log' = log \cup {event} \cup after.events
    <3>1. PICK C : C = {event} \cup after.events
      OBVIOUS
    <3>2. log' = log \cup C /\ \A e \in C : e.source # "AGENT_FACTORY"
      BY <1>7, <2>1, <2>2, <3>1
    <3>3. QED
      BY <3>2
  <2>3. CASE log' = log
    <3>1. PICK C : C = {}
      OBVIOUS
    <3>2. log' = log \cup C /\ \A e \in C : e.source # "AGENT_FACTORY"
      BY <2>3, <3>1
    <3>3. QED
      BY <3>2
  <2>4. QED
    BY <1>6, <2>2, <2>3
<1>9. FactoryInvariant'
  BY <1>8, FactoryRests DEF completeTask
<1>10. ASSUME NEW y \in DOMAIN tasks
       PROVE  \/ after.states[y] = done[y].status
              \/ \E d \in Defined : d[2].id = y /\ after.states[y] = Readiness(d[2], done)
  <2>1. PICK S : after.states = [id \in DOMAIN done |->
                    IF \E i \in S : p.tasks[i].id = id THEN Readiness(Definition(p, id), done)
                    ELSE done[id].status] /\ S \subseteq DOMAIN p.tasks
    BY <1>5 DEF RefreshAll
  <2>2. y \in DOMAIN done
    BY <1>3
  <2>3. ASSUME NEW i \in S, p.tasks[i].id = y
        PROVE  \E d \in Defined : d[2].id = y /\ after.states[y] = Readiness(d[2], done)
    <3>1. p.tasks[i] \in Elements(p.tasks)
      BY <2>1 DEF Elements
    <3>2. Definition(p, y) = p.tasks[i]
      BY <1>1, <2>3, <3>1, TaskIsFound DEF CooInvariant, PlansAreKept
    <3>3. PICK d : d = <<p, p.tasks[i]>>
      OBVIOUS
    <3>4. d \in Defined /\ d[2] = p.tasks[i]
      BY <3>1, <3>3, DefinedAre
    <3>5. after.states[y] = Readiness(p.tasks[i], done)
      BY <2>1, <2>2, <2>3, <3>2
    <3>6. QED
      BY <2>3, <3>4, <3>5
  <2>4. QED
    BY <2>1, <2>2, <2>3
<1>11. ASSUME NEW y \in DOMAIN tasks
       PROVE  /\ after.states[y] \in TaskStatuses
              /\ \/ after.states[y] = done[y].status
                 \/ done[y].status \in {"READY", "BLOCKED"} /\ after.states[y] \in {"READY", "BLOCKED"}
              /\ after.states[y] = "READY" =>
                   \/ done[y].status = "READY"
                   \/ \A d \in Defined : d[2].id = y => \A x \in d[2].deps : done[x].status = "COMPLETED"
              /\ done[y].status = "COMPLETED" => after.states[y] = "COMPLETED"
  <2>1. done[y].status \in TaskStatuses
    BY <1>3 DEF TaskStates
  <2>2. CASE after.states[y] = done[y].status
    BY <2>1, <2>2
  <2>3. CASE \E d \in Defined : d[2].id = y /\ after.states[y] = Readiness(d[2], done)
    <3>1. PICK d \in Defined : d[2].id = y /\ after.states[y] = Readiness(d[2], done)
      BY <2>3
    <3>2. \A e \in Defined : e[2].id = y => e = d
      BY <3>1, DefinedByTheirIds DEF CooInvariant
    <3>3. /\ Readiness(d[2], done) \in TaskStatuses
          /\ \/ Readiness(d[2], done) = done[d[2].id].status
             \/ done[d[2].id].status \in {"READY", "BLOCKED"} /\ Readiness(d[2], done) \in {"READY", "BLOCKED"}
          /\ Readiness(d[2], done) = "READY" => \A x \in d[2].deps : done[x].status = "COMPLETED"
          /\ done[d[2].id].status = "COMPLETED" => Readiness(d[2], done) = "COMPLETED"
      BY <2>1, <3>1, ReadinessIs
    <3>4. QED
      BY <3>1, <3>2, <3>3
  <2>4. QED
    BY <1>10, <2>2, <2>3
<1>12. /\ tasks' \in [DOMAIN tasks -> TaskStates]
       /\ \A y \in DOMAIN tasks : /\ tasks'[y].status \in {done[y].status, after.states[y]}
                                  /\ tasks'[y].attempts = tasks[y].attempts /\ tasks'[y].used = tasks[y].used
                                  /\ tasks'[y].agent = tasks[y].agent
  <2>1. CASE tasks' = done
    BY <1>3, <2>1
  <2>2. CASE tasks' = [id \in DOMAIN done |-> [done[id] EXCEPT !.status = after.states[id]]]
    <3>1. DOMAIN done = DOMAIN tasks
      BY <1>3
    <3>2. ASSUME NEW y \in DOMAIN tasks
          PROVE  LET new == [done[y] EXCEPT !.status = after.states[y]]
                 IN  /\ new \in TaskStates /\ new.status = after.states[y] /\ new.attempts = done[y].attempts
                     /\ new.used = done[y].used /\ new.agent = done[y].agent
      BY <1>3, <1>11 DEF TaskStates
    <3>3. \A y \in DOMAIN tasks : tasks'[y] = [done[y] EXCEPT !.status = after.states[y]]
      BY <2>2, <3>1
    <3>4. QED
      BY <1>3, <2>2, <3>1, <3>2, <3>3
  <2>3. QED
    BY <1>6, <2>1, <2>2
<1>13. Status(t.id) = "ASSIGNED"
  BY DEF completeTask
<1>14. \A y \in DOMAIN tasks :
         /\ Status(y) = "COMPLETED" => tasks'[y].status = "COMPLETED"
         /\ done[y].status = "COMPLETED" => tasks'[y].status = "COMPLETED"
  BY <1>3, <1>11, <1>12 DEF Status
<1>15. AgentsAreOwn'
  <2>1. \A y \in DOMAIN tasks : /\ tasks'[y].agent \in {tasks[y].agent, None}
                                /\ tasks'[y].status = "ASSIGNED" =>
                                     tasks'[y].agent = tasks[y].agent /\ Status(y) = "ASSIGNED"
    BY <1>3, <1>11, <1>12 DEF Status
  <2>2. DOMAIN tasks' = DOMAIN tasks /\ consumed' = consumed /\ assigned' = assigned /\ agents' = agents
    BY <1>12 DEF completeTask
  <2>3. QED
    BY <2>1, <2>2, AgentsStayOwn DEF CooInvariant
<1>16. ASSUME NEW d \in Defined
       PROVE  /\ tasks'[d[2].id].status \in Working =>
                   Status(d[2].id) \in Working \/ \A x \in d[2].deps : tasks'[x].status = "COMPLETED"
              /\ d[2].authority = 4 =>
                   tasks'[d[2].id].status = Status(d[2].id) /\ tasks'[d[2].id].agent = tasks[d[2].id].agent
              /\ tasks'[d[2].id].status \in {"READY", "BLOCKED"} => tasks'[d[2].id].attempts < d[2].attempts
              /\ tasks'[d[2].id].used <= d[2].cost /\ tasks'[d[2].id].attempts <= d[2].attempts
  <2>1. /\ d[2].id \in DOMAIN tasks /\ d[2].deps \subseteq DOMAIN tasks
        /\ tasks[d[2].id].used <= d[2].cost /\ tasks[d[2].id].attempts <= d[2].attempts
        /\ d[2].authority = 4 => Status(d[2].id) = "AWAITING_APPROVAL"
        /\ Status(d[2].id) \in {"READY", "BLOCKED"} => tasks[d[2].id].attempts < d[2].attempts
    BY TaskHolds
  <2>2. \/ tasks'[d[2].id].status = done[d[2].id].status
        \/ /\ done[d[2].id].status \in {"READY", "BLOCKED"} /\ tasks'[d[2].id].status \in {"READY", "BLOCKED"}
           /\ tasks'[d[2].id].status = "READY" =>
                 done[d[2].id].status = "READY" \/ \A x \in d[2].deps : done[x].status = "COMPLETED"
    BY <1>11, <1>12, <2>1
  <2>3. tasks'[d[2].id].status \in Working =>
                   Status(d[2].id) \in Working \/ \A x \in d[2].deps : tasks'[x].status = "COMPLETED"
    BY <1>3, <1>13, <1>14, <2>1, <2>2 DEF Working, Status
  <2>4. QED
    BY <1>3, <1>12, <1>13, <2>1, <2>2, <2>3 DEF Status
<1>17. QED
  BY <1>9, <1>12, <1>14, <1>15, <1>16, TasksMayChange DEF completeTask

\* A ready task gets an agent that no task has had.
LEMMA AssignmentStep ==
    ASSUME CooInvariant, NEW p \in plans, NEW t \in Elements(p.tasks), NEW id \in RequestIds,
           NEW runtime \in Runtimes, requestAssignment(p, t, id, runtime)
    PROVE  CooInvariant'
<1>1. /\ tasks \in [DOMAIN tasks -> TaskStates] /\ t.id \in DOMAIN tasks /\ p \in Plans
      /\ \A d \in Defined : d[2].id \in DOMAIN tasks /\ (d[2].id = t.id => d[2] = t)
      /\ Status(t.id) \in {"READY", "BLOCKED"} => tasks[t.id].attempts < t.attempts
      /\ t.attempts \in Nat
  BY TaskIsKnown
<1>2. PICK r : r = FactoryRequest(p, t, id)
  OBVIOUS
<1>3. r.ws = Planner.ws /\ r.id = id /\ r.task = t.id /\ IsRequest(r)
  <2>1. t.ceilings \in [Ceilings -> Nat] /\ id # None
    BY <1>1, PlansAssumption
  <2>2. r.ceilings = [t.ceilings EXCEPT !["authority"] = t.authority, !["budget"] = t.cost,
                                        !["retry"] = t.attempts - 1]
    BY <1>2 DEF FactoryRequest
  <2>3. r.ceilings["children"] = t.ceilings["children"] /\ t.ceilings["children"] \in Nat
    BY <2>1, <2>2 DEF Ceilings
  <2>4. r.ws = Planner.ws /\ r.id = id /\ r.task = t.id
    BY <1>2 DEF FactoryRequest
  <2>5. QED
    BY <2>1, <2>3, <2>4 DEF IsRequest
<1>4. PICK fresh : fresh = Refreshed(t, tasks)
  OBVIOUS
<1>5. PICK event : event = CooEvent(p, t.id, "task.assigned", {id, runtime}, 0)
  OBVIOUS
<1>6. PICK C : C = Elements(ReadinessEvents(p, t, tasks)) \cup {e \in {event} : Recordable(e)}
  OBVIOUS
<1>7. /\ id \notin assigned /\ IsAssignable(t, fresh) /\ CanInstantiate(Planner, r) /\ instantiate(r)
      /\ tasks' = HandedOut(fresh, t.id, id, runtime)
      /\ assigned' = assigned \cup {id}
      /\ log' = log \cup Elements(ReadinessEvents(p, t, tasks)) \cup {FactoryEvent(Planner, r, "created")}
                    \cup {e \in {event} : Recordable(e)}
      /\ UNCHANGED <<templates, objectives, links, plans, cards>>
  BY <1>2, <1>4, <1>5, Zenon DEF requestAssignment, HandedOut
<1>8. log' = log \cup {FactoryEvent(Planner, r, "created")} \cup C /\ \A e \in C : e.source # "AGENT_FACTORY"
  <2>1. event.source # "AGENT_FACTORY" /\ \A e \in Elements(ReadinessEvents(p, t, tasks)) : e.source # "AGENT_FACTORY"
    BY <1>5, CooEventSource, ReadinessEventsAre
  <2>2. QED
    BY <1>6, <1>7, <2>1
<1>9. FactoryInvariant'
  <2>1. AgentsAreKept' /\ AuthorityShrinks' /\ AgentLimitsHold' /\ LivesAreRecorded'
    BY <1>3, <1>7, <1>8, BirthStep DEF CooInvariant
  <2>2. QED
    BY <1>7, <2>1 DEF CooInvariant, FactoryInvariant, LinksAreKept
<1>10. PICK s : s = Readiness(t, tasks)
  OBVIOUS
<1>11. /\ s \in TaskStatuses
       /\ s = Status(t.id) \/ (Status(t.id) \in {"READY", "BLOCKED"} /\ s \in {"READY", "BLOCKED"})
       /\ s = "READY" => \A d \in t.deps : Status(d) = "COMPLETED"
  <2>1. tasks[t.id].status \in TaskStatuses
    BY <1>1 DEF TaskStates
  <2>2. QED
    BY <1>10, <2>1, ReadinessIs DEF Status
<1>12. /\ fresh \in [DOMAIN tasks -> TaskStates]
       /\ \A y \in DOMAIN tasks : /\ fresh[y].status = (IF y = t.id THEN s ELSE tasks[y].status)
                                  /\ fresh[y].attempts = tasks[y].attempts /\ fresh[y].used = tasks[y].used
                                  /\ fresh[y].agent = tasks[y].agent
  <2>1. fresh = [tasks EXCEPT ![t.id].status = s]
    BY <1>4, <1>10 DEF Refreshed
  <2>2. QED
    BY <1>1, <1>11, <2>1, StatusUpdate
<1>13. /\ s = "READY" /\ t.authority # 4 /\ Status(t.id) \in {"READY", "BLOCKED"}
       /\ \A d \in t.deps : Status(d) = "COMPLETED"
       /\ tasks[t.id].attempts < t.attempts
  BY <1>1, <1>7, <1>11, <1>12 DEF IsAssignable
<1>14. /\ tasks' \in [DOMAIN tasks -> TaskStates]
       /\ \A y \in DOMAIN tasks :
            /\ tasks'[y].status = (IF y = t.id THEN "ASSIGNED" ELSE tasks[y].status)
            /\ tasks'[y].attempts = (IF y = t.id THEN tasks[t.id].attempts + 1 ELSE tasks[y].attempts)
            /\ tasks'[y].used = tasks[y].used
            /\ tasks'[y].agent = (IF y = t.id THEN id ELSE tasks[y].agent)
  <2>1. PICK g : g = HandedOut(fresh, t.id, id, runtime)
    OBVIOUS
  <2>2. /\ g \in [DOMAIN tasks -> TaskStates]
        /\ \A y \in DOMAIN tasks :
            /\ g[y].status = (IF y = t.id THEN "ASSIGNED" ELSE fresh[y].status)
            /\ g[y].attempts = (IF y = t.id THEN fresh[t.id].attempts + 1 ELSE fresh[y].attempts)
            /\ g[y].used = fresh[y].used
            /\ g[y].agent = (IF y = t.id THEN id ELSE fresh[y].agent)
    BY <1>1, <1>12, <2>1, AssignmentUpdate
  <2>3. tasks' = g
    BY <1>7, <2>1
  <2>4. QED
    BY <1>1, <1>12, <2>2, <2>3
<1>15. \A y \in DOMAIN tasks : Status(y) = "COMPLETED" => tasks'[y].status = "COMPLETED"
  BY <1>13, <1>14 DEF Status
<1>16. AgentsAreOwn'
  <2>1. PICK new : new = NewAgent(r)
    OBVIOUS
  <2>2. /\ agents' = agents \cup {new} /\ new.request = r
        /\ consumed' = consumed \cup {<<r.ws, r.id>>} /\ <<r.ws, r.id>> \notin consumed
    BY <1>7, <2>1, NewAgentFields DEF instantiate, NewAgent, CanInstantiate, IsUnused
  <2>3. \A a \in agents : <<a.request.ws, a.request.id>> \in consumed
    BY DEF CooInvariant, FactoryInvariant, AgentsAreKept
  <2>4. id # None
    BY PlansAssumption
  <2>5. \A y \in DOMAIN tasks : tasks[y].agent # id
    BY <1>7, <2>4 DEF CooInvariant, AgentsAreOwn, AgentIsOwn
  <2>6. ASSUME NEW y \in DOMAIN tasks
        PROVE  AgentIsOwn(y)'
    <3>1. CASE y = t.id
      <4>1. tasks'[y].agent = id
        BY <1>14, <3>1
      <4>2. \A a \in AgentsOf(Planner.ws)' : a.request.id = id => a.request.task = y
        BY <1>3, <2>2, <2>3, <3>1 DEF AgentsOf
      <4>3. \A x \in DOMAIN tasks' : x # y => tasks'[x].agent # id
        BY <1>14, <2>5, <3>1
      <4>4. <<Planner.ws, id>> \in consumed' /\ id \in assigned'
        BY <1>3, <1>7, <2>2
      <4>5. QED
        BY <2>4, <4>1, <4>2, <4>3, <4>4 DEF AgentIsOwn
    <3>2. CASE y # t.id
      <4>1. AgentIsOwn(y)
        BY DEF CooInvariant, AgentsAreOwn
      <4>2. tasks'[y].agent = tasks[y].agent /\ tasks'[y].status = tasks[y].status
        BY <1>14, <3>2
      <4>3. \A a \in AgentsOf(Planner.ws)' : a \in AgentsOf(Planner.ws) \/ a.request.id = id
        BY <1>3, <2>2 DEF AgentsOf
      <4>4. \A x \in DOMAIN tasks' : x \in DOMAIN tasks /\ (tasks'[x].agent = tasks[x].agent \/ tasks'[x].agent = id)
        BY <1>14
      <4>5. consumed \subseteq consumed' /\ assigned \subseteq assigned'
        BY <1>7, <2>2
      <4>6. QED
        BY <2>5, <4>1, <4>2, <4>3, <4>4, <4>5 DEF AgentIsOwn, Status
    <3>3. QED
      BY <3>1, <3>2
  <2>7. QED
    BY <1>14, <2>6 DEF AgentsAreOwn
<1>17. ASSUME NEW d \in Defined
       PROVE  /\ tasks'[d[2].id].status \in Working =>
                   Status(d[2].id) \in Working \/ \A x \in d[2].deps : tasks'[x].status = "COMPLETED"
              /\ d[2].authority = 4 =>
                   tasks'[d[2].id].status = Status(d[2].id) /\ tasks'[d[2].id].agent = tasks[d[2].id].agent
              /\ tasks'[d[2].id].status \in {"READY", "BLOCKED"} => tasks'[d[2].id].attempts < d[2].attempts
              /\ tasks'[d[2].id].used <= d[2].cost /\ tasks'[d[2].id].attempts <= d[2].attempts
  <2>1. /\ d[2].id \in DOMAIN tasks /\ d[2].deps \subseteq DOMAIN tasks
        /\ tasks[d[2].id].used <= d[2].cost /\ tasks[d[2].id].attempts <= d[2].attempts
        /\ d[2].authority = 4 => Status(d[2].id) = "AWAITING_APPROVAL"
        /\ Status(d[2].id) \in {"READY", "BLOCKED"} => tasks[d[2].id].attempts < d[2].attempts
    BY TaskHolds
  <2>2. CASE d[2].id = t.id
    <3>1. d[2] = t
      BY <1>1, <2>2
    <3>2. \A x \in t.deps : tasks'[x].status = "COMPLETED"
      BY <1>13, <1>15, <2>1, <3>1
    <3>3. tasks[t.id].attempts \in Nat
      BY <1>1 DEF TaskStates
    <3>4. QED
      BY <1>1, <1>13, <1>14, <2>1, <3>1, <3>2, <3>3
  <2>3. CASE d[2].id # t.id
    BY <1>14, <2>1, <2>3 DEF Status
  <2>4. QED
    BY <2>2, <2>3
<1>18. QED
  BY <1>7, <1>9, <1>14, <1>15, <1>16, <1>17, TasksMayChange

\* The events of a plan are the planner's.
LEMMA PlanEventsAre ==
    ASSUME NEW p \in Plans, NEW i \in RecordedOf(PlanEvents(p))
    PROVE  PlanEvents(p)[i].source # "AGENT_FACTORY"
<1>1. i \in 1 .. 2 + 2 * Len(p.tasks)
  BY DEF RecordedOf, PlanEvents
<1>2. \E q, t, type, refs, listed : PlanEvents(p)[i] = CooEvent(q, t, type, refs, listed)
  <2>1. CASE i = 1
    <3>1. PlanEvents(p)[i] = CooEvent(p, p.id, "objective.created", {}, 0)
      BY <1>1, <2>1 DEF PlanEvents
    <3>2. QED
      BY <3>1
  <2>2. CASE i = 2
    <3>1. PlanEvents(p)[i] = CooEvent(p, p.project, "project.created", {}, 0)
      BY <1>1, <2>2 DEF PlanEvents
    <3>2. QED
      BY <3>1
  <2>3. CASE i # 1 /\ i # 2
    <3>1. PICK t : t = p.tasks[(i - 1) \div 2]
      OBVIOUS
    <3>2. PlanEvents(p)[i] = IF i % 2 = 1 THEN CooEvent(p, t.id, "task.created", {}, 0)
                             ELSE DependencyEvent(p, t, StatusEvent(InitialStatus(t)))
      BY <1>1, <2>3, <3>1 DEF PlanEvents
    <3>3. DependencyEvent(p, t, StatusEvent(InitialStatus(t)))
            = CooEvent(p, t.id, StatusEvent(InitialStatus(t)), t.deps, Cardinality(t.deps))
      BY DEF DependencyEvent
    <3>4. CASE i % 2 = 1
      BY <3>2, <3>4
    <3>5. CASE i % 2 # 1
      BY <3>2, <3>3, <3>5
    <3>6. QED
      BY <3>4, <3>5
  <2>4. QED
    BY <2>1, <2>2, <2>3
<1>3. QED
  BY <1>2, CooEventSource

\* A new plan
LEMMA CreationStep ==
    ASSUME CooInvariant, NEW p \in Plans, createPlan(p)
    PROVE  CooInvariant'
<1>1. /\ ValidPlan(p) /\ IdsAreNew(p) /\ CanRegisterPlan(Planner, p.id, TaskIds(p))
      /\ registerPlan(Planner, p.id, TaskIds(p)) /\ plans' = plans \cup {p}
      /\ templates' = templates /\ agents' = agents /\ consumed' = consumed /\ assigned' = assigned
  BY DEF createPlan
<1>2. \A t \in Elements(p.tasks) : /\ t.id \in TaskIds(p) /\ Definition(p, t.id) = t
                                   /\ TaskIsValid(p, t) /\ t.cost \in Nat
  BY <1>1, TaskIsFound, PlansAssumption DEF ValidPlan, TaskIds
<1>3. \A q \in plans : TaskIds(p) \cap TaskIds(q) = {}
  BY <1>1 DEF IdsAreNew, EntityIds
<1>4. DOMAIN tasks = UNION {TaskIds(q) : q \in plans} /\ \A id \in DOMAIN tasks : tasks[id] \in TaskStates
  BY DEF CooInvariant, TasksAreKept
<1>5. TaskIds(p) \cap DOMAIN tasks = {}
  BY <1>3, <1>4
<1>6. \A d : d \in Defined' <=> d \in Defined \/ \E t \in Elements(p.tasks) : d = <<p, t>>
  BY <1>1 DEF Defined
<1>7. FactoryInvariant'
  <2>1. PICK C : C = {PlanEvents(p)[i] : i \in RecordedOf(PlanEvents(p))}
    OBVIOUS
  <2>2. log' = log \cup C /\ \A e \in C : e.source # "AGENT_FACTORY"
    BY <2>1, PlanEventsAre DEF createPlan
  <2>3. AgentsAreKept' /\ AuthorityShrinks' /\ AgentLimitsHold' /\ LivesAreRecorded'
    BY <1>1, <2>2, QuietStep DEF CooInvariant
  <2>4. LinksAreKept'
    BY <1>1, PlanKeepsLinks DEF CooInvariant, FactoryInvariant, CanRegisterPlan
  <2>5. QED
    BY <1>1, <2>3, <2>4 DEF CooInvariant, FactoryInvariant
<1>8. links' = links \cup {<<Planner.ws, id, p.id>> : id \in TaskIds(p)}
  BY <1>1 DEF registerPlan
<1>9. PlansAreKept'
  <2>1. plans' \subseteq Plans /\ \A q \in plans' : ValidPlan(q)
    BY <1>1 DEF CooInvariant, PlansAreKept
  <2>2. \A q, u \in plans' : q # u => TaskIds(q) \cap TaskIds(u) = {}
    BY <1>1, <1>3 DEF CooInvariant, PlansAreKept
  <2>3. ASSUME NEW d \in Defined'
        PROVE  <<Planner.ws, d[2].id, d[1].id>> \in links'
    <3>1. CASE d \in Defined
      BY <1>8, <3>1 DEF CooInvariant, PlansAreKept
    <3>2. CASE \E t \in Elements(p.tasks) : d = <<p, t>>
      BY <1>2, <1>8, <3>2
    <3>3. QED
      BY <1>6, <3>1, <3>2
  <2>4. QED
    BY <2>1, <2>2, <2>3 DEF PlansAreKept
<1>10. /\ DOMAIN tasks' = DOMAIN tasks \cup TaskIds(p)
       /\ \A id \in DOMAIN tasks : tasks'[id] = tasks[id]
       /\ \A t \in Elements(p.tasks) :
            tasks'[t.id] = [status |-> InitialStatus(t), attempts |-> 0, used |-> 0,
                            agent |-> None, runtime |-> None]
  <2>1. tasks' = [id \in DOMAIN tasks \cup TaskIds(p) |->
          IF id \in DOMAIN tasks THEN tasks[id]
          ELSE [status |-> InitialStatus(Definition(p, id)), attempts |-> 0, used |-> 0,
                agent |-> None, runtime |-> None]]
    BY DEF createPlan
  <2>2. DOMAIN tasks' = DOMAIN tasks \cup TaskIds(p) /\ \A id \in DOMAIN tasks : tasks'[id] = tasks[id]
    BY <2>1
  <2>3. ASSUME NEW t \in Elements(p.tasks)
        PROVE  tasks'[t.id] = [status |-> InitialStatus(t), attempts |-> 0, used |-> 0,
                               agent |-> None, runtime |-> None]
    <3>1. t.id \in TaskIds(p) /\ t.id \notin DOMAIN tasks /\ Definition(p, t.id) = t
      BY <1>2, <1>5
    <3>2. QED
      BY <2>1, <3>1
  <2>4. QED
    BY <2>2, <2>3
<1>11. \A t \in Elements(p.tasks) :
         /\ InitialStatus(t) \in {"AWAITING_APPROVAL", "BLOCKED", "READY"}
         /\ InitialStatus(t) = "READY" => t.deps = {}
         /\ t.authority = 4 => InitialStatus(t) = "AWAITING_APPROVAL"
  BY DEF InitialStatus
<1>12. ASSUME NEW t \in Elements(p.tasks)
       PROVE  /\ tasks'[t.id] \in TaskStates /\ tasks'[t.id].status = InitialStatus(t)
              /\ tasks'[t.id].attempts = 0 /\ tasks'[t.id].used = 0 /\ tasks'[t.id].agent = None
  <2>1. PICK new : new = [status |-> InitialStatus(t), attempts |-> 0, used |-> 0, agent |-> None, runtime |-> None]
    OBVIOUS
  <2>2. InitialStatus(t) \in TaskStatuses
    BY <1>11 DEF TaskStatuses
  <2>3. /\ new \in TaskStates /\ new.status = InitialStatus(t) /\ new.attempts = 0 /\ new.used = 0
        /\ new.agent = None
    BY <2>1, <2>2 DEF TaskStates
  <2>4. tasks'[t.id] = new
    BY <1>10, <2>1
  <2>5. QED
    BY <2>3, <2>4
<1>13. TasksAreKept'
  <2>1. DOMAIN tasks' = UNION {TaskIds(q) : q \in plans'}
    BY <1>1, <1>4, <1>10
  <2>2. \A id \in DOMAIN tasks' : tasks'[id] \in TaskStates
    <3>1. \A id \in TaskIds(p) : \E t \in Elements(p.tasks) : t.id = id
      BY DEF TaskIds
    <3>2. QED
      BY <1>4, <1>10, <1>12, <3>1
  <2>3. tasks' = [id \in DOMAIN tasks' |-> tasks'[id]]
    BY <1>10 DEF createPlan
  <2>4. QED
    BY <2>1, <2>2, <2>3 DEF TasksAreKept
<1>14. ASSUME NEW d \in Defined'
       PROVE  \/ /\ d \in Defined /\ tasks'[d[2].id] = tasks[d[2].id]
                 /\ \A x \in d[2].deps : tasks'[x] = tasks[x]
              \/ d[1] = p /\ d[2] \in Elements(p.tasks)
  <2>1. CASE d \in Defined
    <3>1. d[2].id \in DOMAIN tasks /\ d[2].deps \subseteq DOMAIN tasks
      BY <2>1, TaskHolds
    <3>2. QED
      BY <1>10, <2>1, <3>1
  <2>2. CASE \E t \in Elements(p.tasks) : d = <<p, t>>
    BY <2>2
  <2>3. QED
    BY <1>6, <2>1, <2>2
<1>15. TasksWaitForOthers'
  <2>1. SUFFICES ASSUME NEW d \in Defined', tasks'[d[2].id].status \in Working, NEW x \in d[2].deps
                 PROVE  tasks'[x].status = "COMPLETED"
    BY DEF TasksWaitForOthers, Working, Status
  <2>2. CASE d \in Defined /\ tasks'[d[2].id] = tasks[d[2].id] /\ \A y \in d[2].deps : tasks'[y] = tasks[y]
    BY <2>1, <2>2 DEF CooInvariant, TasksWaitForOthers, Working, Status
  <2>3. CASE d[2] \in Elements(p.tasks)
    BY <1>11, <1>12, <2>1, <2>3 DEF Working
  <2>4. QED
    BY <1>14, <2>2, <2>3
<1>16. FounderIsAsked' /\ AttemptsAreLeft' /\ TasksKeepToPolicy'
  <2>1. ASSUME NEW d \in Defined'
        PROVE  /\ d[2].authority = 4 =>
                    tasks'[d[2].id].status = "AWAITING_APPROVAL" /\ tasks'[d[2].id].agent = None
               /\ tasks'[d[2].id].status \in {"READY", "BLOCKED"} => tasks'[d[2].id].attempts < d[2].attempts
               /\ tasks'[d[2].id].used <= d[2].cost /\ tasks'[d[2].id].attempts <= d[2].attempts
    <3>1. CASE d \in Defined /\ tasks'[d[2].id] = tasks[d[2].id]
      BY <3>1 DEF CooInvariant, FounderIsAsked, AttemptsAreLeft, TasksKeepToPolicy, Status
    <3>2. CASE d[2] \in Elements(p.tasks)
      <4>1. d[2].attempts \in 1 .. (MaxRetries + 1) /\ d[2].cost \in Nat /\ MaxRetries \in Nat
        BY <1>2, <3>2, PlansAssumption DEF TaskIsValid
      <4>2. QED
        BY <1>11, <1>12, <3>2, <4>1
    <3>3. QED
      BY <1>14, <3>1, <3>2
  <2>2. QED
    BY <2>1 DEF FounderIsAsked, AttemptsAreLeft, TasksKeepToPolicy, Status
<1>17. AgentsAreOwn'
  <2>1. \A id \in TaskIds(p) : tasks'[id].agent = None /\ tasks'[id].status # "ASSIGNED"
    BY <1>11, <1>12 DEF TaskIds
  <2>2. ASSUME NEW id \in DOMAIN tasks'
        PROVE  AgentIsOwn(id)'
    <3>1. CASE id \in TaskIds(p)
      BY <2>1, <3>1 DEF AgentIsOwn, Status
    <3>2. CASE id \in DOMAIN tasks
      <4>1. AgentIsOwn(id) /\ tasks'[id] = tasks[id]
        BY <1>10, <3>2 DEF CooInvariant, AgentsAreOwn
      <4>2. AgentsOf(Planner.ws)' = AgentsOf(Planner.ws)
        BY <1>1 DEF AgentsOf
      <4>3. \A x \in DOMAIN tasks' : (x \in DOMAIN tasks /\ tasks'[x] = tasks[x]) \/ tasks'[x].agent = None
        BY <1>10, <2>1
      <4>4. QED
        BY <1>1, <4>1, <4>2, <4>3 DEF AgentIsOwn, Status
    <3>3. QED
      BY <1>10, <3>1, <3>2
  <2>3. QED
    BY <2>2 DEF AgentsAreOwn
<1>18. QED
  BY <1>7, <1>9, <1>13, <1>15, <1>16, <1>17 DEF CooInvariant

\* Whatever else happens in the factory, identifiers stay consumed, tasks stay
\* linked, and an agent is one there was before or has a new identifier.
LEMMA FactoryOnlyGrows ==
    ASSUME FactoryInvariant, FactoryNext
    PROVE  /\ consumed \subseteq consumed' /\ links \subseteq links'
           /\ \A a \in agents' : \/ \E b \in agents : b.request = a.request
                                 \/ <<a.request.ws, a.request.id>> \notin consumed
<1>1. PICK ctx \in Contexts :
        \/ \E l \in Links : l[1] = ctx.ws /\ registerObjective(ctx, l[3])
        \/ \E l \in Links : l[1] = ctx.ws /\ registerTask(ctx, l[2], l[3])
        \/ \E t \in Templates : putTemplate(ctx, t)
        \/ \E r \in Requests : instantiateAgent(ctx, r)
        \/ \E r \in Requests, outcome \in {"completed", "failed"} : complete(ctx, r.id, outcome)
  BY DEF FactoryNext
<1>2. CASE \/ \E l \in Links : l[1] = ctx.ws /\ registerObjective(ctx, l[3])
           \/ \E l \in Links : l[1] = ctx.ws /\ registerTask(ctx, l[2], l[3])
           \/ \E t \in Templates : putTemplate(ctx, t)
  <2>1. consumed' = consumed /\ agents' = agents /\ links \subseteq links'
    BY <1>2 DEF registerObjective, registerTask, putTemplate
  <2>2. QED
    BY <2>1
<1>3. CASE \E r \in Requests : instantiateAgent(ctx, r)
  <2>1. PICK r \in Requests : instantiateAgent(ctx, r)
    BY <1>3
  <2>2. PICK new : new = NewAgent(r)
    OBVIOUS
  <2>3. /\ new.request = r /\ agents' = agents \cup {new} /\ consumed' = consumed \cup {<<r.ws, r.id>>}
        /\ <<r.ws, r.id>> \notin consumed /\ links' = links
    BY <2>1, <2>2, NewAgentFields DEF instantiateAgent, instantiate, NewAgent, CanInstantiate, IsUnused
  <2>4. QED
    BY <2>3
<1>4. CASE \E r \in Requests, outcome \in {"completed", "failed"} : complete(ctx, r.id, outcome)
  <2>1. PICK r \in Requests, outcome \in {"completed", "failed"} : complete(ctx, r.id, outcome)
    BY <1>4
  <2>2. PICK a : a = Agent(ctx.ws, r.id)
    OBVIOUS
  <2>3. a \in agents /\ a.request.ws = ctx.ws /\ a.request.id = r.id
    BY <2>1, <2>2 DEF complete, HasAgent, Agent
  <2>4. Ends(a) /\ links' = links /\ consumed' = consumed
    BY <2>1, <2>2, <2>3 DEF complete, Ends, Remains, HasNoActiveChild
  <2>5. \A b \in agents' : \E c \in agents : b.request = c.request
    BY <2>4, EndKeepsAgents DEF FactoryInvariant
  <2>6. QED
    BY <2>4, <2>5
<1>5. QED
  BY <1>1, <1>2, <1>3, <1>4

\* Steps of the factory that are not the planner's
LEMMA OthersStep ==
    ASSUME CooInvariant, FactoryInvariant', UNCHANGED cooVars, consumed \subseteq consumed', links \subseteq links',
           \A a \in agents' : \/ \E b \in agents : b.request = a.request
                              \/ <<a.request.ws, a.request.id>> \notin consumed
    PROVE  CooInvariant'
<1>1. plans' = plans /\ tasks' = tasks /\ assigned' = assigned
  BY DEF cooVars
<1>2. tasks' \in [DOMAIN tasks -> TaskStates]
  BY <1>1 DEF CooInvariant, TasksAreKept
<1>3. AgentsAreOwn'
  BY <1>1, AgentsStayOwn DEF CooInvariant, Status
<1>4. \A id \in DOMAIN tasks : Status(id) = "COMPLETED" => tasks'[id].status = "COMPLETED"
  BY <1>1 DEF Status
<1>5. ASSUME NEW d \in Defined
      PROVE  /\ tasks'[d[2].id].status \in Working =>
                   Status(d[2].id) \in Working \/ \A x \in d[2].deps : tasks'[x].status = "COMPLETED"
             /\ d[2].authority = 4 =>
                   tasks'[d[2].id].status = Status(d[2].id) /\ tasks'[d[2].id].agent = tasks[d[2].id].agent
             /\ tasks'[d[2].id].status \in {"READY", "BLOCKED"} => tasks'[d[2].id].attempts < d[2].attempts
             /\ tasks'[d[2].id].used <= d[2].cost /\ tasks'[d[2].id].attempts <= d[2].attempts
  BY <1>1, TaskHolds DEF Status
<1>6. QED
  BY <1>1, <1>2, <1>3, <1>4, <1>5, TasksMayChange

\* The invariant holds without plans.
LEMMA CooStart ==
    ASSUME CooInit
    PROVE  CooInvariant
<1>1. FactoryInvariant /\ plans = {} /\ tasks = [t \in {} |-> {}]
  BY FactoryStart DEF CooInit
<1>2. Defined = {} /\ DOMAIN tasks = {} /\ UNION {TaskIds(p) : p \in plans} = {}
  BY <1>1 DEF Defined
<1>3. PlansAreKept /\ TasksAreKept /\ AgentsAreOwn
  BY <1>1, <1>2 DEF PlansAreKept, TasksAreKept, AgentsAreOwn
<1>4. TasksWaitForOthers /\ FounderIsAsked /\ AttemptsAreLeft /\ TasksKeepToPolicy
  BY <1>2 DEF TasksWaitForOthers, FounderIsAsked, AttemptsAreLeft, TasksKeepToPolicy
<1>5. QED
  BY <1>1, <1>3, <1>4 DEF CooInvariant

\* Every operation keeps the invariant.
LEMMA PlannerStep ==
    ASSUME CooInvariant, CooNext
    PROVE  CooInvariant'
<1>1. CASE \E p \in Plans : createPlan(p)
  BY <1>1, CreationStep
<1>2. CASE \E p \in plans : \E t \in Elements(p.tasks) : refusedAssignment(p, t)
  BY <1>2, RefusalStep
<1>3. CASE \E p \in plans : \E t \in Elements(p.tasks) :
             \E id \in RequestIds, runtime \in Runtimes : requestAssignment(p, t, id, runtime)
  BY <1>3, AssignmentStep
<1>4. CASE \E p \in plans : \E t \in Elements(p.tasks) : \E n \in Amounts : recordUsage(p, t, n)
  BY <1>4, UsageStep
<1>5. CASE \E p \in plans : \E t \in Elements(p.tasks) :
             \E run \in RequestIds, a \in Artifacts : completeTask(p, t, run, a)
  BY <1>5, CompletionStep
<1>6. CASE \E p \in plans : \E t \in Elements(p.tasks) : \E code \in FailureCodes : recordFailure(p, t, code)
  BY <1>6, FailureStep
<1>7. CASE FactoryNext /\ UNCHANGED cooVars
  <2>1. FactoryInvariant /\ FactoryInvariant'
    BY <1>7, FactoryStep DEF CooInvariant
  <2>2. QED
    BY <1>7, <2>1, FactoryOnlyGrows, OthersStep
<1>8. QED
  BY <1>1, <1>2, <1>3, <1>4, <1>5, <1>6, <1>7 DEF CooNext, PlannerNext

\* The invariant of the planner
LEMMA CooIsInvariant == CooSpec => []CooInvariant
<1>1. CooInvariant /\ [CooNext]_companyVars => CooInvariant'
  <2>1. CASE CooNext
    BY <2>1, PlannerStep
  <2>2. CASE UNCHANGED companyVars
    <3>1. /\ log' = log /\ templates' = templates /\ objectives' = objectives /\ links' = links
          /\ agents' = agents /\ consumed' = consumed /\ UNCHANGED cooVars
      BY <2>2 DEF companyVars, factoryVars
    <3>2. CooInvariant => FactoryInvariant'
      BY <3>1, RestKeepsTheFactory DEF CooInvariant
    <3>3. QED
      BY <3>1, <3>2, OthersStep
  <2>3. QED
    BY <2>1, <2>2
<1>2. QED
  BY <1>1, CooStart, PTL DEF CooSpec

\* The same when the planner makes agents of its own: whatever it plans,
\* assigns and fails, the agents keep to their lineage and to the limits, and
\* its own events do not blur the record of their lives (ai-coo.ts
\* requestAssignment, agent-factory.ts).
THEOREM LineageIsKeptByPlans == CooSpec => []LineageHolds
BY CooIsInvariant, CooIsSound, PTL

\* No task is worked on before everything it depends on is complete, one that
\* needs the Founder never gets past waiting, and every attempt has an agent of
\* its own, for every set of plans and however requests, refusals, failures and
\* retries interleave (ai-coo.ts createPlan, requestAssignment, completeTask).
THEOREM TasksComeInOrder == CooSpec => []DependenciesComeFirst
BY CooIsInvariant, CooIsSound, PTL

\* Over all attempts together no task spends more than its cost limit, nor has
\* more attempts than its policy (ai-coo.ts recordUsage, recordFailure).
THEOREM PoliciesAreKept == CooSpec => []TasksKeepToPolicy
BY CooIsInvariant, CooIsSound, PTL
=============================================================================
