---------------------------- MODULE Publication ----------------------------
(***************************************************************************)
(* Publication of one listing version on one marketplace account:          *)
(* prepareListingForPublication, requestPublicationApproval and            *)
(* publishListing over withIdempotency, the publication_attempts and       *)
(* idempotency_keys tables and the PUBLICATION approvals.                  *)
(*                                                                         *)
(* Temporal retries an activity that failed or timed out, possibly while   *)
(* the first execution still runs, and the API offers the same functions   *)
(* for manual reconciliation, so several calls run at once.  A call        *)
(* is cut at every await that another call or a crash can come between and *)
(* that writes, or that leads to a write decided on earlier reads.         *)
(***************************************************************************)
EXTENDS Naturals, Sequences, FiniteSets

CONSTANTS
    Calls,         \* executions of prepareListingForPublication and publishListing
    Uploads,       \* how many images and files the listing version has
    RateLimit,     \* rateLimitPerDay of the account
    MaxApprovals   \* bound of the approval requests

ASSUME BoundAssumption == Uploads \in Nat /\ RateLimit \in Nat /\ MaxApprovals \in Nat

\* External writes, in the order the calls make them: the draft, each upload,
\* and the publication.  Each has an idempotency key of its own.
Draft == 0
Publish == Uploads + 1
Ops == 0..Publish

KeyStatuses == {"NONE", "PENDING", "SUCCEEDED", "FAILED"}
\* BLOCKED stands for the five BLOCKED_ statuses.
AttemptStatuses ==
    {"BLOCKED", "RESERVED", "READY_FOR_PUBLISH", "PUBLISHED", "IDEMPOTENT_REPLAY", "FAILED"}
\* APPROVED stands for APPROVED_WITH_CONDITIONS and REJECTED for REVISION_REQUESTED too.
ApprovalStates == {"PENDING", "APPROVED", "REJECTED", "REVOKED", "EXPIRED"}
\* pc of a call: what it does next
Claimed == {"reserve", "check", "dispatch", "cache", "failKey"}
Stopped == {"done", "crashed"}
Pcs == Claimed \cup Stopped \cup
    {"new", "claim", "replay", "recover", "document", "record", "health", "credit",
     "creditReplay", "markFailed", "blame"}

\* The listing is the provider's id for the draft, and 0 for none.
Key == [status : KeyStatuses, payload : Nat, result : Nat]
Attempt == [status : AttemptStatuses, listing : Nat, keyed : BOOLEAN]
Approval == [state : ApprovalStates, attempt : Nat, decided : BOOLEAN,
             result : {"NONE", "SUCCESS", "FAILURE"}]
Call == [pc : Pcs, op : Ops, attempt : Nat, prepared : Nat, approval : Nat, listing : Nat,
         outcome : {"FAILED", "BLOCKED"}]

VARIABLES
    keys,        \* idempotency_keys by operation
    attempts,    \* publication_attempts in the order of attemptedAt
    approvals,   \* approval requests of kind PUBLICATION
    calls,
    writes,      \* external: how often the provider accepted each operation
    publisher    \* the attempt whose call the provider accepted as the publication

vars == <<keys, attempts, approvals, calls, writes, publisher>>

NoKey == [status |-> "NONE", payload |-> 0, result |-> 0]
NewCall == [pc |-> "new", op |-> Draft, attempt |-> 0, prepared |-> 0, approval |-> 0,
            listing |-> 0, outcome |-> "FAILED"]
Row(status) == [status |-> status, listing |-> 0, keyed |-> FALSE]

-----------------------------------------------------------------------------

AtPc(c, pc) == calls[c].pc = pc
Goto(c, pc) == calls' = [calls EXCEPT ![c].pc = pc]
Publishes(c) == calls[c].op = Publish
KeyOf(c) == keys[calls[c].op]

\* Attempts that checkFailClosed counts against the daily limit
Counted == {i \in 1..Len(attempts) :
    attempts[i].status \in {"RESERVED", "READY_FOR_PUBLISH", "PUBLISHED"}}

\* mutant: the limit is compared as if the new attempt were not counted.
HasCapacityForOneMore == Cardinality(Counted) <= RateLimit

HasCapacity == Cardinality(Counted) < RateLimit

\* What the key is bound to: the listing it writes to, and nothing for the draft
Payload(c) == IF calls[c].op = Draft THEN 0 ELSE calls[c].listing

\* After an operation of a preparation: the next one, or the end.
NextOp(c) == IF calls[c].op < Uploads
             THEN [calls[c] EXCEPT !.op = @ + 1, !.pc = "claim"]
             ELSE [calls[c] EXCEPT !.pc = "record"]

-----------------------------------------------------------------------------
(* The two entry points *)

\* The approval of the product listing, the kill switch and the rate limit are
\* checked, for now without the lock; a refusal leaves a row.
prepareListingForPublication(c) ==
    /\ AtPc(c, "new")
    /\ \/ HasCapacity /\ Goto(c, "reserve") /\ UNCHANGED attempts
       \/ Goto(c, "done") /\ attempts' = Append(attempts, Row("BLOCKED"))
    /\ UNCHANGED <<keys, approvals, writes, publisher>>

ReadyAttempts == {i \in 1..Len(attempts) : attempts[i].status = "READY_FOR_PUBLISH"}
LatestReady == {i \in ReadyAttempts : \A j \in ReadyAttempts : j <= i}

\* The latest prepared attempt, an approval that is approved and valid, and an
\* account that is not disabled, which leaves a row.
publishListing(c, a) ==
    /\ AtPc(c, "new")
    /\ a \in 1..Len(approvals)
    /\ approvals[a].state = "APPROVED"
    /\ \E i \in LatestReady :
         \/ /\ calls' = [calls EXCEPT ![c] =
                 [@ EXCEPT !.pc = "claim", !.op = Publish, !.prepared = i,
                           !.approval = a, !.listing = attempts[i].listing]]
            /\ UNCHANGED attempts
         \/ Goto(c, "done") /\ attempts' = Append(attempts, Row("BLOCKED"))
    /\ UNCHANGED <<keys, approvals, writes, publisher>>

\* reservePublicationAttempt, under the lock of the account row: at the start
\* of a preparation, and as beforeExecute of a publication.  It blocks when the
\* account is disabled or at its limit, and throws when the account is gone.
reservePublicationAttempt(c) ==
    /\ AtPc(c, "reserve")
    /\ \/ /\ HasCapacity
          /\ attempts' = Append(attempts, [Row("RESERVED") EXCEPT !.keyed = Publishes(c)])
          /\ calls' = [calls EXCEPT ![c] =
               [@ EXCEPT !.attempt = Len(attempts) + 1,
                         !.pc = IF Publishes(c) THEN "check" ELSE "claim"]]
       \/ /\ attempts' = Append(attempts, [Row("BLOCKED") EXCEPT !.keyed = Publishes(c)])
          /\ Goto(c, IF Publishes(c) THEN "failKey" ELSE "done")
       \/ Goto(c, IF Publishes(c) THEN "failKey" ELSE "done") /\ UNCHANGED attempts
    /\ UNCHANGED <<keys, approvals, writes, publisher>>

-----------------------------------------------------------------------------
(* withIdempotency *)

\* assertPublishDispatchState.  The policies, the account and the listing may
\* refuse as well, as they may for a draft.
MayDispatch(c) == Publishes(c) =>
    /\ attempts[calls[c].prepared].status = "READY_FOR_PUBLISH"
    /\ approvals[calls[c].approval].state = "APPROVED"
    /\ approvals[calls[c].approval].attempt = calls[c].prepared

\* mutant: an operation that is in flight is taken over.
MayClaimPending(k, payload) ==
    \/ k.status = "NONE"
    \/ k.status \in {"FAILED", "PENDING"} /\ k.payload = payload

\* A key is claimed when it is new, or has failed for the same request.  The
\* unique index and the conditional update make the read before it harmless.
MayClaim(k, payload) ==
    \/ k.status = "NONE"
    \/ k.status = "FAILED" /\ k.payload = payload

claimKey(c) ==
    /\ AtPc(c, "claim")
    /\ MayClaim(KeyOf(c), Payload(c))
    /\ keys' = [keys EXCEPT ![calls[c].op] =
         [@ EXCEPT !.status = "PENDING", !.payload = Payload(c)]]
    /\ Goto(c, IF Publishes(c) THEN "reserve" ELSE "check")
    /\ UNCHANGED <<attempts, approvals, writes, publisher>>

\* A cached success, once beforeReplay has accepted the current state.
replayKey(c) ==
    /\ AtPc(c, "claim")
    /\ KeyOf(c).status = "SUCCEEDED"
    /\ KeyOf(c).payload = Payload(c)
    /\ MayDispatch(c)
    /\ IF Publishes(c)
       THEN Goto(c, "replay")
       ELSE calls' = [calls EXCEPT ![c] =
              [NextOp(c) EXCEPT !.listing =
                 IF calls[c].op = Draft THEN KeyOf(c).result ELSE calls[c].listing]]
    /\ UNCHANGED <<keys, attempts, approvals, writes, publisher>>

\* In flight, bound to another request, or beforeReplay refuses.
refuseKey(c) ==
    /\ AtPc(c, "claim")
    /\ KeyOf(c).status \in {"PENDING", "SUCCEEDED"} \/ KeyOf(c).payload # Payload(c)
    /\ KeyOf(c).status # "NONE"
    /\ \E outcome \in {"FAILED", "BLOCKED"} :
        /\ outcome = "BLOCKED" => KeyOf(c).status = "SUCCEEDED"
        /\ calls' = [calls EXCEPT ![c] =
             [@ EXCEPT !.pc = IF Publishes(c) THEN "done" ELSE "markFailed",
                       !.outcome = outcome]]
    /\ UNCHANGED <<keys, attempts, approvals, writes, publisher>>

\* mutant: the state is not looked at again before the dispatch.
checkNothing(c) ==
    /\ AtPc(c, "check")
    /\ Goto(c, "dispatch")
    /\ UNCHANGED <<keys, attempts, approvals, writes, publisher>>

\* dispatchWithWorkspaceCapability up to the dispatch
checkDispatch(c) ==
    /\ AtPc(c, "check")
    /\ \/ MayDispatch(c) /\ Goto(c, "dispatch")
       \/ \E outcome \in {"FAILED", "BLOCKED"} :
            calls' = [calls EXCEPT ![c] = [@ EXCEPT !.pc = "failKey", !.outcome = outcome]]
    /\ UNCHANGED <<keys, attempts, approvals, writes, publisher>>

\* The provider accepts the write.
providerAccepts(c) ==
    LET op == calls[c].op IN
    /\ AtPc(c, "dispatch")
    /\ writes' = [writes EXCEPT ![op] = @ + 1]
    /\ publisher' = IF Publishes(c) THEN calls[c].attempt ELSE publisher
    /\ calls' = [calls EXCEPT ![c] =
         [@ EXCEPT !.pc = "cache",
                   !.listing = IF op = Draft THEN writes[op] + 1 ELSE calls[c].listing]]
    /\ UNCHANGED <<keys, attempts, approvals>>

\* The provider refuses it, and nothing is written: the only client, the mock, throws
\* before it has made anything.  A client that may fail after the provider accepted
\* needs the provider's own idempotency, which idempotency.ts:26-30 asks for.
providerRefuses(c) ==
    /\ AtPc(c, "dispatch")
    /\ calls' = [calls EXCEPT ![c] = [@ EXCEPT !.pc = "failKey", !.outcome = "FAILED"]]
    /\ UNCHANGED <<keys, attempts, approvals, writes, publisher>>

cacheSuccess(c) ==
    /\ AtPc(c, "cache")
    /\ keys' = [keys EXCEPT ![calls[c].op] =
         [@ EXCEPT !.status = "SUCCEEDED", !.result = calls[c].listing]]
    /\ calls' = [calls EXCEPT ![c] =
         IF Publishes(c) THEN [@ EXCEPT !.pc = "record"] ELSE NextOp(c)]
    /\ UNCHANGED <<attempts, approvals, writes, publisher>>

failKey(c) ==
    /\ AtPc(c, "failKey")
    /\ keys' = [keys EXCEPT ![calls[c].op].status = "FAILED"]
    /\ Goto(c, IF calls[c].attempt = 0 THEN "done" ELSE "markFailed")
    /\ UNCHANGED <<attempts, approvals, writes, publisher>>

\* The claim, the caching or the failing of a key throws.  A claimed key stays
\* PENDING, and the caller does not record a failure once the provider has
\* accepted the publication.
keyWriteThrows(c) ==
    /\ calls[c].pc \in {"claim", "cache", "failKey"}
    /\ calls' = [calls EXCEPT ![c] =
         [@ EXCEPT !.pc = IF calls[c].attempt = 0 \/ (Publishes(c) /\ AtPc(c, "cache"))
                          THEN "done" ELSE "markFailed",
                   !.outcome = "FAILED"]]
    /\ UNCHANGED <<keys, attempts, approvals, writes, publisher>>

-----------------------------------------------------------------------------
(* What the two functions record *)

\* mutant: the attempt that was blocked by a policy is left as it is.
markFailedUnlessBlocked(c) ==
    /\ AtPc(c, "markFailed")
    /\ attempts' = IF calls[c].outcome = "FAILED"
                   THEN [attempts EXCEPT ![calls[c].attempt].status = "FAILED"] ELSE attempts
    /\ Goto(c, IF Publishes(c) /\ calls[c].outcome = "FAILED" THEN "blame" ELSE "done")
    /\ UNCHANGED <<keys, approvals, writes, publisher>>

\* The reserved attempt is FAILED, or BLOCKED_POLICY when a policy denied it.
markFailed(c) ==
    /\ AtPc(c, "markFailed")
    /\ attempts' = [attempts EXCEPT ![calls[c].attempt].status = calls[c].outcome]
    /\ Goto(c, IF Publishes(c) /\ calls[c].outcome = "FAILED" THEN "blame" ELSE "done")
    /\ UNCHANGED <<keys, approvals, writes, publisher>>

\* executionSuccess: false
blameApproval(c) ==
    /\ AtPc(c, "blame")
    /\ approvals' = [approvals EXCEPT ![calls[c].approval].result = "FAILURE"]
    /\ Goto(c, "done")
    /\ UNCHANGED <<keys, attempts, writes, publisher>>

recordPrepared(c) ==
    /\ AtPc(c, "record")
    /\ ~Publishes(c)
    /\ attempts' = [attempts EXCEPT ![calls[c].attempt] =
         [@ EXCEPT !.status = "READY_FOR_PUBLISH", !.listing = calls[c].listing]]
    /\ Goto(c, "health")
    /\ UNCHANGED <<keys, approvals, writes, publisher>>

\* A preparation writes the health of the marketplace last.  If that throws,
\* the attempt is FAILED after all, although others may have read it meanwhile.
writeMarketplaceHealth(c) ==
    /\ AtPc(c, "health")
    /\ \/ Goto(c, "done")
       \/ calls' = [calls EXCEPT ![c] = [@ EXCEPT !.pc = "markFailed", !.outcome = "FAILED"]]
    /\ UNCHANGED <<keys, attempts, approvals, writes, publisher>>

\* A conditional update that throws when the attempt is not RESERVED any more:
\* of the call's own attempt, or of the one that a replay has found.
recordPublished(c) ==
    /\ Publishes(c)
    /\ calls[c].pc \in {"record", "recover"}
    /\ IF attempts[calls[c].attempt].status = "RESERVED"
       THEN /\ attempts' = [attempts EXCEPT ![calls[c].attempt] =
                 [@ EXCEPT !.status = "PUBLISHED", !.listing = calls[c].listing]]
            /\ Goto(c, IF AtPc(c, "record") THEN "credit" ELSE "creditReplay")
       ELSE Goto(c, "done") /\ UNCHANGED attempts
    /\ UNCHANGED <<keys, approvals, writes, publisher>>

\* executionSuccess: true.  A replay goes on to document itself.
creditApproval(c) ==
    /\ calls[c].pc \in {"credit", "creditReplay"}
    /\ approvals' = [approvals EXCEPT ![calls[c].approval].result = "SUCCESS"]
    /\ Goto(c, IF AtPc(c, "credit") THEN "done" ELSE "document")
    /\ UNCHANGED <<keys, attempts, writes, publisher>>

KeyedAttempts(status) == {i \in 1..Len(attempts) :
    attempts[i].keyed /\ attempts[i].status = status}

\* The replay of a publication looks for its PUBLISHED attempt, and failing
\* that for a RESERVED one to complete; the query has no order.
replayPublication(c) ==
    /\ AtPc(c, "replay")
    /\ \/ KeyedAttempts("PUBLISHED") # {} /\ Goto(c, "document")
       \/ /\ KeyedAttempts("PUBLISHED") = {}
          /\ \E i \in KeyedAttempts("RESERVED") :
               calls' = [calls EXCEPT ![c] = [@ EXCEPT !.attempt = i, !.pc = "recover"]]
       \/ /\ KeyedAttempts("PUBLISHED") \cup KeyedAttempts("RESERVED") = {}
          /\ Goto(c, "done")
    /\ UNCHANGED <<keys, attempts, approvals, writes, publisher>>

\* The row that documents the replay
documentReplay(c) ==
    /\ AtPc(c, "document")
    /\ attempts' = Append(attempts, [status |-> "IDEMPOTENT_REPLAY",
                                     listing |-> KeyOf(c).result, keyed |-> TRUE])
    /\ Goto(c, "done")
    /\ UNCHANGED <<keys, approvals, writes, publisher>>

-----------------------------------------------------------------------------
(* Approvals, crashes *)

\* The request names the attempt that was the latest prepared one when it was
\* read: any attempt that was ever prepared, which its listing tells.  The check
\* for a request that is pending is a read as well, so that two of them may be.
requestPublicationApproval(i) ==
    /\ Len(approvals) < MaxApprovals
    /\ ~attempts[i].keyed /\ attempts[i].listing # 0
    /\ approvals' = Append(approvals,
         [state |-> "PENDING", attempt |-> i, decided |-> FALSE, result |-> "NONE"])
    /\ UNCHANGED <<keys, attempts, calls, writes, publisher>>

SetApproval(a, from, to) ==
    /\ a \in 1..Len(approvals)
    /\ approvals[a].state \in from
    /\ approvals' = [approvals EXCEPT ![a] =
         [@ EXCEPT !.state = to, !.decided = approvals[a].decided \/ to = "APPROVED"]]
    /\ UNCHANGED <<keys, attempts, calls, writes, publisher>>

decideApprovalRequest(a) ==
    \/ \E to \in {"APPROVED", "REJECTED"} : SetApproval(a, {"PENDING"}, to)
    \/ SetApproval(a, {"APPROVED"}, "REVOKED")

\* Whoever finds an approval past its time, or the listing changed since, says
\* so unconditionally, whatever was decided since the approval was read.
expireApproval(a) == SetApproval(a, ApprovalStates \ {"EXPIRED"}, "EXPIRED")

\* The process dies, or its database connection.
crash(c) ==
    /\ calls[c].pc \notin Stopped \cup {"new"}
    /\ Goto(c, "crashed")
    /\ UNCHANGED <<keys, attempts, approvals, writes, publisher>>

-----------------------------------------------------------------------------

Init ==
    /\ keys = [op \in Ops |-> NoKey]
    /\ attempts = <<>>
    /\ approvals = <<>>
    /\ calls = [c \in Calls |-> NewCall]
    /\ writes = [op \in Ops |-> 0]
    /\ publisher = 0

\* A call that has begun runs to its end.
Continue(c) ==
    \/ reservePublicationAttempt(c)
    \/ claimKey(c)
    \/ replayKey(c)
    \/ refuseKey(c)
    \/ keyWriteThrows(c)
    \/ checkDispatch(c)
    \/ providerAccepts(c)
    \/ providerRefuses(c)
    \/ cacheSuccess(c)
    \/ failKey(c)
    \/ markFailed(c)
    \/ blameApproval(c)
    \/ recordPrepared(c)
    \/ writeMarketplaceHealth(c)
    \/ recordPublished(c)
    \/ creditApproval(c)
    \/ replayPublication(c)
    \/ documentReplay(c)

Next ==
    \/ \E c \in Calls :
         \/ prepareListingForPublication(c)
         \/ \E a \in 1..MaxApprovals : publishListing(c, a)
         \/ Continue(c)
         \/ crash(c)
    \/ \E i \in 1..Len(attempts) : requestPublicationApproval(i)
    \/ \E a \in 1..MaxApprovals : decideApprovalRequest(a) \/ expireApproval(a)

Spec == Init /\ [][Next]_vars

-----------------------------------------------------------------------------

\* Keys, attempts, approvals and calls have the types of their tables, and a
\* call refers to an approval and to attempts that exist.
TypeOK ==
    /\ keys \in [Ops -> Key]
    /\ attempts \in Seq(Attempt)
    /\ approvals \in Seq(Approval)
    /\ calls \in [Calls -> Call]
    /\ \A c \in Calls :
         /\ calls[c].attempt \in 0..Len(attempts)
         /\ calls[c].prepared \in 0..Len(attempts)
         /\ calls[c].approval \in 0..Len(approvals)
    /\ writes \in [Ops -> Nat]
    /\ publisher \in 0..Len(attempts)

\* The provider accepts each operation at most once, however calls overlap,
\* retry, crash and lose the result: withIdempotency never offers an operation
\* again that was accepted.
WriteAtMostOnce == \A op \in Ops : writes[op] <= 1

\* Attempts that are reserved, prepared or published are never more than the
\* account may make in a day, although the limit is also read without the lock.
RateLimitHolds == Cardinality(Counted) <= RateLimit

\* An attempt says READY_FOR_PUBLISH only when the provider has accepted the
\* draft and every upload, and PUBLISHED only when it has accepted the
\* publication, and both only for the listing of the cached draft.
RecordsAreBacked == \A i \in 1..Len(attempts) :
    /\ attempts[i].status = "READY_FOR_PUBLISH" =>
         /\ \A op \in 0..Uploads : keys[op].status = "SUCCEEDED" /\ writes[op] = 1
         /\ attempts[i].listing = keys[Draft].result
    /\ attempts[i].status = "PUBLISHED" =>
         /\ keys[Publish].status = "SUCCEEDED" /\ writes[Publish] = 1
         /\ attempts[i].listing = keys[Draft].result

\* A call whose publication the provider has accepted holds an approval that
\* the founder gave for exactly the prepared attempt that it publishes.
PublicationWasApproved == \A c \in Calls :
    Publishes(c) /\ calls[c].pc \in {"cache", "record", "credit"} =>
        /\ approvals[calls[c].approval].decided
        /\ approvals[calls[c].approval].attempt = calls[c].prepared

HoldsReservation(c) ==
    calls[c].attempt # 0 /\ attempts[calls[c].attempt].status = "RESERVED"

\* A reservation does not stay: a call that holds a RESERVED attempt sees it
\* prepared, published, failed or blocked, so that what failed does not use up
\* the day's limit; unless its process dies, or the result of an accepted
\* publication could not be cached and its key is left PENDING on purpose.
ReservationResolves == \A c \in Calls :
    HoldsReservation(c) ~>
        (\/ ~HoldsReservation(c)
         \/ AtPc(c, "crashed")
         \/ Publishes(c) /\ writes[Publish] = 1 /\ keys[Publish].status = "PENDING")

\* docs/SECURITY.md: the recovery of an interrupted success completes the very
\* row whose call the provider accepted.
RecoveryIsExact == \A i \in 1..Len(attempts) :
    attempts[i].status = "PUBLISHED" => i = publisher

=============================================================================
