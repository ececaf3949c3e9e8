------------------------------ MODULE MCBridge ------------------------------
(***************************************************************************)
(* The frames of a runtime and the outbox of the other direction, side by  *)
(* side: the initial state chooses a part, and only that part takes steps. *)
(* "session" is BridgeSession with the batches that a runtime sends, alone *)
(* or several frames at a time; "frames" numbers two dispatches in one     *)
(* outbox, and "claims" lets two owners race for the frame of one.         *)
(*                                                                         *)
(* The sessions of people are beside them, as three parts of Membership.   *)
(* In "leave" two accounts have workspaces of their own, and one joins the *)
(* other's and is removed while sessions are opened and switched; in       *)
(* "join" two invitations lead to the last place of a workspace; in        *)
(* "expire" an invitation and a session expire.                            *)
(***************************************************************************)
EXTENDS DispatchOutbox, Membership, TLC

\* x1 and x2, and y1 and y2, are interchangeable in every part.
CONSTANTS one, x1, x2, y1, y2

VARIABLES part,
          connections, bridgeSessions, dispatches, receipts, usages, runs, evidence

sessionVars == <<connections, bridgeSessions, dispatches, receipts, usages, runs, evidence>>
outboxRest == <<durable, tx, writes, lines, reports>>
peopleRest == <<accounts, workspaces, members, invitations, sessions, calls>>
all == <<part, now, sessionVars, outboxRest, peopleRest>>

Of(type) == [type |-> type, run |-> one]
Usage(cost) == [type |-> "USAGE", run |-> one, cost |-> cost]
Capabilities == [type |-> "CAPABILITIES"]
Heartbeat(health, age) == [type |-> "HEARTBEAT", health |-> health, age |-> age]

Batches ==
    {<<Capabilities>>, <<Capabilities, Heartbeat("HEALTHY", 0)>>, <<Capabilities, Capabilities>>,
     <<Heartbeat("HEALTHY", 1)>>, <<Heartbeat("DEGRADED", 0)>>,
     <<Of("DISPATCH_ACCEPTED")>>, <<Of("DISPATCH_ACCEPTED"), Heartbeat("DEGRADED", 0)>>,
     <<Of("PROGRESS")>>, <<Usage(2)>>, <<Usage(1), Of("RESULT")>>,
     <<Of("FAILED"), Of("ARTIFACT")>>, <<Of("ARTIFACT"), Of("FAILED")>>, <<Of("CANCELLED")>>}

Session == INSTANCE BridgeSession
    WITH sessions <- bridgeSessions, Connections <- {one}, Sessions <- {x1, x2}, Runs <- {one}, MaximumCost <- 3,
         SessionLifetime <- 2, HeartbeatFreshness <- 1, MaxTime <- 2, MaxSequence <- 6

Frames == INSTANCE DispatchOutbox
    WITH Dispatches <- {x1, x2}, Attempts <- {y1, y2}, Owners <- {one}, OutboxTTL <- 1

ASSUME Session!BoundAssumption /\ Frames!TimeAssumption /\ TimeAssumption

\* The values of the cfg are those of all three parts.
Leave == INSTANCE Membership
    WITH Emails <- {"f", "g"}, Registrants <- {"f", "g"}, Upgraded <- {"f"}, Invitations <- {1},
         Plans <- {2}, Horizon <- 0

Join == INSTANCE Membership
    WITH Registrants <- {"f"}, Upgraded <- {"f"}, Sessions <- {y1}, Plans <- {2}, Horizon <- 0

Expire == INSTANCE Membership
    WITH Emails <- {"f", "g"}, Registrants <- {"f", "g"}, Upgraded <- {"f"}, Invitations <- {1},
         Sessions <- {y1}, Horizon <- 1

ASSUME Leave!MembersAssumption /\ Join!MembersAssumption /\ Expire!MembersAssumption

NoSession ==
    /\ connections = None /\ bridgeSessions = None /\ dispatches = None /\ receipts = None
    /\ usages = None /\ runs = None /\ evidence = None

Init ==
    /\ MembersInit
    /\ \/ part = "session" /\ Session!Init /\ OutboxInit
       \/ part = "frames" /\ Frames!OutboxInit /\ NoSession
       \/ part \in {"claims", "leave", "join", "expire"} /\ OutboxInit /\ NoSession

Next ==
    \/ part = "session" /\ Session!Next /\ UNCHANGED <<part, outboxRest, peopleRest>>
    \/ part = "frames" /\ Frames!OutboxNext /\ UNCHANGED <<part, sessionVars, peopleRest>>
    \/ part = "claims" /\ OutboxNext /\ UNCHANGED <<part, sessionVars, peopleRest>>
    \/ part = "leave" /\ Leave!MembersNext /\ UNCHANGED <<part, sessionVars, outboxRest>>
    \/ part = "join" /\ Join!MembersNext /\ UNCHANGED <<part, sessionVars, outboxRest>>
    \/ part = "expire" /\ Expire!MembersNext /\ UNCHANGED <<part, sessionVars, outboxRest>>

Spec == Init /\ [][Next]_all

\* The receipts of a session are its frames without a gap or a replay, and tell
\* the state of its dispatch: work is admitted between the acceptance and the one
\* end of a dispatch, in the session it is bound to (acceptRuntimeEnvelopes). The
\* stored running total of a run's usage is the sum of its usage frames and stays
\* within the maximum of its task (recordUsage).
ReceiptsTellTheStory == part = "session" =>
    /\ Session!TypeOK
    /\ Session!ReceiptsAreGapless
    /\ Session!WorkIsBetweenAcceptanceAndEnd
    /\ Session!DispatchStateMatchesReceipts
    /\ Session!UsageAddsUp

\* A dispatch is accepted on health that is fresh when the transaction commits,
\* after the locks it waited for; once its cancellation is requested it takes
\* nothing but the confirmation, and an ended dispatch never changes
\* (applyMessage).
CancellationWins ==
    [][part = "session" => Session!AcceptsOnFreshHealth /\ Session!CancellationComesFirst]_all

Symmetry == Permutations({x1, x2}) \cup Permutations({y1, y2})
=============================================================================
