----------------------------- MODULE Membership -----------------------------
(***************************************************************************)
(* Accounts, workspaces, invitations and sessions (WorkspacesService,      *)
(* AuthService, SessionAuthGuard, startTrialSubscription, changePlan).     *)
(*                                                                         *)
(* A request is checked by the guard, then its transaction takes advisory  *)
(* locks (of an account, then of a workspace), reads what it depends on,   *)
(* and commits.  Other requests commit between any two of these steps.     *)
(* Sign-in and registration take no locks.                                 *)
(*                                                                         *)
(* An account registers one workspace at most, so a workspace is named by  *)
(* the address that registered it.  A membership is known by the           *)
(* invitation it came from.  revokedAt of an invitation and deletedAt of   *)
(* accounts and workspaces are never set.  Passwords, abuse limits and     *)
(* permission keys only decide whether a request begins; slugs only        *)
(* whether a registration, retried with other slugs, succeeds.             *)
(***************************************************************************)
EXTENDS Naturals, Sequences, FiniteSets, Clock

CONSTANTS
    Emails,        \* addresses
    Registrants,   \* those that may be used to register
    Upgraded,      \* workspaces whose founders change the plan
    Invitations, Sessions, Calls,
    Roles,         \* collaboration roles
    Plans,         \* members that each plan allows
    Trial,         \* members that the trial plan allows
    Lifetime       \* of sessions and of invitations

\* The rows of the tables; an absent one is None.  admitted counts who came in
\* under an invitation, chosen tells a session its user moved from one that
\* sign-in placed.
WorkspaceRow == [mode : {"SINGLE_FOUNDER", "COLLABORATIVE"}, plan : Plans \cup {Trial}]
MemberRow == [workspace : Emails, user : Emails, role : Roles \cup {"FOUNDER"}, via : Invitations \cup {None}]
InvitationRow ==
    [workspace : Emails, role : Roles, expiresAt : Nat, acceptedBy : Emails \cup {None},
     claimPending : BOOLEAN, admitted : Nat]
SessionRow == [user : Emails, workspace : Emails, expiresAt : Nat, revoked : BOOLEAN, chosen : BOOLEAN]

\* The collaboration roles are those other than the founder's, and the trial is
\* for somebody and not above every plan.
ASSUME MembersAssumption ==
    /\ Registrants \subseteq Emails /\ Upgraded \subseteq Emails
    /\ None \notin Emails /\ None \notin Invitations
    /\ None \notin WorkspaceRow /\ None \notin InvitationRow /\ None \notin SessionRow
    /\ "FOUNDER" \notin Roles
    /\ Plans \subseteq Nat /\ Trial \in Nat \ {0} /\ Lifetime \in Nat
    /\ \E plan \in Plans : Trial <= plan

VARIABLES
    accounts,      \* addresses that have an account
    workspaces,    \* per address that registered
    members,       \* memberships, by createdAt
    invitations, sessions,
    calls          \* requests under way

memberVars == <<now, accounts, workspaces, members, invitations, sessions, calls>>

\* A request: who makes it, in which session, about which workspace, invitation or
\* member; the keys it locks in turn, and how many it has; what its reads found.
Request(op, user, session, target, keys) ==
    [op |-> op, user |-> user, session |-> session, target |-> target, keys |-> keys, locks |-> 0,
     read |-> FALSE, found |-> {}, again |-> FALSE]

Idle == Request("idle", None, None, None, <<>>)

MembersInit ==
    /\ now = 0 /\ accounts = {} /\ members = <<>>
    /\ workspaces = [e \in Emails |-> None]
    /\ invitations = [i \in Invitations |-> None]
    /\ sessions = [s \in Sessions |-> None]
    /\ calls = [k \in Calls |-> Idle]

----------------------------------------------------------------------------

belongs(u, w) == \E n \in DOMAIN members : members[n].user = u /\ members[n].workspace = w

isFounder(u, w) ==
    \E n \in DOMAIN members : members[n].user = u /\ members[n].workspace = w /\ members[n].role = "FOUNDER"

liveSession(s) == sessions[s] # None /\ ~sessions[s].revoked /\ now < sessions[s].expiresAt

\* The guard's query: the session joined with the membership of its workspace.
canActivate(s) == liveSession(s) /\ belongs(sessions[s].user, sessions[s].workspace)

headcount(w) == Cardinality({n \in DOMAIN members : members[n].workspace = w})

hasCapacity(w) == headcount(w) < workspaces[w].plan

assertInvitationActive(i) ==
    invitations[i] # None /\ invitations[i].acceptedBy = None /\ now < invitations[i].expiresAt

claimableByActor(i, u) ==
    /\ invitations[i] # None /\ now < invitations[i].expiresAt
    /\ invitations[i].acceptedBy # None => invitations[i].claimPending /\ invitations[i].acceptedBy = u

Account(u) == <<"account", u>>

Invitee(e) == <<"invitee", e>>

Workspace(w) == <<"workspace", w>>

\* The locks of a request, and a request that waits for one of another's.
held(c) == {c.keys[n] : n \in 1 .. c.locks}

waitsFor(k, j) == k # j /\ calls[k].locks < Len(calls[k].keys) /\ calls[k].keys[calls[k].locks + 1] \in held(calls[j])

Begin(k, call) == calls[k] = Idle /\ calls' = [calls EXCEPT ![k] = call]

Finish(k) == calls' = [calls EXCEPT ![k] = Idle]

\* The transaction holds its locks and has read nothing yet.
Ready(k, op) == calls[k].op = op /\ calls[k].locks = Len(calls[k].keys) /\ ~calls[k].read

Read(k, facts) == calls' = [calls EXCEPT ![k].read = TRUE, ![k].found = facts]

\* pg_advisory_xact_lock, held until the transaction ends.
lockTransactionKey(k) ==
    /\ calls[k].locks < Len(calls[k].keys) /\ ~\E j \in Calls : waitsFor(k, j)
    /\ calls' = [calls EXCEPT ![k].locks = @ + 1]
    /\ UNCHANGED <<now, accounts, workspaces, members, invitations, sessions>>

----------------------------------------------------------------------------
\* Registration, sign-in and the plan.

startTrialSubscription == Trial

createRegistration(e) ==
    /\ accounts' = accounts \cup {e}
    /\ workspaces' = [workspaces EXCEPT ![e] = [mode |-> "SINGLE_FOUNDER", plan |-> startTrialSubscription]]
    /\ members' = Append(members, [workspace |-> e, user |-> e, role |-> "FOUNDER", via |-> None])

\* An address with an account is answered in the same way; its unique
\* constraint makes a registration that raced another one end like this too.
register(e) ==
    /\ e \notin accounts /\ createRegistration(e)
    /\ UNCHANGED <<now, invitations, sessions, calls>>

\* The password is right: the first membership is read outside a transaction.
login(k, e) ==
    /\ e \in accounts
    /\ \E n \in DOMAIN members :
          /\ members[n].user = e /\ \A i \in 1 .. n - 1 : members[i].user # e
          /\ Begin(k, Request("login", e, None, members[n].workspace, <<>>))
    /\ UNCHANGED <<now, accounts, workspaces, members, invitations, sessions>>

createSession(k, s) ==
    /\ calls[k].op = "login" /\ sessions[s] = None
    /\ sessions' = [sessions EXCEPT ![s] =
           [user |-> calls[k].user, workspace |-> calls[k].target, expiresAt |-> now + Lifetime,
            revoked |-> FALSE, chosen |-> FALSE]]
    /\ Finish(k)
    /\ UNCHANGED <<now, accounts, workspaces, members, invitations>>

logout(s) ==
    /\ sessions[s] # None /\ ~sessions[s].revoked
    /\ sessions' = [sessions EXCEPT ![s].revoked = TRUE]
    /\ UNCHANGED <<now, accounts, workspaces, members, invitations, calls>>

\* Takes no lock, and leaves members above the new limit alone.
changePlan(w, plan) ==
    /\ workspaces[w] # None /\ workspaces[w].plan # plan
    /\ workspaces' = [workspaces EXCEPT ![w].plan = plan]
    /\ UNCHANGED <<now, accounts, members, invitations, sessions, calls>>

----------------------------------------------------------------------------
\* The active workspace of a session.

\* mutant: the account is not locked.
switchUnlocked(u) == <<>>

switchKeys(u) == <<Account(u)>>

switchWorkspace(k, s, w) ==
    /\ canActivate(s) /\ workspaces[w] # None
    /\ Begin(k, Request("switch", sessions[s].user, s, w, switchKeys(sessions[s].user)))
    /\ UNCHANGED <<now, accounts, workspaces, members, invitations, sessions>>

readSwitch(k) ==
    /\ Ready(k, "switch")
    /\ IF liveSession(calls[k].session) /\ belongs(calls[k].user, calls[k].target)
       THEN Read(k, {"member"}) ELSE Finish(k)
    /\ UNCHANGED <<now, accounts, workspaces, members, invitations, sessions>>

enter(s, w) == [sessions EXCEPT ![s].workspace = w, ![s].chosen = TRUE]

commitSwitch(k) ==
    /\ calls[k].op = "switch" /\ calls[k].read
    /\ sessions' = IF liveSession(calls[k].session)
                   THEN enter(calls[k].session, calls[k].target) ELSE sessions
    /\ Finish(k)
    /\ UNCHANGED <<now, accounts, workspaces, members, invitations>>

----------------------------------------------------------------------------
\* Invitations.

createInvitation(k, s) ==
    /\ canActivate(s)
    /\ Begin(k, Request("invite", sessions[s].user, None, sessions[s].workspace, <<Workspace(sessions[s].workspace)>>))
    /\ UNCHANGED <<now, accounts, workspaces, members, invitations, sessions>>

commitInvitation(k, i, role) ==
    /\ Ready(k, "invite") /\ invitations[i] = None
    /\ invitations' =
           IF isFounder(calls[k].user, calls[k].target) /\ hasCapacity(calls[k].target)
           THEN [invitations EXCEPT ![i] =
                    [workspace |-> calls[k].target, role |-> role, expiresAt |-> now + Lifetime,
                     acceptedBy |-> None, claimPending |-> FALSE, admitted |-> 0]]
           ELSE invitations
    /\ Finish(k)
    /\ UNCHANGED <<now, accounts, workspaces, members, sessions>>

\* The bearer of a token joins, or learns nothing and leaves a claim for the
\* account that has the address.
acceptKeys(i, e) == <<Invitee(e), Workspace(invitations[i].workspace)>>

acceptInvitation(k, i, e) ==
    /\ assertInvitationActive(i)
    /\ Begin(k, Request("accept", e, None, i, acceptKeys(i, e)))
    /\ UNCHANGED <<now, accounts, workspaces, members, invitations, sessions>>

readAcceptance(k) ==
    /\ Ready(k, "accept")
    /\ IF assertInvitationActive(calls[k].target) /\ hasCapacity(invitations[calls[k].target].workspace)
       THEN Read(k, IF calls[k].user \in accounts THEN {"account"} ELSE {}) ELSE Finish(k)
    /\ UNCHANGED <<now, accounts, workspaces, members, invitations, sessions>>

admit(i, u) ==
    Append(members, [workspace |-> invitations[i].workspace, user |-> u, role |-> invitations[i].role, via |-> i])

deferClaim(k, i) ==
    /\ "account" \in calls[k].found
    /\ invitations' = [invitations EXCEPT ![i].acceptedBy = calls[k].user, ![i].claimPending = TRUE]
    /\ Finish(k)
    /\ UNCHANGED <<accounts, workspaces, members>>

joinAnew(k, i) ==
    /\ "account" \notin calls[k].found /\ calls[k].user \notin accounts
    /\ accounts' = accounts \cup {calls[k].user}
    /\ members' = admit(i, calls[k].user)
    /\ invitations' = [invitations EXCEPT ![i].acceptedBy = calls[k].user, ![i].admitted = @ + 1]
    /\ workspaces' = [workspaces EXCEPT ![invitations[i].workspace].mode = "COLLABORATIVE"]
    /\ Finish(k)

\* users.email is taken since it was read: once, the transaction is run again.
retryAcceptance(k) ==
    /\ "account" \notin calls[k].found /\ calls[k].user \in accounts
    /\ calls' = [calls EXCEPT ![k] = IF @.again THEN Idle
                                     ELSE [@ EXCEPT !.again = TRUE, !.read = FALSE, !.found = {}, !.locks = 0]]
    /\ UNCHANGED <<accounts, workspaces, members, invitations>>

commitAcceptance(k) ==
    /\ calls[k].op = "accept" /\ calls[k].read
    /\ LET i == calls[k].target IN
       IF invitations[i].acceptedBy = None
       THEN deferClaim(k, i) \/ joinAnew(k, i) \/ retryAcceptance(k)
       ELSE Finish(k) /\ UNCHANGED <<accounts, workspaces, members, invitations>>
    /\ UNCHANGED <<now, sessions>>

claimKeys(i, u) == <<Account(u), Workspace(invitations[i].workspace)>>

acceptInvitationForAuthenticatedUser(k, s, i) ==
    /\ canActivate(s) /\ claimableByActor(i, sessions[s].user)
    /\ Begin(k, Request("claim", sessions[s].user, s, i, claimKeys(i, sessions[s].user)))
    /\ UNCHANGED <<now, accounts, workspaces, members, invitations, sessions>>

readClaim(k) ==
    /\ Ready(k, "claim")
    /\ LET i == calls[k].target
           member == belongs(calls[k].user, invitations[i].workspace)
       IN IF /\ liveSession(calls[k].session) /\ claimableByActor(i, calls[k].user)
             /\ member \/ hasCapacity(invitations[i].workspace)
          THEN Read(k, (IF member THEN {"member"} ELSE {}) \cup (IF invitations[i].claimPending THEN {"pending"} ELSE {}))
          ELSE Finish(k)
    /\ UNCHANGED <<now, accounts, workspaces, members, invitations, sessions>>

\* The conditional update of the invitation finds the row as it was read.
consumable(k) ==
    LET i == calls[k].target IN
    IF "pending" \in calls[k].found THEN invitations[i].acceptedBy = calls[k].user /\ invitations[i].claimPending
    ELSE invitations[i].acceptedBy = None

\* A membership that exists keeps its role; the invitation is used up.
completeClaim(k, i) ==
    /\ members' = IF "member" \in calls[k].found THEN members ELSE admit(i, calls[k].user)
    /\ invitations' = [invitations EXCEPT ![i].acceptedBy = calls[k].user, ![i].claimPending = FALSE,
                                          ![i].admitted = @ + 1]
    /\ workspaces' = [workspaces EXCEPT ![invitations[i].workspace].mode = "COLLABORATIVE"]
    /\ sessions' = enter(calls[k].session, invitations[i].workspace)

commitClaim(k) ==
    /\ calls[k].op = "claim" /\ calls[k].read
    /\ IF consumable(k) /\ liveSession(calls[k].session)
       THEN completeClaim(k, calls[k].target)
       ELSE UNCHANGED <<members, invitations, workspaces, sessions>>
    /\ Finish(k)
    /\ UNCHANGED <<now, accounts>>

----------------------------------------------------------------------------
\* A founder changes or removes a member.

\* What stays of a row when its role changes: its id.
idOf(m) == [workspace |-> m.workspace, user |-> m.user, via |-> m.via]

memberKeys(m) == <<Account(m.user), Workspace(m.workspace)>>

manageMember(k, op, s, n) ==
    /\ canActivate(s) /\ members[n].workspace = sessions[s].workspace
    /\ Begin(k, Request(op, sessions[s].user, None, idOf(members[n]), memberKeys(members[n])))
    /\ UNCHANGED <<now, accounts, workspaces, members, invitations, sessions>>

\* Where the member's row still is, if the actor may change it.
manageable(k) ==
    {n \in DOMAIN members : /\ idOf(members[n]) = calls[k].target
                            /\ members[n].role # "FOUNDER"
                            /\ isFounder(calls[k].user, members[n].workspace)}

changeMemberRole(k, role) ==
    /\ Ready(k, "changeRole")
    /\ members' = [n \in DOMAIN members |->
                      IF n \in manageable(k) THEN [members[n] EXCEPT !.role = role] ELSE members[n]]
    /\ Finish(k)
    /\ UNCHANGED <<now, accounts, workspaces, invitations, sessions>>

Without(rows, n) == [i \in 1 .. Len(rows) - 1 |-> IF i < n THEN rows[i] ELSE rows[i + 1]]

revokeSessions(u, w) ==
    [s \in DOMAIN sessions |->
        IF sessions[s] # None /\ sessions[s].user = u /\ sessions[s].workspace = w
        THEN [sessions[s] EXCEPT !.revoked = TRUE] ELSE sessions[s]]

removable(k) == {n \in manageable(k) : members[n].user # calls[k].user}

removeMember(k) ==
    /\ Ready(k, "remove")
    /\ IF removable(k) = {}
       THEN UNCHANGED <<members, sessions>>
       ELSE \E n \in removable(k) : /\ members' = Without(members, n)
                                    /\ sessions' = revokeSessions(members[n].user, members[n].workspace)
    /\ Finish(k)
    /\ UNCHANGED <<now, accounts, workspaces, invitations>>

----------------------------------------------------------------------------

TimePasses ==
    /\ now < Horizon /\ now' = now + 1
    /\ UNCHANGED <<accounts, workspaces, members, invitations, sessions, calls>>

RequestStep(k) ==
    \/ lockTransactionKey(k)
    \/ \E e \in Emails : login(k, e)
    \/ \E s \in Sessions : createSession(k, s)
    \/ \E s \in Sessions, w \in Emails : switchWorkspace(k, s, w)
    \/ readSwitch(k) \/ commitSwitch(k)
    \/ \E s \in Sessions : createInvitation(k, s)
    \/ \E i \in Invitations, role \in Roles : commitInvitation(k, i, role)
    \/ \E i \in Invitations, e \in Emails : acceptInvitation(k, i, e)
    \/ readAcceptance(k) \/ commitAcceptance(k)
    \/ \E s \in Sessions, i \in Invitations : acceptInvitationForAuthenticatedUser(k, s, i)
    \/ readClaim(k) \/ commitClaim(k)
    \/ \E op \in {"changeRole", "remove"}, s \in Sessions, n \in DOMAIN members : manageMember(k, op, s, n)
    \/ \E role \in Roles : changeMemberRole(k, role)
    \/ removeMember(k)

MembersNext ==
    \/ TimePasses
    \/ \E e \in Registrants : register(e)
    \/ \E s \in Sessions : logout(s)
    \/ \E w \in Upgraded, plan \in Plans : changePlan(w, plan)
    \/ \E k \in Calls : RequestStep(k)

MembersSpec == MembersInit /\ [][MembersNext]_memberVars

----------------------------------------------------------------------------

\* The tables are typed; of a user and a workspace there is one membership.
MembersTypeOK ==
    /\ now \in Nat /\ accounts \subseteq Emails
    /\ workspaces \in [Emails -> WorkspaceRow \cup {None}]
    /\ invitations \in [Invitations -> InvitationRow \cup {None}]
    /\ sessions \in [Sessions -> SessionRow \cup {None}]
    /\ members \in Seq(MemberRow)
    /\ \A n \in DOMAIN members : members[n].user \in accounts
    /\ \A m, n \in DOMAIN members :
          members[m].user = members[n].user /\ members[m].workspace = members[n].workspace => m = n

\* A live session is in a workspace its user belongs to, unless sign-in itself put
\* it there from a membership it had read before the founder removed it; switching
\* and joining never leave one behind a removal (removeMember, switchWorkspace).
SessionsFollowMembership ==
    \A s \in Sessions :
        liveSession(s) /\ ~belongs(sessions[s].user, sessions[s].workspace) => ~sessions[s].chosen

\* An invitation lets in one account once, the one it is bound to, however its
\* token, a claim and a registration of the same address race (acceptInvitation,
\* acceptInvitationForAuthenticatedUser).
InvitationsAdmitOnce ==
    /\ \A i \in Invitations : invitations[i] # None =>
           /\ invitations[i].admitted <= 1
           /\ invitations[i].admitted = 1 => invitations[i].acceptedBy # None /\ ~invitations[i].claimPending
    /\ \A n \in DOMAIN members : members[n].via # None =>
           /\ invitations[members[n].via].acceptedBy = members[n].user
           /\ invitations[members[n].via].workspace = members[n].workspace

\* Racing acceptances never fill a workspace beyond every plan, and nobody but the
\* account that registered it is ever its founder, or takes its place
\* (assertMemberCapacity, removeMember, changeMemberRole).
WorkspacesStayWhole ==
    \A w \in Emails : workspaces[w] # None =>
        /\ \E plan \in Plans : headcount(w) <= plan
        /\ \A u \in Emails : isFounder(u, w) <=> u = w

\* Two transactions never wait for each other (account before workspace).
LocksAreOrdered == \A k, j \in Calls : waitsFor(k, j) => ~waitsFor(j, k)

\* A session a member has taken into a workspace ends with the membership, an
\* invitation lets in one account once, the last place is given once, the founder
\* stays, and no two transactions wait for each other (switchWorkspace,
\* acceptInvitation, acceptInvitationForAuthenticatedUser, removeMember).
MembershipHolds ==
    /\ MembersTypeOK
    /\ SessionsFollowMembership /\ InvitationsAdmitOnce /\ WorkspacesStayWhole /\ LocksAreOrdered

=============================================================================
