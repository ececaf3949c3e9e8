--------------------------- MODULE BusinessSpending ---------------------------
(***************************************************************************)
(* The business spending account of one workspace (business-spending.ts):  *)
(* funding verified for a while, commitments reserved against it, settled  *)
(* with what was really charged or cancelled, and the founder's switch.    *)
(*                                                                         *)
(* Every operation holds the account's row lock, so it is one action.  A   *)
(* denied call and an exact replay write nothing.  The rows of             *)
(* business_spending_events only repeat the transitions and are left out.  *)
(***************************************************************************)
EXTENDS Naturals, FiniteSetsExt

CONSTANTS
    Commitments,        \* ids of commitments
    Groups,             \* purchase groups: one commercial obligation each
    Cents,              \* amounts that are asked for, and that are charged
    Fundings,           \* verified balances
    SingleLimit,        \* singleCommitmentCents, for all related purchases
    MonthlyLimit,       \* monthlyCents
    MaxTime, MaxMonth,  \* bounds of the clock and of the calendar
    None

ASSUME CentsAssumption == Cents \subseteq Nat /\ Fundings \subseteq Nat /\ None \notin Nat
ASSUME LimitAssumption == {SingleLimit, MonthlyLimit, MaxTime, MaxMonth} \subseteq Nat

AccountStates == {"RUNNING", "PAUSED", "STOPPED"}
Account == [state : AccountStates, funding : Nat, fundingUntil : Nat \cup {None}]
Commitment == [group : Groups, reserved : Nat, actual : Nat \cup {None}, validUntil : Nat,
               state : {"RESERVED", "SETTLED", "CANCELLED"}, settledIn : Nat \cup {None}]

VARIABLES
    now, month,     \* the database clock and its month
    entitled,       \* whether FINANCE_ACCESS is granted by the workspace's licence
    account,        \* business_spending_accounts; funding is net of protected_cents
    commitments     \* business_spending_commitments by id

spendingVars == <<now, month, entitled, account, commitments>>

EmptyMap == [x \in {} |-> x]
Put(map, k, v) == [x \in DOMAIN map \cup {k} |-> IF x = k THEN v ELSE map[x]]

-----------------------------------------------------------------------------

FundingIsFresh == account.fundingUntil # None /\ now < account.fundingUntil

Counts(c) == commitments[c].state # "CANCELLED"
Amount(c) == IF commitments[c].actual = None THEN commitments[c].reserved ELSE commitments[c].actual
Total(S) == MapThenSumSet(Amount, S)

\* totals, monthly: open reservations count in every month, payments in their own.
ThisMonth == {c \in DOMAIN commitments :
    Counts(c) /\ (commitments[c].state = "RESERVED" \/ commitments[c].settledIn = month)}

\* totals, related and lifetime
Related(g) == {c \in DOMAIN commitments : Counts(c) /\ commitments[c].group = g}
Lifetime == {c \in DOMAIN commitments : Counts(c)}

\* mutant: of this month only what was paid is counted, not what is promised
assertPaidSpend(g, cents) ==
    /\ cents > 0
    /\ account.state = "RUNNING"
    /\ FundingIsFresh
    /\ cents + Total(Related(g)) <= SingleLimit
    /\ cents + Total({c \in ThisMonth : commitments[c].actual # None}) <= MonthlyLimit
    /\ cents + Total(Lifetime) <= account.funding

assertBusinessSpend(g, cents) ==
    /\ cents > 0
    /\ account.state = "RUNNING"
    /\ FundingIsFresh
    /\ cents + Total(Related(g)) <= SingleLimit
    /\ cents + Total(ThisMonth) <= MonthlyLimit
    /\ cents + Total(Lifetime) <= account.funding

-----------------------------------------------------------------------------
(* Operations *)

\* Composed in the transaction of its caller.
reserveBusinessExpenseInTransaction(c, g, cents, validUntil) ==
    /\ entitled
    /\ c \notin DOMAIN commitments
    /\ now < validUntil
    /\ assertBusinessSpend(g, cents)
    /\ commitments' = Put(commitments, c,
         [group |-> g, reserved |-> cents, actual |-> None, validUntil |-> validUntil,
          state |-> "RESERVED", settledIn |-> None])
    /\ UNCHANGED <<now, month, entitled, account>>

\* Read without a lock; a reservation alone is no permission to call a provider.
isBusinessReservationExecutable(c, requiresFunds) ==
    /\ entitled
    /\ account.state = "RUNNING"
    /\ \/ ~requiresFunds /\ c \notin DOMAIN commitments
       \/ /\ FundingIsFresh
          /\ c \in DOMAIN commitments
          /\ commitments[c].state = "RESERVED"
          /\ now < commitments[c].validUntil

assertBusinessExecutionInTransaction == entitled /\ account.state = "RUNNING"

cancelBusinessExpense(c) ==
    /\ entitled
    /\ c \in DOMAIN commitments
    /\ commitments[c].state = "RESERVED"
    /\ commitments' = [commitments EXCEPT ![c].state = "CANCELLED"]
    /\ UNCHANGED <<now, month, entitled, account>>

\* An invoice is recorded whatever the state of the account; one above its
\* reservation pauses the account and withdraws its verified funding.
reconcileBusinessExpense(c, actual) ==
    /\ entitled
    /\ c \in DOMAIN commitments
    /\ commitments[c].state = "RESERVED"
    /\ commitments' = [commitments EXCEPT ![c].state = "SETTLED", ![c].actual = actual,
                                          ![c].settledIn = month]
    /\ account' = IF actual > commitments[c].reserved
                    THEN [account EXCEPT !.state = "PAUSED", !.fundingUntil = None]
                    ELSE account
    /\ UNCHANGED <<now, month, entitled>>

\* Called for a verified founder; pausing needs no entitlement.
setBusinessExecutionState(state) ==
    /\ state = "RUNNING" => entitled
    /\ account.state # state
    /\ account' = [account EXCEPT !.state = state]
    /\ UNCHANGED <<now, month, entitled, commitments>>

\* Funding evidence is written by no code of the repository.
fundingVerified(funding, until) ==
    /\ now < until
    /\ account' = [account EXCEPT !.funding = funding, !.fundingUntil = until]
    /\ UNCHANGED <<now, month, entitled, commitments>>

\* changePlan: the other plan has, or lacks, the entitlement to finance.
entitlementChanges ==
    /\ entitled' = ~entitled
    /\ UNCHANGED <<now, month, account, commitments>>

timePasses ==
    /\ now < MaxTime
    /\ now' = now + 1
    /\ month' \in {month, month + 1} \cap 0..MaxMonth
    /\ UNCHANGED <<entitled, account, commitments>>

SpendingInit ==
    /\ now = 0 /\ month = 0
    /\ entitled = TRUE
    /\ account = [state |-> "PAUSED", funding |-> 0, fundingUntil |-> None]
    /\ commitments = EmptyMap

\* What happens to the account whoever reserves on it.
AccountNext ==
    \/ \E c \in Commitments : cancelBusinessExpense(c)
    \/ \E c \in Commitments, cents \in Cents : reconcileBusinessExpense(c, cents)
    \/ \E state \in AccountStates : setBusinessExecutionState(state)
    \/ \E f \in Fundings, until \in 1..(MaxTime + 1) : fundingVerified(f, until)
    \/ entitlementChanges
    \/ timePasses

SpendingNext ==
    \/ \E c \in Commitments, g \in Groups, cents \in Cents, until \in 1..(MaxTime + 1) :
         reserveBusinessExpenseInTransaction(c, g, cents, until)
    \/ AccountNext

SpendingSpec == SpendingInit /\ [][SpendingNext]_spendingVars

-----------------------------------------------------------------------------
(* Properties *)

SpendingTypeOK ==
    /\ now \in 0..MaxTime /\ month \in 0..MaxMonth
    /\ entitled \in BOOLEAN
    /\ account \in Account
    /\ DOMAIN commitments \subseteq Commitments
    /\ \A c \in DOMAIN commitments :
         /\ commitments[c] \in Commitment
         /\ (commitments[c].state = "SETTLED") = (commitments[c].actual # None)

Excess(c) == IF commitments[c].actual # None /\ commitments[c].actual > commitments[c].reserved
               THEN commitments[c].actual - commitments[c].reserved ELSE 0
Excesses(S) == MapThenSumSet(Excess, S)

\* Whatever the order of reservations, charges, cancellations and months, the
\* purchases of one obligation stay within the commitment limit and what is paid
\* and promised in a month within the monthly limit, except for what a provider
\* charged above its reservation (assertBusinessSpend, totals).
LimitsHold ==
    /\ \A g \in Groups : Total(Related(g)) <= SingleLimit + Excesses(Related(g))
    /\ Total(ThisMonth) <= MonthlyLimit + Excesses(ThisMonth)
=============================================================================
