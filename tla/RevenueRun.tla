------------------------------ MODULE RevenueRun ------------------------------
(***************************************************************************)
(* Revenue runs (revenue-run.ts, revenue-run-outcome.ts and the finance    *)
(* service that calls them): an immutable plan, the facts that are linked  *)
(* to it as evidence, what outsiders assert about its revenue, and the     *)
(* reconciliation of its costs, from which a profit is computed.           *)
(*                                                                         *)
(* Every mutation runs in a transaction that first locks the workspace's   *)
(* subscription, so that one takes place at a time: each is one action.    *)
(* The audit record is written after the commit, and may fail.  A hash is  *)
(* what it was computed from.  Facts are never changed by the program; the *)
(* hashes are there for those who change the database.                     *)
(***************************************************************************)
EXTENDS Integers, Sequences, FiniteSets, FiniteSetsExt

CONSTANTS
    None,
    Plans,          \* what may be planned: [venture, approval, experiment, task, run, currency]
    Known,          \* ventures, current approvals, experiments, tasks and runs of the workspace
    FactIds, Offers, \* ids of facts, and what each is when it is entered
    Actors, Keys, Overlaps, Assertions,
    MaxAuditFailures, MaxTampers   \* bounds

VARIABLES
    entitled,        \* FINANCE_ACCESS
    facts,           \* revenue_entries, expenses and acp_run_usages with their ledger entries
    revenueRuns,     \* revenue_runs
    links,           \* revenue_run_revenue_entries, _expenses and _usages
    evidence,        \* revenue_run_commercial_evidence
    reconciliations, \* revenue_run_cost_reconciliations, in the order of createdAt
    unaudited,       \* what was committed without its audit record
    tampers          \* changes made to facts behind the program's back

vars == <<entitled, facts, revenueRuns, links, evidence, reconciliations, unaudited, tampers>>

Init ==
    /\ entitled = TRUE /\ facts = [f \in FactIds |-> None] /\ revenueRuns = {} /\ links = {}
    /\ evidence = {} /\ reconciliations = <<>> /\ unaudited = {} /\ tampers = 0

\* enforceFinanceMutation, and enforceWorkspaceCapability behind it.
enforceFinanceMutation == entitled

\* changePlan: the other plan has, or lacks, the entitlement to finance.
ChangeEntitlement ==
    /\ entitled' = ~entitled
    /\ UNCHANGED <<facts, revenueRuns, links, evidence, reconciliations, unaudited, tampers>>

\* auditService.record, after the commit: if it fails, the caller is told so
\* although the row is there, and may call again.
record(entry) ==
    \/ unaudited' = unaudited \ {entry}
    \/ Cardinality(unaudited) < MaxAuditFailures /\ unaudited' = unaudited \cup {entry}

--------------------------------------------------------------------------
(* Facts. *)

netRevenueEur(offer) == offer.gross - offer.fees

createExpense(f) ==
    LET offer == Offers[f] IN
    /\ offer.kind = "EXPENSE" /\ facts[f] = None /\ enforceFinanceMutation
    /\ offer.venture \in Known.ventures \cup {None} /\ offer.gross > 0
    /\ facts' = [facts EXCEPT ![f] = [kind |-> "EXPENSE", scope |-> offer.venture, currency |-> "EUR", gross |-> offer.gross,
                                      net |-> offer.gross, ledger |-> None]]
    /\ record(<<"EXPENSE_RECORDED", f>>)
    /\ UNCHANGED <<entitled, revenueRuns, links, evidence, reconciliations, tampers>>

createRevenueEntry(f) ==
    LET offer == Offers[f] IN
    /\ offer.kind = "REVENUE_ENTRY" /\ facts[f] = None /\ enforceFinanceMutation
    /\ offer.venture \in Known.ventures
    /\ facts' = [facts EXCEPT ![f] = [kind |-> "REVENUE_ENTRY", scope |-> offer.venture, currency |-> "EUR", gross |-> offer.gross,
                                      net |-> netRevenueEur(offer), ledger |-> None]]
    /\ record(<<"REVENUE_RECORDED", f>>)
    /\ UNCHANGED <<entitled, revenueRuns, links, evidence, reconciliations, tampers>>

\* The bridge records usage together with its entry in the cost ledger (CostLedger).
recordUsage(f) ==
    LET offer == Offers[f] IN
    /\ offer.kind = "USAGE" /\ facts[f] = None
    /\ facts' = [facts EXCEPT ![f] = [kind |-> "USAGE", scope |-> offer.venture, currency |-> offer.currency, gross |-> offer.gross,
                                      net |-> offer.gross, ledger |-> offer.gross]]
    /\ UNCHANGED <<entitled, revenueRuns, links, evidence, reconciliations, unaudited, tampers>>

\* Someone changes an amount in the database.
Tamper(f) ==
    /\ tampers < MaxTampers /\ tampers' = tampers + 1 /\ facts[f] # None
    /\ facts' = [facts EXCEPT ![f].net = @ + 1]
    /\ UNCHANGED <<entitled, revenueRuns, links, evidence, reconciliations, unaudited>>

--------------------------------------------------------------------------
(* Plans. *)

\* A run comes with its task.
validateRevenueRunPlan(p) == p.run # None => p.task # None

\* Every id of a plan is one of the workspace, and the approval a current one.
validReferences(p) ==
    /\ p.venture \in Known.ventures
    /\ p.approval \in Known.approvals \cup {None} /\ p.experiment \in Known.experiments \cup {None}
    /\ p.task \in Known.tasks \cup {None}
    /\ p.run # None => <<p.run, p.task>> \in Known.runs

isExactReplay(existing, row) == existing = {row}

createRevenueRunPlan(key, plan, by) ==
    LET row == [id |-> key, plan |-> plan, createdBy |-> by]
        existing == {r \in revenueRuns : r.id = key}
    IN
    /\ validateRevenueRunPlan(plan) /\ enforceFinanceMutation
    /\ \/ isExactReplay(existing, row) /\ UNCHANGED revenueRuns
       \/ existing = {} /\ validReferences(plan) /\ revenueRuns' = revenueRuns \cup {row}

planRevenueRun(key, plan, by) ==
    /\ createRevenueRunPlan(key, plan, by) /\ record(<<"REVENUE_RUN_PLANNED", key>>)
    /\ UNCHANGED <<entitled, facts, links, evidence, reconciliations, tampers>>

--------------------------------------------------------------------------
(* Links. *)

planOf(r) == (CHOOSE x \in revenueRuns : x.id = r).plan

\* Expenses and revenue belong to the venture of an EUR run, usage to its run in its currency.
inScope(fact, plan) ==
    IF fact.kind = "USAGE"
    THEN plan.run # None /\ fact.scope = plan.run /\ fact.currency = plan.currency
    ELSE plan.currency = "EUR" /\ fact.scope = plan.venture

\* revenueEntryEvidenceHash, expenseEvidenceHash: a hash is of every column.
evidenceHash(fact) == fact

\* usageEvidenceHash refuses usage that differs from its ledger entry.
hashable(fact) == fact.kind = "USAGE" => fact.ledger = fact.net

exactLinkReplay(existing, row) == existing = {row}

\* linkRevenueRunRevenueEntry, linkRevenueRunExpense and linkRevenueRunUsage.
linkFact(r, f, by) ==
    LET row == [run |-> r, fact |-> f, hash |-> evidenceHash(facts[f]), linkedBy |-> by]
        existing == {l \in links : l.fact = f}
    IN
    /\ enforceFinanceMutation /\ facts[f] # None
    /\ \E x \in revenueRuns : x.id = r
    /\ inScope(facts[f], planOf(r)) /\ hashable(facts[f])
    /\ \/ exactLinkReplay(existing, row) /\ UNCHANGED links
       \/ existing = {} /\ links' = links \cup {row}

linkRevenueRunFact(r, f, by) ==
    /\ linkFact(r, f, by) /\ record(<<"REVENUE_RUN_FACT_LINKED", f>>)
    /\ UNCHANGED <<entitled, facts, revenueRuns, evidence, reconciliations, tampers>>

LinksOf(r, kind) == {l \in links : l.run = r /\ l.hash.kind = kind}

--------------------------------------------------------------------------
(* Commercial evidence: what is asserted about a linked entry, never verified. *)

\* Nobody has observed what lies in the future.
validateCommercialEvidenceParams(a) == a.observed = "past"

recordCommercialEvidence(r, f, key, a, by) ==
    LET row == [id |-> key, run |-> r, fact |-> f, assertion |-> a, verificationState |-> "UNVERIFIED_EXTERNAL_ASSERTION", recordedBy |-> by]
        existing == {e \in evidence : e.id = key}
        artifact == {e \in evidence : <<e.run, e.fact, e.assertion.kind, e.assertion.artifact>> = <<r, f, a.kind, a.artifact>>}
    IN
    /\ validateCommercialEvidenceParams(a) /\ enforceFinanceMutation
    /\ \E l \in LinksOf(r, "REVENUE_ENTRY") : l.fact = f
    /\ \/ existing = {row} /\ UNCHANGED evidence
       \/ existing = {} /\ artifact = {} /\ evidence' = evidence \cup {row}

recordRevenueRunCommercialEvidence(r, f, key, a, by) ==
    /\ recordCommercialEvidence(r, f, key, a, by)
    /\ record(<<"REVENUE_RUN_COMMERCIAL_EVIDENCE_RECORDED", key>>)
    /\ UNCHANGED <<entitled, facts, revenueRuns, links, reconciliations, tampers>>

--------------------------------------------------------------------------
(* Reconciliation of the costs. *)

\* A linked fact that is no longer what it was when it was linked, or whose
\* ledger entry differs.
drifted(ls) == \E l \in ls : evidenceHash(facts[l.fact]) # l.hash \/ ~hashable(facts[l.fact])

\* Amounts are in cents.  The columns are decimals of scale two, so that
\* eurDecimalToMinorUnits is exact and refuses none of them.
Total(ls) == MapThenSumSet(LAMBDA l : facts[l.fact].net, ls)

costEvidenceSetHash(ls) == {<<l.fact, l.hash>> : l \in ls}

validateCostReconciliationParams(overlap) == overlap >= 0

recordCostReconciliation(r, overlap, key, by) ==
    LET expenses == LinksOf(r, "EXPENSE")
        usages == LinksOf(r, "USAGE")
        row == [run |-> r, currency |-> planOf(r).currency, expenses |-> costEvidenceSetHash(expenses),
                usages |-> costEvidenceSetHash(usages), expenseTotal |-> Total(expenses), runtimeCharge |-> Total(usages),
                overlap |-> overlap, id |-> key, reconciledBy |-> by]
        existing == {i \in DOMAIN reconciliations : reconciliations[i].id = key}
        sameSet == {i \in DOMAIN reconciliations :
                      /\ reconciliations[i].run = r
                      /\ reconciliations[i].expenses = row.expenses /\ reconciliations[i].usages = row.usages}
    IN
    /\ validateCostReconciliationParams(overlap) /\ enforceFinanceMutation
    /\ \E x \in revenueRuns : x.id = r
    /\ expenses # {} /\ usages # {} /\ ~drifted(expenses \cup usages)
    /\ row.expenseTotal >= 0 /\ row.runtimeCharge >= 0
    /\ overlap <= row.expenseTotal /\ overlap <= row.runtimeCharge
    /\ \/ (\E i \in existing : reconciliations[i] = row) /\ UNCHANGED reconciliations
       \/ existing = {} /\ sameSet = {} /\ reconciliations' = Append(reconciliations, row)

recordRevenueRunCostReconciliation(r, overlap, key, by) ==
    /\ recordCostReconciliation(r, overlap, key, by)
    /\ record(<<"REVENUE_RUN_COST_RECONCILED", key>>)
    /\ UNCHANGED <<entitled, facts, revenueRuns, links, evidence, tampers>>

\* getRevenueRunOutcomeEvidence, over one snapshot, for a workspace that still
\* has access: refused (None) when anything has drifted; a profit only when the latest reconciliation is of the evidence
\* there is now.
latestReconciliation(r) ==
    LET mine == {i \in DOMAIN reconciliations : reconciliations[i].run = r}
    IN  IF mine = {} THEN None ELSE reconciliations[Max(mine)]

getRevenueRunOutcomeEvidence(r) ==
    LET revenue == LinksOf(r, "REVENUE_ENTRY")
        expenses == LinksOf(r, "EXPENSE")
        usages == LinksOf(r, "USAGE")
        last == latestReconciliation(r)
        matches == last # None /\ last.expenses = costEvidenceSetHash(expenses) /\ last.usages = costEvidenceSetHash(usages)
        aggregated == /\ last.currency = planOf(r).currency
                      /\ last.expenseTotal = Total(expenses) /\ last.runtimeCharge = Total(usages)
                      /\ last.overlap <= Total(expenses) /\ last.overlap <= Total(usages)
        deduplicated == Total(expenses) + Total(usages) - last.overlap
    IN  IF drifted(revenue \cup expenses \cup usages) \/ (matches /\ ~aggregated) THEN None
        ELSE [net |-> Total(revenue), asserted |-> Cardinality({e \in evidence : e.run = r}),
              overlapState |-> IF matches THEN "RECONCILED" ELSE IF last # None THEN "STALE" ELSE "POTENTIAL_OVERLAP",
              profit |-> IF matches THEN Total(revenue) - deduplicated ELSE None]

Next ==
    \/ ChangeEntitlement
    \/ \E f \in FactIds :
         createExpense(f) \/ createRevenueEntry(f) \/ recordUsage(f) \/ Tamper(f)
    \/ \E key \in Keys, by \in Actors :
         \/ \E plan \in Plans : planRevenueRun(key, plan, by)
         \/ \E f \in FactIds : linkRevenueRunFact(key, f, by)
         \/ \E r \in Keys :
              \/ \E f \in FactIds, a \in Assertions : recordRevenueRunCommercialEvidence(r, f, key, a, by)
              \/ \E overlap \in Overlaps : recordRevenueRunCostReconciliation(r, overlap, key, by)

Spec == Init /\ [][Next]_vars

--------------------------------------------------------------------------
TypeOK ==
    /\ entitled \in BOOLEAN /\ DOMAIN facts = FactIds /\ tampers \in 0..MaxTampers
    /\ \A r \in revenueRuns : r.id \in Keys /\ r.plan \in Plans
    /\ \A l \in links : l.fact \in FactIds /\ facts[l.fact] # None /\ \E r \in revenueRuns : r.id = l.run
    /\ Cardinality(unaudited) <= MaxAuditFailures

\* A fact is evidence of one run only, of the venture or the run it was made
\* for, however often and by whomever it is linked; and nothing asserted about
\* revenue that is not linked, twice from one artifact, or as if it were
\* verified (linkRevenueRunFact, recordRevenueRunCommercialEvidence).
EvidenceIsCountedOnce ==
    /\ \A l, m \in links : l.fact = m.fact => l = m
    /\ \A l \in links : inScope(l.hash, planOf(l.run))
    /\ \A e \in evidence :
         /\ e.verificationState = "UNVERIFIED_EXTERNAL_ASSERTION"
         /\ \E l \in links : l.run = e.run /\ l.fact = e.fact /\ l.hash.kind = "REVENUE_ENTRY"
         /\ \A d \in evidence : e.id # d.id => <<e.run, e.fact, e.assertion.kind, e.assertion.artifact>>
                                               # <<d.run, d.fact, d.assertion.kind, d.assertion.artifact>>

\* A profit is reported exactly when somebody reconciled the very evidence that
\* is linked now and none of it has changed since; it is then the revenue
\* minus the costs as they were when they were linked, the overlap counted
\* once; and an evidence set is reconciled once (getRevenueRunOutcomeEvidence).
ProfitIsReconciled ==
    /\ \A i, j \in DOMAIN reconciliations :
         i # j => /\ reconciliations[i].id # reconciliations[j].id
                  /\ <<reconciliations[i].run, reconciliations[i].expenses, reconciliations[i].usages>>
                       # <<reconciliations[j].run, reconciliations[j].expenses, reconciliations[j].usages>>
    /\ \A x \in revenueRuns :
         LET outcome == getRevenueRunOutcomeEvidence(x.id)
             mine == {l \in links : l.run = x.id}
             Linked(kind) == MapThenSumSet(LAMBDA l : l.hash.net, {l \in mine : l.hash.kind = kind})
             current == {i \in DOMAIN reconciliations :
                           /\ reconciliations[i].run = x.id
                           /\ reconciliations[i].expenses \cup reconciliations[i].usages
                                = {<<l.fact, l.hash>> : l \in {k \in mine : k.hash.kind # "REVENUE_ENTRY"}}}
             intact == \A l \in mine : facts[l.fact] = l.hash
         IN  /\ outcome = None <=> ~intact
             /\ outcome # None /\ outcome.profit # None <=> intact /\ current # {}
             /\ outcome # None /\ outcome.profit # None => \E i \in current :
                  /\ outcome.profit = Linked("REVENUE_ENTRY") - Linked("EXPENSE") - Linked("USAGE") + reconciliations[i].overlap
                  /\ reconciliations[i].overlap <= Linked("EXPENSE") /\ reconciliations[i].overlap <= Linked("USAGE")

\* What is missing in the audit trail was committed all the same.
UnauditedWasCommitted ==
    \A u \in unaudited :
      CASE u[1] = "REVENUE_RUN_PLANNED" -> \E r \in revenueRuns : r.id = u[2]
        [] u[1] = "REVENUE_RUN_FACT_LINKED" -> \E l \in links : l.fact = u[2]
        [] u[1] = "REVENUE_RUN_COMMERCIAL_EVIDENCE_RECORDED" -> \E e \in evidence : e.id = u[2]
        [] u[1] = "REVENUE_RUN_COST_RECONCILED" -> \E i \in DOMAIN reconciliations : reconciliations[i].id = u[2]
        [] OTHER -> facts[u[2]] # None
==============================================================================
