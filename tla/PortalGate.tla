------------------------------- MODULE PortalGate -------------------------------
(***************************************************************************)
(* services/cmd/billing/central6.go: the review of a new partner, which    *)
(* opens its portal, and the invoices that move it on.                     *)
(*                                                                         *)
(* A PATCH by an administrator reads the row, checks the transition and    *)
(* what it requires and writes, in statements of their own; so does the    *)
(* step an invoice takes the review to after it was made, sent or paid.    *)
(* No row is locked: a handler may write over what changed since it read.  *)
(* The dunning of an invoice is module Dunning's.                          *)
(***************************************************************************)
EXTENDS FiniteSets

CONSTANTS
    PgInvoices,  \* the partner's invoices
    PgWorkers    \* handlers in progress

VARIABLES
    pgRow,       \* billing.partner_onboarding
    pgWaiver,    \* billing.partner_support_waivers: support is documented
    pgInvoice,   \* billing.invoices: workflow_status of each, and what the workflow entered in the ledger
    pgWork,      \* what each worker does
    pgOverlap    \* history: a handler wrote over what had changed since it read it

pgVars == <<pgRow, pgWaiver, pgInvoice, pgWork, pgOverlap>>

PgClasses == {"UNCLASSIFIED", "PAID", "CHARITY"}
\* central6OnboardingTransitionAllowed
PgMoves ==
    {<<"REGISTERED", "PENDING_REVIEW">>, <<"PENDING_REVIEW", "CLASSIFIED">>,
     <<"CLASSIFIED", "INVOICE_PENDING">>, <<"CLASSIFIED", "ADMIN_APPROVAL">>,
     <<"INVOICE_PENDING", "PAYMENT_PENDING">>, <<"INVOICE_PENDING", "ADMIN_APPROVAL">>,
     <<"PAYMENT_PENDING", "ADMIN_APPROVAL">>, <<"ADMIN_APPROVAL", "ACTIVE">>,
     <<"ADMIN_APPROVAL", "PENDING_REVIEW">>, <<"ACTIVE", "PENDING_REVIEW">>}
PgStates == {m[1] : m \in PgMoves}
PgAllowed(from, to) == from = to \/ <<from, to>> \in PgMoves

PgIdle == [at |-> "idle"]
\* A partner that registered, or one an administrator created.
PgInit ==
    /\ pgRow \in {[state |-> "REGISTERED", class |-> "UNCLASSIFIED", portal |-> FALSE],
                  [state |-> "ACTIVE", class |-> "PAID", portal |-> TRUE]}
    /\ pgWaiver = FALSE /\ pgOverlap = FALSE
    /\ pgInvoice = [i \in PgInvoices |-> [flow |-> "NONE", entries |-> {}]]
    /\ pgWork = [w \in PgWorkers |-> PgIdle]

PgAt(w, at) == pgWork[w].at = at
PgGo(w, state) == pgWork' = [pgWork EXCEPT ![w] = state]
\* The end of a handler, which writes the row: those that have read it hold what it was.
PgHolds == {"check", "write", "require", "move", "create"}
PgEnd(w, row) ==
    /\ pgRow' = row
    /\ pgOverlap' = (pgOverlap \/ (row # pgRow /\ pgWork[w].stale))
    /\ pgWork' = [v \in PgWorkers |->
                     IF v = w THEN PgIdle
                     ELSE IF row # pgRow /\ pgWork[v].at \in PgHolds THEN [pgWork[v] EXCEPT !.stale = TRUE]
                     ELSE pgWork[v]]
PgHas(flow) == \E i \in PgInvoices : pgInvoice[i].flow = flow

\* Mutation of PgPaid: an invoice that was sent counts as paid.
PgPaidOrSent == PgHas("PAID") \/ PgHas("SENT")
PgPaid == PgHas("PAID")
\* onboardingPrerequisite, of what the tables hold when it asks them.
PgPrerequisite(next, class) ==
    /\ next = "CLASSIFIED" => class # "UNCLASSIFIED"
    /\ next = "INVOICE_PENDING" => class = "PAID"
    /\ next = "PAYMENT_PENDING" => PgHas("SENT")
    /\ next = "ADMIN_APPROVAL" /\ class = "PAID" => PgPaid
    /\ next = "ADMIN_APPROVAL" /\ class = "CHARITY" => pgWaiver
    /\ next = "ACTIVE" => pgRow.state = "ADMIN_APPROVAL"

-------------------------------------------------------------------------------
(* partnerOnboarding: PATCH *)
PgPatch(w, next, class) ==
    /\ PgAt(w, "idle") /\ PgAllowed(pgRow.state, next)
    /\ PgGo(w, [at |-> "check", next |-> next, class |-> class, stale |-> FALSE])
    /\ UNCHANGED <<pgRow, pgWaiver, pgInvoice, pgOverlap>>
PgCheck(w) ==
    /\ PgAt(w, "check")
    /\ LET r == pgWork[w] IN
       PgGo(w, IF PgPrerequisite(r.next, r.class) THEN [r EXCEPT !.at = "write"] ELSE PgIdle)
    /\ UNCHANGED <<pgRow, pgWaiver, pgInvoice, pgOverlap>>
\* A classification that charges nothing documents the support.
PgWrite(w) ==
    /\ PgAt(w, "write")
    /\ LET r == pgWork[w] IN
       /\ PgEnd(w, [state |-> r.next, class |-> r.class, portal |-> r.next = "ACTIVE"])
       /\ pgWaiver' = (pgWaiver \/ (r.next = "CLASSIFIED" /\ r.class = "CHARITY"))
    /\ UNCHANGED pgInvoice

(* advanceOnboardingFromInvoice: of a partner that pays, as far as it may go, and only the state *)
PgAdvance(target) == [at |-> "advance", next |-> target]
PgLook(w) ==
    /\ PgAt(w, "advance")
    /\ PgGo(w, IF pgRow.class = "PAID" /\ PgAllowed(pgRow.state, pgWork[w].next)
               THEN [at |-> "require", next |-> pgWork[w].next, stale |-> FALSE] ELSE PgIdle)
    /\ UNCHANGED <<pgRow, pgWaiver, pgInvoice, pgOverlap>>
PgRequire(w) ==
    /\ PgAt(w, "require")
    /\ PgGo(w, IF PgPrerequisite(pgWork[w].next, "PAID") THEN [pgWork[w] EXCEPT !.at = "move"] ELSE PgIdle)
    /\ UNCHANGED <<pgRow, pgWaiver, pgInvoice, pgOverlap>>
PgMove(w) ==
    /\ PgAt(w, "move") /\ PgEnd(w, [pgRow EXCEPT !.state = pgWork[w].next])
    /\ UNCHANGED <<pgWaiver, pgInvoice>>

-------------------------------------------------------------------------------
(* Invoices *)
PgSent(i) == "SENT" \in pgInvoice[i].entries
PgSet(i, flow) == pgInvoice' = [pgInvoice EXCEPT ![i].flow = flow]
\* manualInvoiceCreate: the row is read before the transaction that moves it.
PgDraft(w) ==
    /\ PgAt(w, "idle") /\ pgRow.class # "CHARITY"
    /\ PgGo(w, [at |-> "create", stale |-> FALSE, moves |-> pgRow.state = "CLASSIFIED" /\ pgRow.class = "PAID"])
    /\ UNCHANGED <<pgRow, pgWaiver, pgInvoice, pgOverlap>>
PgCreate(w, i) ==
    /\ PgAt(w, "create") /\ pgInvoice[i].flow = "NONE" /\ PgSet(i, "DRAFT")
    /\ PgEnd(w, IF pgWork[w].moves THEN [pgRow EXCEPT !.state = "INVOICE_PENDING"] ELSE pgRow)
    /\ UNCHANGED pgWaiver
\* The invoice a billing cycle makes.
PgGenerate(w, i) ==
    /\ PgAt(w, "idle") /\ pgInvoice[i].flow = "NONE" /\ PgSet(i, "DRAFT")
    /\ PgGo(w, PgAdvance("INVOICE_PENDING"))
    /\ UNCHANGED <<pgRow, pgWaiver, pgOverlap>>
\* invoiceByID: the workflow is read, and written whatever it has become; but the ledger of
\* finance takes each status of an invoice once, and the second transaction fails.
PgFlows ==
    [from : {"DRAFT"}, to : {"APPROVED"}] \cup [from : {"APPROVED"}, to : {"SENT"}]
        \cup [from : {"SENT"}, to : {"PAID"}] \cup [from : {"DRAFT", "APPROVED", "SENT"}, to : {"CANCELLED"}]
PgOperate(w, i) ==
    /\ PgAt(w, "idle")
    /\ \E f \in PgFlows : f.from = pgInvoice[i].flow /\ PgGo(w, [at |-> "flow", invoice |-> i, from |-> f.from, to |-> f.to])
    /\ UNCHANGED <<pgRow, pgWaiver, pgInvoice, pgOverlap>>
PgAfter(to) ==
    CASE to = "SENT" -> PgAdvance("PAYMENT_PENDING")
      [] to = "PAID" -> PgAdvance("ADMIN_APPROVAL")
      [] OTHER       -> PgIdle
PgFlow(w) ==
    /\ PgAt(w, "flow")
    /\ LET r == pgWork[w] IN
       IF r.to \in pgInvoice[r.invoice].entries THEN PgGo(w, PgIdle) /\ UNCHANGED <<pgInvoice, pgOverlap>>
       ELSE /\ pgInvoice' = [pgInvoice EXCEPT ![r.invoice] = [flow |-> r.to, entries |-> @.entries \cup {r.to}]]
            /\ PgGo(w, PgAfter(r.to))
            /\ pgOverlap' = (pgOverlap \/ pgInvoice[r.invoice].flow # r.from)
    /\ UNCHANGED <<pgRow, pgWaiver>>
\* paymentSettlement: of a charge asked for when the invoice was sent, under its lock.
PgSettle(w, i) ==
    /\ PgAt(w, "idle") /\ PgSent(i)
    /\ PgSet(i, "PAID") /\ PgGo(w, PgAfter("PAID"))
    /\ UNCHANGED <<pgRow, pgWaiver, pgOverlap>>

\* A failed call or a restart ends a handler between its statements.
PgStop(w) ==
    /\ ~PgAt(w, "idle") /\ PgGo(w, PgIdle)
    /\ UNCHANGED <<pgRow, pgWaiver, pgInvoice, pgOverlap>>

PgNext ==
    \E w \in PgWorkers :
        \/ \E next \in PgStates, class \in PgClasses : PgPatch(w, next, class)
        \/ PgCheck(w) \/ PgWrite(w) \/ PgLook(w) \/ PgRequire(w) \/ PgMove(w) \/ PgDraft(w)
        \/ \E i \in PgInvoices : PgCreate(w, i) \/ PgGenerate(w, i) \/ PgOperate(w, i) \/ PgSettle(w, i)
        \/ PgFlow(w) \/ PgStop(w)

PgSpec == PgInit /\ [][PgNext]_pgVars

-------------------------------------------------------------------------------
\* The portal's two columns agree whenever no handler wrote over another, and a review
\* that is over is never found with the portal shut.
PgColumnsAgree ==
    /\ pgRow.state = "ACTIVE" => pgRow.portal
    /\ ~pgOverlap => (pgRow.portal => pgRow.state = "ACTIVE")

\* Whoever waits for the last approval has paid or is supported, by its class: along each
\* of the ways there, and after a change of class.
PgApprovalIsEarned ==
    ~pgOverlap /\ pgRow.state = "ADMIN_APPROVAL" =>
        /\ pgRow.class = "PAID" => PgHas("PAID")
        /\ pgRow.class = "CHARITY" => pgWaiver

\* Whoever is waited for to pay was sent an invoice, even if handlers overlap.
PgPendingWasSent ==
    pgRow.state = "PAYMENT_PENDING" => \E i \in PgInvoices : PgSent(i)

\* The review moves along its table, whichever handler moves it, unless one writes over another.
PgMovesAreLegal == ~pgOverlap' => PgAllowed(pgRow.state, pgRow'.state)
\* A payment is forgotten only by a handler that had read the invoice before it.
PgPaidStays ==
    \A i \in PgInvoices :
        pgInvoice[i].flow = "PAID" /\ pgInvoice'[i].flow # "PAID" =>
            \E w \in PgWorkers : PgFlow(w) /\ pgWork[w].from # "PAID"

\* What the review answers for.
PortalGateSafe ==
    /\ [](PgColumnsAgree /\ PgApprovalIsEarned /\ PgPendingWasSent)
    /\ [][PgMovesAreLegal /\ PgPaidStays]_pgVars

\* Not guaranteed, and violated: a partner that pays has paid when its portal opens (the
\* last PATCH may change the class, and an unclassified partner is asked for nothing).
PgOpensOncePaid ==
    ~pgOverlap' /\ pgRow'.portal /\ ~pgRow.portal /\ pgRow'.class = "PAID" => PgHas("PAID")
\* Not guaranteed: the transitions hold when handlers overlap.
PgAlwaysLegal == PgAllowed(pgRow.state, pgRow'.state)
\* Not guaranteed: a paid invoice moves the review on (the step after it may be lost).
PgPaymentMoves ==
    pgRow.state = "PAYMENT_PENDING" /\ (\A w \in PgWorkers : PgAt(w, "idle")) => ~PgHas("PAID")
================================================================================
