------------------------------- MODULE Dunning --------------------------------
(***************************************************************************)
(* Recurring collection and dunning of one partner's plan invoices:        *)
(* services/cmd/billing/dunning.go, payment_provider.go, the invoice       *)
(* workflow of central6.go and the daily runInvoiceCycle of main.go.       *)
(*                                                                         *)
(* Three kinds of process run the same code: the daily cycle, an           *)
(* operator's request (send, mark-paid, cancel) and Payments' settlement   *)
(* request.  Almost nothing of it is transactional: an UPDATE of Billing's *)
(* tables, a PATCH of the partner in the Partners service and a PUT of the *)
(* entitlements in Catalog are steps with anything in between.  A process  *)
(* is therefore the sequence of statements it has still to execute; a      *)
(* function call replaces its statement by those of its body, and an error *)
(* discards the statements up to the caller that ignores it ("return").    *)
(* Reads at the head of a function that follow each other are one step.    *)
(*                                                                         *)
(* A process finishes on the day it began (every remote call has a timeout *)
(* of seconds), but the daily cycle may fail to run on a day.  Days are    *)
(* counted from the invoice date.  Catalog is represented by whether the   *)
(* partner has its plan's entitlements.                                    *)
(***************************************************************************)
EXTENDS Integers, Sequences, SequencesExt

CONSTANTS
    Invoices,       \* sent or to be sent invoices of the partner
    Cron,           \* the daily cycle
    Workers,        \* operator requests and settlement requests
    SecondOffset,   \* dunningSecondOffset
    ThirdOffset,    \* dunningThirdOffset
    CureDays,       \* dunningCureDays
    FirstAnswers,   \* statuses a new charge is answered with; FAILED at once is
                    \* for Billing a REQUIRES_ACTION that is never completed
    LastDay,        \* bound: the last day
    MaxFaults       \* bound: errors and process deaths

ASSUME DunningAssumption ==
    /\ SecondOffset \in Nat /\ ThirdOffset \in Nat /\ SecondOffset <= ThirdOffset
    /\ CureDays \in Nat \ {0}
    /\ FirstAnswers \subseteq {"PROCESSING", "REQUIRES_ACTION", "FAILED"}
    /\ LastDay \in Nat /\ MaxFaults \in Nat
    /\ Cron \notin Workers
    /\ IsFiniteSet(Invoices)

VARIABLES
    invoice,    \* billing.invoices
    partner,    \* lifecycle (Partners), entitled (Catalog), subscription (Billing)
    charge,     \* Payments' attempt for each invoice and key
    report,     \* the provider's webhook for it: not due, due or settled
    day,        \* days since the invoice date
    cycled,     \* whether the cycle was started today
    program,    \* what each process has still to execute
    faults

vars == <<invoice, partner, charge, report, day, cycled, program, faults>>

Processes == Workers \cup {Cron}
Attempts  == 1..3                         \* dunningMaxAttempts
Keys      == {0} \cup Attempts            \* 0: the key that names no attempt
Charges   == Invoices \X Keys
Actions   == {"send", "paid", "cancel"}
Failure   == {"FAILED", "REQUIRES_ACTION"}
NoDay     == -1

InvoiceRow ==
    [workflow : {"APPROVED", "SENT", "PAID", "CANCELLED"},
     status   : {"DRAFT", "PAID", "CANCELLED"},
     provider : {"NOT_CONFIGURED", "COLLECTION_PENDING", "PROCESSING", "CANCELLED",
                 "SUCCEEDED"} \cup Failure,
     attempts : 0..3,
     dunning  : {"NONE", "COLLECTING", "PAST_DUE", "SUSPENDED", "RECOVERED", "PURGED"},
     due      : {NoDay} \cup (0..(LastDay + CureDays)),
     previous : {"", "LIVE"},
     paidAt   : {NoDay} \cup (0..LastDay),
     ledger   : SUBSET Actions]           \* workflow entries of finance_transactions

PartnerState ==
    [lifecycle : {"LIVE", "SUSPENDED", "ARCHIVED"}, entitled : BOOLEAN,
     subscription : {"ACTIVE", "PAST_DUE", "SUSPENDED", "CANCELLED"}]

\* Every row holds what its columns allow, and attempts and days stay within
\* the schedule.
TypeOK ==
    /\ invoice \in [Invoices -> InvoiceRow]
    /\ partner \in PartnerState
    /\ charge \in [Charges -> {"NONE", "PROCESSING", "SUCCEEDED"} \cup Failure]
    /\ report \in [Charges -> {"NONE", "DUE", "SETTLED"}]
    /\ day \in 0..LastDay
    /\ cycled \in BOOLEAN
    /\ DOMAIN program = Processes
    /\ faults \in 0..MaxFaults

Init ==
    /\ invoice = [i \in Invoices |->
          [workflow |-> "APPROVED", status |-> "DRAFT", provider |-> "NOT_CONFIGURED",
           attempts |-> 0, dunning |-> "NONE", due |-> NoDay, previous |-> "", paidAt |-> NoDay,
           ledger |-> {}]]
    /\ partner = [lifecycle |-> "LIVE", entitled |-> TRUE, subscription |-> "ACTIVE"]
    /\ charge = [c \in Charges |-> "NONE"]
    /\ report = [c \in Charges |-> "NONE"]
    /\ day = 0
    /\ cycled = FALSE
    /\ program = [p \in Processes |-> <<>>]
    /\ faults = 0

-----------------------------------------------------------------------------
(* Programs *)

\* A statement: what it does, to which invoice, with which argument.
Stmt(op, i, x) == [op |-> op, i |-> i, x |-> x]

\* Process p is about to execute a statement of kind op, with fields s.i, s.x.
At(p, op) == program[p] # <<>> /\ Head(program[p]).op = op

Continue(p, stmts) == program' = [program EXCEPT ![p] = stmts \o Tail(@)]

\* What is left after an error: the rest of the nearest caller that ignores it.
Unwound(s) ==
    LET r == SelectInSeq(s, LAMBDA x : x.op = "return")
    IN  IF r = 0 THEN <<>> ELSE SubSeq(s, r + 1, Len(s))

Ignoring(stmts, i) == Append(stmts, Stmt("return", i, 0))

\* queueInvoiceCollection never tells its caller of an error.
Collection(i) == Ignoring(<<Stmt("collect", i, 0)>>, i)

\* markPastDue does nothing for the third attempt or before the first.
PastDue(i, n) ==
    IF n \in 1..2
    THEN <<Stmt("pastdue", i, 0),
           Stmt("subscription", i, [from |-> {"ACTIVE"}, to |-> "PAST_DUE"])>>
    ELSE <<>>

\* Mutation of AfterFailure: the second failure suspends.
AfterFailureEarly(i, n) ==
    IF n >= 2 THEN <<Stmt("suspend", i, 0)>> ELSE PastDue(i, n)

AfterFailure(i, n) ==
    IF n >= 3 THEN <<Stmt("suspend", i, 0)>> ELSE PastDue(i, n)

\* A paid invoice keeps the time it was first paid at.
Paid(row) ==
    [row EXCEPT !.workflow = "PAID", !.status = "PAID", !.provider = "SUCCEEDED",
                !.paidAt = IF @ = NoDay THEN day ELSE @]

Return(p) ==
    /\ At(p, "return")
    /\ Continue(p, <<>>)
    /\ UNCHANGED <<invoice, partner, charge, report, day, cycled, faults>>

\* A statement fails, or the process dies.
Fault(p) ==
    /\ program[p] # <<>>
    /\ faults < MaxFaults
    /\ faults' = faults + 1
    /\ program' \in {[program EXCEPT ![p] = Unwound(@)], [program EXCEPT ![p] = <<>>]}
    /\ UNCHANGED <<invoice, partner, charge, report, day, cycled>>

-----------------------------------------------------------------------------
(* queueInvoiceCollection *)

\* Only a SENT invoice with attempts left is charged, under the key of the
\* next attempt.
Collect(p) ==
    /\ At(p, "collect")
    /\ LET i == Head(program[p]).i
       IN Continue(p,
            IF invoice[i].workflow = "SENT" /\ invoice[i].attempts < 3
            THEN <<Stmt("charge", i, invoice[i].attempts + 1)>> ELSE <<>>)
    /\ UNCHANGED <<invoice, partner, charge, report, day, cycled, faults>>

\* invoiceDunningMeta fails: the invoice is charged all the same, under the key
\* that names no attempt.
CollectUnread(p) ==
    /\ At(p, "collect")
    /\ faults < MaxFaults
    /\ faults' = faults + 1
    /\ LET i == Head(program[p]).i
       IN invoice[i].workflow = "SENT" /\ Continue(p, <<Stmt("charge", i, 0)>>)
    /\ UNCHANGED <<invoice, partner, charge, report, day, cycled>>

\* requestPaymentCharge: a new key is charged once, a known one is answered
\* with the attempt's status.
RequestCharge(p) ==
    /\ At(p, "charge")
    /\ LET i == Head(program[p]).i
           n == Head(program[p]).x
       IN \E a \in IF charge[<<i, n>>] = "NONE" THEN FirstAnswers ELSE {charge[<<i, n>>]} :
             /\ charge' = [charge EXCEPT ![<<i, n>>] = a]
             /\ Continue(p, <<Stmt("mark", i, [n |-> n, status |-> a])>>)
    /\ UNCHANGED <<invoice, partner, report, day, cycled, faults>>

\* It fails: Payments refuses or is not reached, or its answer is lost.
ChargeRefused(p) ==
    /\ At(p, "charge")
    /\ LET i == Head(program[p]).i
           n == Head(program[p]).x
       IN /\ charge' \in {charge} \cup
                IF charge[<<i, n>>] = "NONE" THEN {[charge EXCEPT ![<<i, n>>] = "PROCESSING"]}
                ELSE {}
          /\ Continue(p, <<Stmt("pend", i, 0)>>)
    /\ UNCHANGED <<invoice, partner, report, day, cycled, faults>>

PendCollection(p) ==
    /\ At(p, "pend")
    /\ LET i == Head(program[p]).i
       IN invoice' = [invoice EXCEPT ![i].provider =
                        IF invoice[i].status # "PAID" THEN "COLLECTION_PENDING" ELSE @]
    /\ Continue(p, <<>>)
    /\ UNCHANGED <<partner, charge, report, day, cycled, faults>>

\* The row markCollectionAttempt leaves; a charge that is no numbered attempt
\* only writes the provider's status.
Marked(row, n, status) ==
    [row EXCEPT !.provider = status,
                !.attempts = IF n > @ THEN n ELSE @,
                !.dunning = IF n = 0 \/ @ \in {"SUSPENDED", "PURGED", "RECOVERED"} THEN @
                            ELSE IF status \in Failure THEN "PAST_DUE" ELSE "COLLECTING"]

\* markCollectionAttempt leaves a PAID invoice alone, but what follows an
\* unsuccessful answer is done for it all the same.
MarkAttempt(p) ==
    /\ At(p, "mark")
    /\ LET i == Head(program[p]).i
           x == Head(program[p]).x
       IN /\ invoice' = [invoice EXCEPT ![i] =
                           IF @.status = "PAID" THEN @
                           ELSE Marked(invoice[i], x.n, x.status)]
          /\ Continue(p, IF x.status \in Failure THEN AfterFailure(i, x.n) ELSE <<>>)
    /\ UNCHANGED <<partner, charge, report, day, cycled, faults>>

-----------------------------------------------------------------------------
(* markPastDue, suspendForNonPayment, recoverDunningPayment, the purge *)

MarkPastDue(p) ==
    /\ At(p, "pastdue")
    /\ LET i == Head(program[p]).i
       IN invoice' = [invoice EXCEPT ![i].dunning =
            IF invoice[i].status # "PAID" /\ @ \notin {"SUSPENDED", "PURGED", "RECOVERED"}
            THEN "PAST_DUE" ELSE @]
    /\ Continue(p, <<>>)
    /\ UNCHANGED <<partner, charge, report, day, cycled, faults>>

\* UPDATE billing.partner_plan_subscriptions SET status=to WHERE status IN from.
UpdateSubscription(p) ==
    /\ At(p, "subscription")
    /\ LET x == Head(program[p]).x
       IN partner' = [partner EXCEPT !.subscription = IF @ \in x.from THEN x.to ELSE @]
    /\ Continue(p, <<>>)
    /\ UNCHANGED <<invoice, charge, report, day, cycled, faults>>

Suspend(p) ==
    /\ At(p, "suspend")
    /\ LET i == Head(program[p]).i
           open == partner.lifecycle \notin {"SUSPENDED", "ARCHIVED"}
       IN Continue(p,
            IF invoice[i].dunning \in {"PURGED", "RECOVERED", "SUSPENDED"} THEN <<>>
            ELSE (IF open THEN <<Stmt("previous", i, partner.lifecycle),
                                 Stmt("lifecycle", i, "SUSPENDED")>> ELSE <<>>)
                 \o <<Stmt("entitle", i, FALSE), Stmt("suspended", i, 0),
                      Stmt("subscription", i, [from |-> {"ACTIVE", "PAST_DUE", "SUSPENDED"},
                                               to |-> "SUSPENDED"])>>)
    /\ UNCHANGED <<invoice, partner, charge, report, day, cycled, faults>>

SavePrevious(p) ==
    /\ At(p, "previous")
    /\ LET s == Head(program[p])
       IN invoice' = [invoice EXCEPT ![s.i].previous = IF @ = "" THEN s.x ELSE @]
    /\ Continue(p, <<>>)
    /\ UNCHANGED <<partner, charge, report, day, cycled, faults>>

\* canTransition of services/cmd/partners, between the states dunning uses.
canTransition(from, to) == from = to \/ from # "ARCHIVED"

\* PATCH /partners/{id}; 409 is an error of the caller.
SetLifecycle(p) ==
    /\ At(p, "lifecycle")
    /\ LET to == Head(program[p]).x
       IN IF canTransition(partner.lifecycle, to)
          THEN partner' = [partner EXCEPT !.lifecycle = to] /\ Continue(p, <<>>)
          ELSE program' = [program EXCEPT ![p] = Unwound(@)] /\ UNCHANGED partner
    /\ UNCHANGED <<invoice, charge, report, day, cycled, faults>>

\* PUT /partners/{id}/plan-entitlements: the plan's modules, or none.
SetEntitlements(p) ==
    /\ At(p, "entitle")
    /\ partner' = [partner EXCEPT !.entitled = Head(program[p]).x]
    /\ Continue(p, <<>>)
    /\ UNCHANGED <<invoice, charge, report, day, cycled, faults>>

\* The invoice is SUSPENDED and its cure window opens, whatever it was.
MarkSuspended(p) ==
    /\ At(p, "suspended")
    /\ invoice' = [invoice EXCEPT ![Head(program[p]).i] =
                     [@ EXCEPT !.dunning = "SUSPENDED", !.due = day + CureDays]]
    /\ Continue(p, <<>>)
    /\ UNCHANGED <<partner, charge, report, day, cycled, faults>>

Recover(p) ==
    /\ At(p, "recover")
    /\ LET i == Head(program[p]).i
           row == invoice[i]
       IN Continue(p,
            IF row.dunning = "PURGED" \/ (row.due # NoDay /\ day > row.due) THEN <<>>
            ELSE (IF row.dunning # "SUSPENDED" THEN <<>>
                  ELSE (IF row.previous = "" THEN <<>>
                        ELSE <<Stmt("lifecycle", i, row.previous)>>)
                       \o <<Stmt("entitle", i, TRUE)>>)
                 \o <<Stmt("subscription", i, [from |-> {"PAST_DUE", "SUSPENDED"},
                                               to |-> "ACTIVE"]),
                      Stmt("recovered", i, "RECOVERED")>>)
    /\ UNCHANGED <<invoice, partner, charge, report, day, cycled, faults>>

\* dunning_state becomes RECOVERED, or NONE after a first-attempt payment.
MarkRecovered(p) ==
    /\ At(p, "recovered")
    /\ LET s == Head(program[p])
       IN invoice' = [invoice EXCEPT ![s.i].dunning = IF @ = "PURGED" THEN @ ELSE s.x]
    /\ Continue(p, <<>>)
    /\ UNCHANGED <<partner, charge, report, day, cycled, faults>>

\* POST /partners/{id}/purge-operational archives a suspended partner and
\* removes its login identities.
PurgePartner(p) ==
    /\ At(p, "purge")
    /\ IF partner.lifecycle \in {"SUSPENDED", "ARCHIVED"}
       THEN partner' = [partner EXCEPT !.lifecycle = "ARCHIVED"] /\ Continue(p, <<>>)
       ELSE program' = [program EXCEPT ![p] = Unwound(@)] /\ UNCHANGED partner
    /\ UNCHANGED <<invoice, charge, report, day, cycled, faults>>

MarkPurged(p) ==
    /\ At(p, "purged")
    /\ invoice' = [invoice EXCEPT ![Head(program[p]).i].dunning = "PURGED"]
    /\ Continue(p, <<>>)
    /\ UNCHANGED <<partner, charge, report, day, cycled, faults>>

-----------------------------------------------------------------------------
(* The daily cycle *)

ForEachInvoice(body(_)) ==
    LET s == SetToSeq(Invoices) IN FlattenSeq([k \in DOMAIN s |-> body(s[k])])

\* runInvoiceCycle: pending collections, plan entitlements, dunning, purge.
StartCron ==
    /\ program[Cron] = <<>>
    /\ ~cycled
    /\ cycled' = TRUE
    /\ program' = [program EXCEPT ![Cron] =
          <<Stmt("retry", 0, 0), Stmt("plan", 0, 0), Stmt("dunning", 0, 0),
            Stmt("archive", 0, 0)>>]
    /\ UNCHANGED <<invoice, partner, charge, report, day, faults>>

\* retryPendingInvoiceCollections
RetryPending ==
    /\ At(Cron, "retry")
    /\ Continue(Cron, ForEachInvoice(LAMBDA i :
          IF invoice[i].status # "PAID" /\ invoice[i].provider = "COLLECTION_PENDING"
          THEN Collection(i) ELSE <<>>))
    /\ UNCHANGED <<invoice, partner, charge, report, day, cycled, faults>>

\* runPlanBillingCycle restores the entitlements of an ACTIVE subscription; an
\* error is recorded and ignored.
SyncPlan ==
    /\ At(Cron, "plan")
    /\ Continue(Cron, IF partner.subscription = "ACTIVE"
                      THEN Ignoring(<<Stmt("entitle", 0, TRUE)>>, 0) ELSE <<>>)
    /\ UNCHANGED <<invoice, partner, charge, report, day, cycled, faults>>

collectionRetryDue(n) ==
    CASE n = 1 -> day >= SecondOffset
      [] n = 2 -> day >= ThirdOffset
      [] OTHER -> FALSE

\* What runDunningCycle does with an invoice it has read.
DunningWork(i) ==
    LET row == invoice[i]
    IN  CASE row.dunning = "PURGED" \/ row.workflow \notin {"SENT", "PAID"} -> <<>>
          [] row.status = "PAID" ->
               IF row.dunning \in {"PAST_DUE", "SUSPENDED"}
               THEN <<Stmt("recover", i, 0)>> ELSE <<>>
          [] row.status # "PAID" /\ row.provider \in Failure ->
               AfterFailure(i, row.attempts)
               \o (IF collectionRetryDue(row.attempts) THEN Collection(i) ELSE <<>>)
          [] OTHER -> <<>>

RunDunning ==
    /\ At(Cron, "dunning")
    /\ Continue(Cron, ForEachInvoice(DunningWork))
    /\ UNCHANGED <<invoice, partner, charge, report, day, cycled, faults>>

\* The invoices archiveExpiredDunning selects: paid or not, cancelled or not.
purgeDue(i) == invoice[i].dunning = "SUSPENDED" /\ invoice[i].due <= day

ArchiveExpired ==
    /\ At(Cron, "archive")
    /\ Continue(Cron, ForEachInvoice(LAMBDA i :
          IF purgeDue(i)
          THEN <<Stmt("entitle", i, FALSE), Stmt("purge", i, 0),
                 Stmt("subscription", i, [from |-> {"ACTIVE", "PAST_DUE", "SUSPENDED"},
                                          to |-> "CANCELLED"]),
                 Stmt("purged", i, 0)>>
          ELSE <<>>))
    /\ UNCHANGED <<invoice, partner, charge, report, day, cycled, faults>>

-----------------------------------------------------------------------------
(* The operator, the provider and the settlement *)

Permitted(action, workflow) ==
    CASE action = "send"   -> workflow = "APPROVED"
      [] action = "paid"   -> workflow = "SENT"
      [] action = "cancel" -> workflow \notin {"PAID", "CANCELLED"}

\* The row an action leaves.
Acted(row, action) ==
    LET entered == [row EXCEPT !.ledger = @ \cup {action}]
    IN  CASE action = "send"   -> [entered EXCEPT !.workflow = "SENT"]
          [] action = "paid"   -> Paid(entered)
          [] action = "cancel" -> [entered EXCEPT !.workflow = "CANCELLED",
                                                  !.status = "CANCELLED",
                                                  !.provider = "CANCELLED"]

\* invoiceByID reads the invoice and checks the action against it ...
Operate(p, i, action) ==
    /\ program[p] = <<>>
    /\ Permitted(action, invoice[i].workflow)
    /\ program' = [program EXCEPT ![p] = <<Stmt("workflow", i, action)>>]
    /\ UNCHANGED <<invoice, partner, charge, report, day, cycled, faults>>

\* Mutation of WriteWorkflow: the ledger's index is missing.
WriteUnindexed(p) ==
    /\ At(p, "workflow")
    /\ LET i == Head(program[p]).i
           action == Head(program[p]).x
       IN /\ invoice' = [invoice EXCEPT ![i] = Acted(invoice[i], action)]
          /\ Continue(p, IF action = "send" THEN Collection(i) ELSE <<>>)
    /\ UNCHANGED <<partner, charge, report, day, cycled, faults>>

\* ... and writes it by id alone.  The transaction enters the action in the
\* ledger, whose unique index refuses what was already done to the invoice.
\* Sending leaves the status and starts the collection.
WriteWorkflow(p) ==
    /\ At(p, "workflow")
    /\ LET i == Head(program[p]).i
           action == Head(program[p]).x
       IN IF action \in invoice[i].ledger
          THEN Continue(p, <<>>) /\ UNCHANGED invoice
          ELSE /\ invoice' = [invoice EXCEPT ![i] = Acted(invoice[i], action)]
               /\ Continue(p, IF action = "send" THEN Collection(i) ELSE <<>>)
    /\ UNCHANGED <<partner, charge, report, day, cycled, faults>>

\* The provider decides a charge it accepted; its webhook is then due.
Decide(c, outcome) ==
    /\ charge[c] \in {"PROCESSING", "REQUIRES_ACTION"}
    /\ charge' = [charge EXCEPT ![c] = outcome]
    /\ report' = [report EXCEPT ![c] = "DUE"]
    /\ UNCHANGED <<invoice, partner, day, cycled, program, faults>>

\* paymentSettlement: one transaction, then what follows from the attempts and
\* the state it read.  A repeated request is a duplicate and does neither.
Settle(p, i, n) ==
    /\ program[p] = <<>>
    /\ report[<<i, n>>] = "DUE"
    /\ report' = [report EXCEPT ![<<i, n>>] = "SETTLED"]
    /\ LET row == invoice[i]
           behind == row.attempts > 1 \/ row.dunning \in {"PAST_DUE", "SUSPENDED"}
       IN IF charge[<<i, n>>] = "SUCCEEDED"
          THEN /\ invoice' = [invoice EXCEPT ![i] = Paid(invoice[i])]
               /\ program' = [program EXCEPT ![p] =
                    IF behind THEN <<Stmt("recover", i, 0)>>
                    ELSE <<Stmt("recovered", i, "NONE"),
                           Stmt("subscription", i, [from |-> {"PAST_DUE"},
                                                    to |-> "ACTIVE"])>>]
          ELSE /\ invoice' = [invoice EXCEPT ![i].provider = "FAILED"]
               /\ program' = [program EXCEPT ![p] = AfterFailure(i, row.attempts)]
    /\ UNCHANGED <<partner, charge, day, cycled, faults>>

-----------------------------------------------------------------------------
Idle == \A p \in Processes : program[p] = <<>>

NextDay ==
    /\ Idle
    /\ day < LastDay
    /\ day' = day + 1
    /\ cycled' = FALSE
    /\ UNCHANGED <<invoice, partner, charge, report, program, faults>>

\* Statements any process may come to execute.
Execute(p) ==
    \/ Return(p) \/ Collect(p) \/ CollectUnread(p) \/ RequestCharge(p) \/ ChargeRefused(p)
    \/ PendCollection(p) \/ MarkAttempt(p) \/ MarkPastDue(p)
    \/ UpdateSubscription(p) \/ Suspend(p) \/ SavePrevious(p) \/ SetLifecycle(p)
    \/ SetEntitlements(p) \/ MarkSuspended(p) \/ Recover(p) \/ MarkRecovered(p)
    \/ WriteWorkflow(p) \/ Fault(p)

CronStep ==
    \/ StartCron \/ RetryPending \/ SyncPlan \/ RunDunning \/ ArchiveExpired
    \/ PurgePartner(Cron) \/ MarkPurged(Cron)

Next ==
    \/ \E p \in Processes : Execute(p)
    \/ CronStep
    \/ \E p \in Workers, i \in Invoices :
          \/ \E action \in Actions : Operate(p, i, action)
          \/ \E n \in Keys : Settle(p, i, n)
    \/ \E c \in Charges, outcome \in {"SUCCEEDED", "FAILED"} : Decide(c, outcome)
    \/ NextDay

Spec == Init /\ [][Next]_vars

-----------------------------------------------------------------------------
\* No account is suspended or purged before a third attempt has been charged,
\* whichever process finds the failure, in whatever order the answer to a
\* charge, its webhook and the daily cycle arrive
\* (payment_provider.go:222-225, :338-343; dunning.go:311-313).
SuspensionIsEarned ==
    \A i \in Invoices :
        invoice[i].dunning \in {"SUSPENDED", "PURGED"} => charge[<<i, 3>>] # "NONE"

\* No account is purged before the last day of its cure window
\* (dunning.go:253-255).
PurgeAwaitsCure ==
    \A i \in Invoices : invoice[i].dunning = "PURGED" => day >= invoice[i].due

\* A purge is final: a partner with a purged invoice is archived and its
\* subscription cancelled, whichever of its other invoices is suspended, paid or
\* recovered before, during or after the purge, and whichever statement of them
\* fails: Partners refuses to purge one that a recovery has reopened and to
\* reopen one that is archived, and neither a recovery nor a suspension writes a
\* cancelled subscription (dunning.go:200-248, :266-272).
PurgedIsFinal ==
    (\E i \in Invoices : invoice[i].dunning = "PURGED")
    => partner.lifecycle = "ARCHIVED" /\ partner.subscription = "CANCELLED"

\* Its entitlements stay withdrawn as well, unless a second invoice of the partner
\* was suspended: that one has no previous lifecycle to restore, so no refusal
\* stops its recovery from entitling the archived partner (dunning.go:235-239).
PurgedIsClosed ==
    \A i \in Invoices :
        /\ Idle /\ invoice[i].dunning = "PURGED"
        /\ \A j \in Invoices \ {i} : invoice[j].previous = "" /\ invoice[j].due = NoDay
        => partner = [lifecycle |-> "ARCHIVED", entitled |-> FALSE,
                      subscription |-> "CANCELLED"]

\* Attempts 2 and 3 are charged on their days, although two requests may both
\* have read an invoice as APPROVED, any collection may meet the daily cycle's,
\* and a refused charge is repeated by it: the ledger's index lets one of the
\* requests start a collection (central6.go:97, :730; dunning.go:51-61).
RetriesFollowSchedule ==
    \A i \in Invoices :
        /\ charge[<<i, 2>>] # "NONE" => day >= SecondOffset
        /\ charge[<<i, 3>>] # "NONE" => day >= ThirdOffset

\* A partner is suspended only when the third attempt has failed.  Violated:
\* the late webhook of an earlier attempt suspends as soon as the third is
\* counted, whatever becomes of it.
ThirdFailureSuspends ==
    \A i \in Invoices :
        invoice[i].dunning = "SUSPENDED" => charge[<<i, 3>>] \notin {"NONE", "PROCESSING"}

\* While the latest verified failure is the first or the second, and the day's
\* cycle has run, the subscription of an unpaid invoice is not ACTIVE.
\* Violated: a webhook that is settled before its charge is counted (because
\* the answer to the charge is still under way, or was lost) finds attempt 0,
\* for which nothing becomes past due and nothing is retried.
FailureIsPastDue ==
    \A i \in Invoices, n \in 1..2 :
        Idle /\ cycled /\ invoice[i].workflow = "SENT"
        /\ charge[<<i, n>>] = "FAILED" /\ report[<<i, n>>] = "SETTLED"
        /\ charge[<<i, n + 1>>] = "NONE"
        => partner.subscription # "ACTIVE"

\* A partner whose invoice was paid before the cure window ended is not purged.
\* Violated: recovery is attempted by the daily cycle, which declines it once
\* the window is over and then purges the paid invoice's partner.
PaidInWindowIsKept ==
    \A i \in Invoices :
        invoice[i].dunning = "PURGED" /\ invoice[i].status = "PAID"
        => invoice[i].paidAt >= invoice[i].due

\* A paid invoice stays paid.  Violated: "cancel" has read the workflow before
\* the payment and writes CANCELLED over it.
PaidStaysPaid ==
    [][\A i \in Invoices : invoice[i].status = "PAID" => invoice'[i].status = "PAID"]_vars

\* Nobody is suspended unearned or purged early, and a purge is final, whatever
\* overlaps and whichever step fails.
DunningSafe ==
    /\ TypeOK
    /\ SuspensionIsEarned
    /\ PurgeAwaitsCure
    /\ PurgedIsFinal

\* Retries keep their days, and a purge withdraws what the partner was entitled
\* to, in whatever order requests, webhooks and the daily cycle write.
DunningInOrder ==
    /\ RetriesFollowSchedule
    /\ PurgedIsClosed
=============================================================================
