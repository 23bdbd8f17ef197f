# HiMate: formal model of the control-plane services

TLA+ specifications, TLC configurations and TLAPS proofs for the Go services
under `src/services`. They cover the parts where money, invoices, data and
partner access depend on several processes agreeing: events and outbox, tenant
invoices, payments, every way a partner is billed and collected from, its
lifecycle and onboarding, its site and its data, deployments and backups, and
who may sign in and see what. Every definition is written from the Go code;
`PROJECT.json` maps it to the lines it stands for.

## 1. The system

The back office is a set of small HTTP services around one PostgreSQL server, a
schema per service. `gateway` is the only public one; the others are called with
an internal token, and the automation routes with an HMAC signature. There is no
broker: services call each other synchronously, or through database tables that
a loop in some process polls. Any service may run more than once and may be
restarted at any time. Concurrency is therefore between HTTP handlers, polling
loops and daily cycles of several processes that share rows; what isolation
there is comes from single SQL statements, explicit transactions, `FOR UPDATE`,
unique indexes and leases. Most handlers read a row, decide, and write it by id
in a later statement.

| Component (`src/services/cmd/…`) | State | Operations that change it | Talks to |
|---|---|---|---|
| `automation` | subscriptions, events, deliveries | subscribe, publish (with replay detection and fan-out), claim, ack, fail | called by producers and consumers |
| `internal/automation` (outbox) and the relay loop of `tenantfinance/main.go` | `automation_outbox.events` | enqueue in the business transaction, claim, publish, mark, fail | automation |
| `tenantfinance` | policies, invoices, invoice events | policy PUT, draft create/edit/finalize, automated creation | automation (consumer and outbox) |
| `payments` | attempts, webhook events, payment profiles | charge, Stripe webhook | Stripe, billing |
| `billing` | terms, licence, mode, plans with their price ledger, plan and module subscriptions, items, invoices, settlements, review | terms, licence and mode requests, plan changes, generation by plan and by module, invoice workflow, review, collection, dunning, daily cycle | payments, partners, catalog |
| `partners` | partner rows, lifecycle history, compliance archives | create, PATCH, purge | billing (gate) |
| `catalog` | modules and their relationships, a partner's modules, prices and their history | edits, plan application, reconciliation, activation, price changes | billing, gateway |
| `cms` | pages, immutable versions, themes | draft, preview, publish, rollback | – |
| `runtime`, `environments`, `provisioning` | deployment intents, environments, fifteen-step jobs | deploy, verify domain, launch, resume | deployment provider, each other |
| `connector` | credentials, batches, nonces | signed ingest, routing, reconciliation | impact |
| `backups` | restore points, tests and jobs | create, test, restore, expire | artifact store |
| `gateway` | users, sessions, audit intents, onboarding sagas, snapshots | login, session control, saga steps, routing | all |
| `storage`, `evidence` | a directory per partner, evidence rows and their links | upload, archive, restore, verify, link | backups, billing, reports |
| `reports` | report jobs with a frozen snapshot | create, process, regenerate, requeue at start | impact, evidence, storage |
| `impact`, `notifications`, `contact`, `health` | rows per request | create, transition, poll | – |

`frontend/lib` (Dart) is a client of the gateway and `scripts` is audit tooling.

### What is hard here

* **Leases without tokens.** Automation deliveries and outbox rows are claimed
  for a time; nothing in ack, fail or mark says which claim it belongs to.
* **Read, then write by id.** The fail handler of a delivery, PATCH of a partner,
  the workflow actions of an invoice, both updates of a payment attempt.
* **Lost answers and retries.** Relay to automation, consumer to automation,
  charge to Stripe, webhook to Payments to Billing.
* **Long non-transactional sequences over services.** Suspension, recovery and
  purge write Billing, Partners and Catalog one after another, and are driven by
  the daily cycle, by operators and by webhooks at the same time.
* **Restarts.** PROCESSING rows whose owner died, PENDING attempts, restored job
  queues in backups, reports and provisioning; an invoice made and its next date
  not yet moved.
* **Things kept in memory.** Screens the gateway has read from other services, and
  the failed sign-ins it counts.
* **Dates.** Prices from a day on, yearly increases, periods that end while a
  request is under way.

`PROJECT.json` lists these as hazards with the line where each bites and the
property that watches it, or the reason why none does yet.

### What makes each component correct

* *Automation log*: a producer that repeats its request is told "duplicate";
  only exhausted deliveries are given up; a settled delivery stays settled.
* *Outbox relay*: a row is closed only when the log has the event, for good, and
  every row is closed in the end.
* *Tenant invoices*: one invoice per source, announced exactly once, complete
  and frozen when final; a success that is reported is stored.
* *Pipeline*: a source is billed at most once with the content of its first
  event, and announced at most once, only after it exists; every delivery ends.
* *Payments*: no provider request without a persisted attempt; no success
  without a signed event; no event marked processed that Billing did not settle;
  every event settled in the end.
* *Dunning*: retries on their days, suspension only after the third attempt,
  purge only after the cure window and never of a partner that paid within it; a
  purge final, whatever becomes of the partner's other invoices.
* *Partner lifecycle*: only permitted transitions; every archival has its
  compliance snapshot.
* *Pages, site, brand*: only what was previewed is published, a publication misses
  an edit only when the two overlap, pages and media agree.
* *Ingest*: what was accepted is kept, what says routed is there, holds and
  deletions reach both services.
* *Launch, runtime, provisioning*: a launch went through its gate; one deployment
  per request; a job is worked on once at a time, each step after the ones before it,
  even where a result could not be written.
* *Onboarding and review*: one partner with one version of its terms, complete or
  resumable; a portal opens only for who has paid or is supported.
* *Backups*: a completed restore left the data of its point, a failed one no half.
* *Files and evidence*: a restore that fails loses nothing, an archive is whole, evidence
  has its file, an archived partner's media stays.
* *Reports*: what can be downloaded is stored, and row, snapshot, document and links
  are of one run.
* *Identity*: sessions end with what they rested on, an e-mail has one user, an
  owner is left; what ran in the portal was assigned, enabled and paid for.
* *Screens*: no screen goes back in time, and none loses to an outage what the code
  means to keep; a change that asks for a refresh is shown.
* *Entitlements and prices*: what is active is entitled and follows the plan; list,
  portfolio and quote agree; what was charged for the past stays.
* *Billing by plan and by module*: no day is charged twice, none is left out, and
  each at the price fixed for it.
* *Contract*: a licence is paid only by what the provider confirmed; a charity was
  approved; the provisioning gate opens on what was paid or waived.
* *Amounts*: an invoice adds up in 64-bit integers.

## 2. Modules

| Module | Models | Role |
|---|---|---|
| `AutomationLog` | `automation/main.go` | component |
| `OutboxRelay` | `internal/automation/outbox.go`, relay loop | component |
| `TenantInvoices` | `tenantfinance/storage.go` | component |
| `InvoiceOnce` | – | abstract specification of the pipeline |
| `InvoicePipeline` | `tenantfinance/automation_consumer.go` | composes the three components, implements `InvoiceOnce` |
| `Payments` | `payments/main.go` | component |
| `Dunning` | `billing/dunning.go`, `payment_provider.go`, parts of `central6.go`, `plans.go` | component with its view of Payments, Partners and Catalog |
| `PartnerLifecycle` | `partners/main.go`, `compliance_archive.go` | component |
| `InvoiceMath` | `tenantfinance/domain.go` | algorithm, against exact arithmetic |
| `PlanBilling`, `PlanPrices` | `billing/plans.go` | components |
| `ModuleBilling` | `billing/main.go`, `commercial_automation.go` | component |
| `CommercialTerms` | `billing/main.go`, `commercial_modes.go` and the settlement of a licence | component |
| `PortalGate` | `billing/central6.go` | component |
| `Entitlements`, `ModulePrices` | `catalog/main.go`, `central5.go`, `plans.go`, `partner_portal.go` | components |
| `CmsPages`, `CmsSite` | `cms` | components |
| `Ingest` | `connector/start22_*.go`, `impact` | component |
| `Launch`, `Runtime`, `Provisioning` | `environments`, `runtime`, `provisioning` | components |
| `Onboarding`, `AuditOutbox` | `gateway/phase2_durability.go` | components |
| `Backups` | `backups` | component |
| `MediaStore` | `storage`, uploads in `evidence`, commercial documents in `billing/main.go` | component |
| `Reports` | `reports`, links and queries in `evidence` | component |
| `Identities`, `SignIn`, `PortalAccess` | `gateway/main.go`, `partner_portal.go`, `security_phase4.go`, `partner_user_modules.go` | components |
| `ScreenSnapshots` | `gateway/central10.go`, `central_step*_snapshots.go`, `dashboard_snapshot.go` | component |
| `…Proofs` | – | theorems about the modules they extend |
| `MC…` | – | values TLC needs for the modules they extend |

Conventions. Actions have the name of the Go function where there is one. An
operator whose comment begins "Mutation of X" is a variant of `X` with a plausible bug;
no specification uses it, it exists to show that a property notices that bug. A
property whose comment says "Violated" or "Not guaranteed" states what one would
expect, or a document promises, and the code does not keep (section 6). Names of
most modules carry a prefix of two letters or the component's name, so that one
MC module can extend several.

Two ways of writing recur. A handler is a record in a function over workers; its
`at` names the statement it stands before, the other fields are what it has read,
and one action performs the statement. And where the code keeps a promise only
if two requests do not overlap in one particular way, a history variable records
that this way was taken (`…Overlap`, `…Excuse`, `…Late`, `…Cut`); the property is
stated outside of it, and a "Not guaranteed" twin without it shows that it is
needed. The exceptions are as narrow as TLC allowed.

### State and actions

**AutomationLog.** `subs`, `events`, `deliveries` are the three tables. A handler
is one database transaction and one action, except `fail`, which selects and
updates in two statements without one: `FailRead` puts the verdict into
`failing`, `FailWrite` applies it. Time is two facts per delivery: `due` and
`leased`. `sent` is a history of the creating request, used by one property.
The environment is open: any consumer may ack or fail any of its deliveries at
any time, which includes workers whose lease is long gone.

**OutboxRelay.** `outbox` is the table; `batch` and `call` are what a relay holds
in memory; `wire` holds requests that may be handled after their sender gave up.
`stamp` counts how often `available_at` was rewritten: it is in the envelope the
log hashes, so only equality of stamps matters. `log` is what the Automation
service has stored.

**TenantInvoices.** `invoices` holds records whose `content` stands for customer,
lines, currency and terms; `hash` is the content of the first request
(`draft_hash`). `finalizeManual` and `createAutomatedReady` read outside a
transaction and decide again inside one, so each is a `job` with a program
counter: lookup, policy, recheck, insert or commit. The unique indexes are
`UniqueViolation`. `ready` counts READY_FOR_ISSUE events and `enqueued` outbox
rows.

**InvoicePipeline.** Instances of the three modules, sharing state where the code
shares tables: the log a relay publishes to is `events`, the enqueued invoices
are the outbox rows. The consumer adds what a worker holds (`todo`, `current`).
Every lost call, crash, or lease outlived by a worker that still holds it counts
against `MaxFaults`. Upstream producers are not in the repository; they publish
any event.

**Payments.** `attempt`, `inbox` and `settled` are tables (the last is Billing's);
`intent` and `emitted` are Stripe's side. Each SQL statement and each remote call
is an action, since no transaction spans two of them. A handler may die anywhere.

**Dunning.** `invoice` is the invoice row; `partner` is the lifecycle (Partners),
the entitlement (Catalog) and the subscription (Billing); `charge` and `report`
are Payments and its webhook per attempt. Each process (the daily cycle, an
operator or settlement request) has a `program`, the statements it still has to
execute: a call is replaced by the statements of its body, an error drops the
statements up to the caller that ignores it. A charge is known by invoice and
number of attempt; number 0 is the charge made when the dunning columns could not
be read. `ledger` holds the actions whose entry the ledger's unique index allows
once. A partner has any number of invoices. Days are counted from the invoice
date; a request ends on the day it began, and a cycle may be missed.

**PartnerLifecycle.** A request reads the row, checks the transition, and writes
the row by id in a transaction of its own. `archive` is the number of history
rows in the compliance snapshot.

**InvoiceMath.** `calculateItems`, one action per line, with Go's wrapping sums and
truncating division. The constants stand for 2^63 - 1 and the limits of a line,
scaled down together.

**PlanBilling, PlanPrices.** The subscription row, the invoices by their key (kind,
first day, plan), and cycles that read who is due, each partner, make the
invoice in one transaction and move the date in another. Prices are an
append-only ledger; a request that reads a price first adds the increases that
are missing.

**ModuleBilling.** A module's subscription, the price fixed per period, the item that
charges it and the invoices that collect items; a cycle and a summary go through
the same statements.

**CommercialTerms.** Terms (locked and versioned), licence, mode and charity
selection (written as read), the provider's settlement, the call that tells the
catalogue, and the gate that lets provisioning begin.

**PortalGate.** The review row with its table of transitions, moved by
administrators and, after its invoice was made, sent or paid, by a step of the
invoice's handler. Two columns of the row (state and portal) are related.

**Entitlements, ModulePrices.** A partner's row per module, with the plan's policy
that every request reconciles first, PATCHes that write what they read, and
activation. The price history and the three queries that answer from it; instants
are midnights and noons of numbered days.

**CmsPages, CmsSite.** Immutable versions and three pointers per page, each handler
read and commit; settings rows with a version; brand media.

**Ingest.** Batches, records and Impact's values, with routing, holds, deletion and
retention of all three, each request droppable between any two steps.

**Launch, Runtime, Provisioning.** The environment row and its gate; intents keyed by
request with an external provider; a job of fifteen steps under an advisory lock,
whose rows are written by statements any of which may fail with its error dropped
(`PvDrops`); `pvSeen` remembers which steps were performed and that one was not
recorded.

**Onboarding, AuditOutbox.** The saga over Partners, identity and terms with
resumption by any gateway; intents, outcomes and the recovery at start.

**Backups.** Points, one restore job with safety point and rollback, a database that
is replaced by renames, restarts that requeue.

**MediaStore.** A path that names a directory with its objects and temporary files,
directories renamed away, and requests that each file operation may find another
directory under. `stLock` is the compliance archive with what it found.

**Reports.** One row, its document and its links; makers that claim the row once and
write it without asking again; a start that requeues. `rpAlone` records whether
two makers ever overlapped.

**Identities, SignIn, PortalAccess.** Two tables of users with sessions and reset
tokens; the bounded map of failed attempts and the second factor; the five reads
before a module operation.

**ScreenSnapshots.** One screen of any of the kinds: memory, stored copy, the
refresh that reads the parts, the signal that asks for one, and the merges. A change
either asks for a refresh (`SsChange`, `SsSignal`) or is one of those for which
`invalidateCentral10Caches` has no case (`SsQuiet`). Of the dashboard, the blocks
that keep their data, the activity block and the partner block's trend are kinds of
their own, as a failed read does something else to each.

## 3. Runs

| Run | Exercises | Distinct states |
|---|---|---|
| `pipeline` | 2 upstream events of one source with 2 contents, 2 workers, 1 fault: refinement of `InvoiceOnce`, acks and announcements | 155 k |
| `pipeline_live` | 1 event, valid or not, 1 worker, 1 fault, lost answers: every delivery settles | 5 k |
| `relay` | 1 row, 2 relays, lost answers, 2 put-backs, 1 crash: safety and liveness | 15 k |
| `payments` | 1 key, 2 chargers, 1 webhook handler: safety and settlement of every event | 13 k |
| `dunning` | the daily cycle, with 1 invoice, 1 request and 1 fault in 5 days or 2 decisions of the provider in 4; 1 invoice and 2 requests in 3 days; 2 invoices of a suspended partner, 1 request, and 1 decision and 1 fault or 2 decisions | 1.1 M |
| `billing` | `ModuleBilling` (2 runs, 2 requests, 4 days), `PlanBilling` (2 cycles, 2 requests, 5 days), `Entitlements` (3 requests, 2 at a time), `CommercialTerms` (3 handlers, 2 at a time) | 1.2 M |
| `commerce` | `TenantInvoices` (2 ids, 1 source, 2 keys, 3 contents, 2 policies, 2 workers), `InvoiceMath` (2 lines of 500), `PlanPrices` (2 requests, 3 years of 2 days), `ModulePrices` (3 requests, 3 days) | 1.0 M |
| `content` | `AutomationLog` (1 event, 2 consumers, limit 2, 3 claims, 2 open fails), `CmsPages`, `CmsSite`, `Ingest` (2 batches, 2 requests, 3 begun) | 0.8 M |
| `operations` | `Launch`, `Runtime`, `Provisioning`, `Onboarding`, `AuditOutbox`, `ScreenSnapshots`, `PortalGate`, two processes each | 1.5 M |
| `platform` | `PartnerLifecycle`, `Backups`, `MediaStore`, `Reports`, `Identities`, `SignIn`, `PortalAccess`, two requests or workers each | 1.4 M |
| `relay_resend`, `dunning_cure` | the disagreements of section 6 | |

The passing runs from `billing` to `platform` each exercise several components that share no
variable: a variable `subject`, chosen at the start, says which one a behaviour
is about, and the others keep one initial state. This checks the components as
runs of their own would; interleaving them would multiply the states and show
nothing, as no property relates two of them. Where components do share state, in
the event-to-invoice pipeline and inside `Dunning`, they are composed.

In these runs a component's properties are one conjunction, `…Safe`, defined with a
comment at the end of its module from named parts that are each stated and
explained before it (`CmsSafe` and `DocumentsSafe` join those of two modules): TLC
names the conjunct that fails, so nothing is lost by it.
Parts that are action properties make the conjunction a temporal formula, still a
safety property. The type invariants of the four modules with proofs are proved
(section 5) and not run.

Why the bounds are enough:

* *log*: fan-out to two consumers shows that rows do not disturb each other. Two
  attempts and three claims reach retry, exhaustion and a claim past exhaustion;
  two open fail handlers overlap each other, an ack and a new claim.
* *relay*: rows share nothing but a relay's batch, and a batch of one still has
  the claimed, called, answered and abandoned states; two relays give the stale
  one. The proofs in section 5 lift the safety part to any number of rows.
* *invoices*: a race on a source or a key has two parties; the user key may be the
  automated one, the only way a manual draft meets the automated index.
* *pipeline*: two events of a source give repetition and conflict. `LostAnswers`
  is off in the run with two workers, as the relay has its own run; it is on in
  `pipeline_live`.
* *payments*: the idempotency key is the only thing requests share; two chargers
  race on it. One webhook handler can still abandon a delivery and start it again.
* *dunning*: offsets 1 and 2 and a window of 1 day stand for 2, 5 and 30; what
  matters is their order and a day between them. The fifth day (4) is the first
  after the earliest cure window. A charge refused at once is answered
  REQUIRES_ACTION: FAILED differs only in that the provider never completes it
  later, which the model permits for REQUIRES_ACTION too. One fault reaches every
  statement; a second makes no new kind of state but exceeds the time. `MCDunning`
  joins five instances, since all bounds at once are beyond TLC here; each is a part
  of the behaviours of `Dunning`. Two invoices from their beginning are beyond it as
  well, so that instance starts where they come to matter: the first has suspended
  the partner, and the third charge of the second is undecided. `SuspensionsAreEarned`
  (section 5) holds for any number.
* *lifecycle*: the five targets are a step forward, a step back, the two states
  Billing asks for, and LIVE; four history rows hold a suspension, an archival and
  a write that undoes it.
* *plan and module billing*: a month and a module's cycle are 2 days and a year 4,
  so a period has an inside, and two periods and their seam fit in the days; two
  plans give an upgrade and a downgrade; two cycles overlap each other and a
  request.
* *prices*: a plan's prices 1 and 3 under a factor of 2 never meet by accident
  before the second increase; three turns of the year let an increase come late. A
  module's reference price differs from both that may be set; three PATCHes are two
  that overlap and one that shows what they did.
* *amounts*: 1023, 2, 20, 11 and 10 keep the code's proportions: the largest gross
  product is about a ninth of the largest integer, the largest tax product just
  above it, and all sums far below. The lines are on both sides of each limit and
  of a half, and one passes the guard of its tax within the half added to round.
* *contract*: three handlers are a payment, the edit that read before it, and one
  more; the edits carry each field both ways. `TermsAreKept` (section 5) holds for
  any number.
* *review*: one invoice and two handlers reach every cell of the transition table,
  and each handler may lose its last step. More invoices give no new way to have
  paid.
* *entitlements*: a module that requires or conflicts with another one, a plan that
  grants one of the two, and the unlimited one; three requests are two that overlap
  and one that reads the result.
* *screens*: each part changes once, asking for a refresh or not, and of three
  refreshes or requests two overlap; all kinds of screen are initial states.
* *pages, site*: two pages share a slug; three and four versions hold a draft, its
  preview, its publication and a rollback while another draft is saved.
* *ingest*: two batches that share a record but not its contents; three requests
  begun are a batch, a repetition, and a hold or deletion between them.
* *launch, runtime, provisioning, onboarding, audit*: two processes overlap, and
  the number of starts lets one die, the other take over and die, and one more
  start; two keys show that deployments do not mix. A provisioning job has two posts
  and two runs, one of which may recover the other's, and one dropped statement, which
  may be any.
* *backups*: three points are one restored, its safety point, and a newer one that
  prunes; one restart requeues.
* *media*: two uploads, of which one runs into a restore or an archive and one is there
  before it; two restores that may overlap, one archive, one death.
* *reports*: two makers overlap, a start requeues, three snapshots tell their documents
  apart; a page of one is exceeded by the second evidence.
* *identity*: two portal users may both be owners, the third e-mail is free; a map of
  two entries and three keys is full; clock 3 passes window and block.

Deadlock is not checked: each of these systems really stops, when every row is
closed and nothing is left to do, or when its bound of requests, faults, restarts
or days is used up.

### Fairness

* *relay, pipeline_live*: weak fairness of each relay and consumer loop, of the
  receiving service and of time. The loops run on tickers for the life of their
  process and a crash is followed by a restart with empty memory; an HTTP server
  answers what it accepted; `available_at` and `lease_until` are reached. Lost
  calls and crashes have no fairness and are bounded, as a network that fails for
  ever guarantees nothing.
* *payments*: strong fairness of receiving each issued event and of each statement
  of its handling. Stripe repeats a delivery until it is answered 2xx, so it is
  received again after any abandoned one; deaths and refusals of Billing remain
  possible at every delivery but do not meet all of them. That leaves out settlements
  Billing refuses every time (an invoice or licence that is not there, a licence that was
  waived, an amount that differs: `payment_provider.go:122`, `:165`), which no repetition
  settles. No fairness for charges.

## 4. What the checks show

Each property of a passing run is paired in `PROJECT.json` with a mutant, a
variant of a definition that carries a plausible bug, under which TLC finds the
property violated: the run reaches the case the property is about. All actions
of all next-state relations are taken.

`BillsOnce` is a refinement: under the mapping `billed` (the content of a source's
invoice) and `announced` (sources whose ready event the log has), every step of
the pipeline is a step of `InvoiceOnce` or a stutter, with competing workers,
conflicting duplicates, lost answers and expired leases.

Some results are not what the code suggests at first reading:

* `InvoiceMathSafe`: the guard of the tax (`domain.go:289`) leaves no room for the
  half that is added to round, so a tax can wrap and be negative after it passed;
  the check of the sums refuses it all the same, because its own right side wraps
  as well (L294). No accepted invoice is wrong, although not for the reason the
  guards give (`ImGuardsSuffice` is violated).
* `CtPublishedIsReady`: two overlapping edits of a module lose one of them, and yet
  never publish a module that is not ready.
* `TmGateIsEarned`: the provisioning gate opens on what was paid or waived although
  its three reads are apart and two of their rows are written without a lock.
* `PbNoGap`: every day before the next billing date is billed, owed or was free,
  however cycles overlap, stop, or come days late.
* `SsForward`: without its two exceptions, the merge of a module and a request
  whose entry was dropped, no screen goes back in time.
* `MpListIsQuote`: the list, the portfolio and the quote, three separate queries,
  agree about now in every reachable history.

## 5. What is proved

`tlapm` checks the `…Proofs` modules for every value of the constants.

| Module, about | Inductive invariant | Corollaries |
|---|---|---|
| `AutomationLogProofs` | `LogInv` = `TypeOK`, `RowsHaveEvents`, `FailingJustified`, `DeadLetterOnlyExhausted` | `LogTypeCorrect`, `DeadLettersAreExhausted`, `RepetitionsAreDuplicates`, `OnlyFailUnsettles` |
| `OutboxRelayProofs` | `RelayInv` = `TypeOK`, `AnswerIsLogged`, `PublishedIsLogged`; over it `OriginInv` | `RelayTypeCorrect`, `PublishedRowsAreLogged`, `PublishedRowsAreFinal`, `RequestsComeFromTheOutbox` |
| `TenantInvoicesProofs` | `InvoiceInv` = `StoreInv`, `JobTypeOK`, `JobsArePrepared`, `SuccessMeansInvoiced` | `InvoiceTypeCorrect`, `SourcesAreBilledOnce`, `ReadyEventsAreExact`, `FinalInvoicesAreComplete`, `SuccessIsInvoiced`, `FinalInvoicesAreFrozen` |
| `PipelineProofs` | `PipelineInv` = the three above, `OriginInv`, `WorkInv`, `AckedMeansInvoiced` | `TheBusTellsTheTruth`, `ComponentsKeepTheirSpecs`, `BackboneBillsOnce` (the refinement of `InvoiceOnce`) |
| `PipelineProofs`, `CommercialTerms` | `TmInv` = `TmRows`, `TmHeld`, `TmGrants` | `TermsAreKept` |
| `PipelineProofs`, `ModuleBilling` | `MbInv` = `MbTyped`, `MbHeld`, `MbBooks`, `MbSquare` | `ModulesAreBilledOnce` |
| `PaymentsProofs`, `Payments` | `PayInv` = `PayTypeOK`, `HookInv`, `ChargeInv` | `PayTypeCorrect`, `ProcessedEventsAreSettled`, `RequestsArePersisted`, `SuccessHasEvidence` |
| `PaymentsProofs`, `PlanBilling` | `PbInv` = `PbTyped`, `PbBlank`, `PbHandlersOk`, `PbOrderly`, `PbFilled`, `PbOwedIsHeld`, `PbBilledIsPassed` | `PeriodsAreBilledOnce` |
| `PaymentsProofs`, `PortalGate` | `PgInv` = `PgTyped`, `PgSentIsEntered`, `PgHandlersOk`, `PgRowOk` | `ApprovalsAreEarned` |
| `PaymentsProofs`, `Entitlements` | `CtInv` = `CtTyped`, `CtRowsOk`, `CtRowsAreMade`, `CtApplicationsOk`, `CtLocksHold`, `CtPublishedIsReady`, `CtPlanIsPolicy` | `PlansDecideEntitlements` |
| `PaymentsProofs`, `InvoiceMath` | `ImInv` | `InvoicesAddUp` |
| `PaymentsProofs`, `PlanPrices` | `PpInv` = `PpTyped`, `PpYearly`, `PpHolds` of every handler, what was read after the increases, `PpExact` | `PlanPricesAreKept` |
| `PaymentsProofs`, `ModulePrices` | `MpInv` = `MpTyped`, `MpBase` | `ModulePricesAreKept` |
| `PaymentsProofs`, `MCCommerce` | `CommerceInv` = the three above | `AmountsAreKept` |
| `GatewayProofs`, `AuditOutbox` | `AuInv` | `AuditIsSafe` |
| `GatewayProofs`, `Onboarding` | `OsInv` | `OnboardingMakesOnePartner` |
| `GatewayProofs`, `PortalAccess` | `PaInv` | `RunsAreEarned` |
| `GatewayProofs`, `Identities` | `IdInv` | `SessionsEndWithTheirGround` |
| `GatewayProofs`, `SignIn` | `SiInv` = `SiThrottleInv`, `SiFactorInv` | `SignInsAreContained` |
| `GatewayProofs`, `ScreenSnapshots` | `SsInv` = `SsTyped`, `SsHeld`, `SsSingle`, `SsFollows`, `SsFresh` | `ScreensAreCurrent` |
| `PartnerProofs`, `PartnerLifecycle` | `LifecycleInv` = `LifecycleSafe`, `HandlerIsSecured` | `ArchivalIsSecured` |
| `PartnerProofs`, `Backups` | `BkInv` | `RestoresLoseNothing` |
| `PartnerProofs`, `Ingest` | `IgInv` = `IgTyped`, `IgAcceptedIsKept`, `IgRouted`, `IgHonest` of every record | `ConnectorAndImpactAgree` |
| `PartnerProofs`, `MediaStore` | `StInv` = `StTyped`, `StRequestsOk`, `StNamesNothing`, `StNumbered`, `StIsPut`, `StPointOk`, `StStoredOk`, `StRowsOk`, `StLockOk` | |
| `PartnerProofs`, `Reports` | `RpInv` = `RpTyped`, `RpStoredOk`, `RpHas` of every maker, `RpAloneOk` | |
| `PartnerProofs`, `MCPlatform` | `PlatformDocuments` = the two above | `DocumentsAreKept` |
| `DeploymentProofs`, `Runtime` | `RtInv` | `OneTriggerPerRequest` |
| `DeploymentProofs`, `Provisioning` | `PvInv` = `PvTyped`, `PvLockIsHeld`, `PvInTurn`, `PvAllHaveCome`, `PvEffectsHold`, `PvFinishedIsAll`, `PvCopiesAgree`, `PvIsAttended` | `OneWorkerProvisions` |
| `DeploymentProofs`, `Launch` | `LnInv` | `LiveIsEarned` |
| `DeploymentProofs`, `CmsPages`, `CmsSite` | `CmsInv` = `CmsTypes`, `CmsPointers`, `CmsRefsFollow`, `CmsVersionOk`, `CmsRequestOk`; `SiteInv`; `BrandInv` | `VisitorsSeeWhatWasPublished` |
| `DeploymentProofs`, `Dunning` | `DnInv` = `TypeOK`, `DnRow` of every invoice, `DnSelected` of those the day's cycle has selected, `DnFit` or `DnClose` of every statement, `DnChained` programs | `SuspensionsAreEarned` |

Every proof has the same shape: the parts of the invariant are named, a lemma per action
shows that the action keeps them, `…StepInv` collects the lemmas over the next-state
relation, and the theorem follows by the temporal rule. TLC checked each invariant on a
small instance before it was proved.

Why the strengthenings are needed:

* *Log.* A fail handler writes DEAD_LETTER from a verdict reached earlier.
  `FailingJustified` says that a running handler with that verdict belongs to a
  delivery that is exhausted already; since `attempts` only grows and the limit
  of a delivery with an event (`RowsHaveEvents`) is never rewritten, it still is
  when the write happens.
* *Relay.* A relay marks a row on the strength of an answer it holds in memory:
  `AnswerIsLogged` ties every "ok" to the log, which never forgets. `OriginInv` says that
  whatever is held, on the wire or stored was taken from a committed row.
* *Invoices.* `JobsArePrepared` says what an intake or a finalization may rely on between
  its read and its commit (its content is complete, its policy is read); `StoreInv`
  includes that unused ids carry no event, without which drawing one could
  announce an invoice twice.
* *Pipeline.* `WorkInv` says that what a worker carries is a delivery of the log and that
  its intake is of that delivery's intent. `ComponentsKeepTheirSpecs` shows each step of
  the composition to be a step or a stutter of every component, so the component
  invariants hold here with no second proof; `BackboneBillsOnce` needs them to know that
  an intake which inserts is the first of its source.
* *Contract.* `TmHeld`: what a PUT of the terms is about to write keeps what it does not
  carry, of the version it names; versions only grow. `TmGrants`: unless a grant was lost
  or overlapped, a grant on its way carries what is owed, and what the catalogue lacks is
  on its way.
* *Module.* `MbSquare`: unless a run was overtaken, every price is of a period counted from
  the subscription's first day, or from the activation if there is none, or of one that ends
  before it; and each run that has decided what to price counts from the same day
  (`MbRunFits`). To find it, TLC refuted `MbPeriodsApart` for a third request: a module
  switched off and on keeps its subscription but gets a new activation; a run that lists it,
  while another takes it away and ends the subscription, prices a period counted from that
  activation, which overlaps the one that is paid. This is now among the exceptions
  (`MbRead`). `MbTotalsAdd` needs that an item on an invoice has its amount already
  (`MbInvoicedIsCharged`), and that a sum depends on the amounts alone.
* *Payments.* `HookInv` and `ChargeInv` say what a handler at each statement has persisted.
* *Plan billing.* `PbOrderly`: the periods billed or being billed lie apart and end by the
  next billing date, but for the one that is due. `PbFilled`: the days before any period a
  cycle is about to pass are charged, so that a stale date written back leaves no gap.
  `PbOwedIsHeld`: what is owed is in the hands of the handler that will charge it.
* *Review.* `PgHandlersOk`: a handler whose row nobody has written since still has an
  allowed transition to write; what it has asked the tables stays true, as a sent invoice and
  documented support are never taken back, and a payment only by an operator who had read the
  invoice before it, which is the exception.
* *Audit.* The recovery of a starting gateway works on the list it has read. `AuInv` says
  that a mutation that is served or listed still has its intent unless two gateways have
  come across it, which is the exception `AuditSafe` makes.
* *Onboarding.* The lock is only worth something if the copy a gateway works on is the
  row: `OsAllGood` says so statement by statement, but for the partner id it has just been
  told of. `OsStored` says that a creation that was cut off left at most one partner, to
  be found again; `OsIsAttended` that an unfinished run has somebody to finish it.
* *Portal.* `PaStagesAreEarned`: each stage of a request carries the answers of the stages
  before it. `PaTablesAgree`: no keys are stored beside the mode that ignores them.
* *Identities.* A change writes the whole row it has read. `IdInv` says that a change that
  nobody has overtaken may still rely on what it has checked (the e-mail is free, another
  owner is left, the role is active, the version is not behind), and that what proves
  identity never changes at an unchanged version. Two changes that overlap set the flag
  under which the guarantees are suspended; that a reset link works once holds with no
  such exception, as its token's row is locked.
* *Sign-in.* `SiThrottleInv`: the map of failures is finite and within its limit before
  anybody enters. `SiAlone`: while no sign-ins overlapped there is one open challenge at
  most, and none sets up a secret once there is one. A challenge whose use could not be
  written (`SiSpendLost`, `security_phase4.go:183`) stays open and counts as an overlap.
* *Screens.* `SsHeld`: what a worker holds is no newer than its source, and older than the
  screen only if that was marked. `SsFollows`: until a refresh is excused, each part that is
  tracked is shown, is being read, or has a refresh that waits for it; a change that asks
  for none is an excuse until a refresh begins after it. `SsFresh`: of the workspace, the
  change that makes it old drops it.
* *Files.* `StIsPut`: whoever took the directory away is there to put one back.
  `StRequestsOk`: what a request has listed or written stays, and a restore drops only what
  is held or was replaced. `StLockOk`: while the archive's lock is on, whatever is new is
  known to be late.
* *Reports.* `RpHas` says what a maker has stored so far; `RpAloneOk` that while no two
  makers overlapped there is one, and what it does not have is on record.
* *Amounts.* `ImInv` is small: the arithmetic is in lemmas about what `ImWrap` and
  `safeRoundDiv` yield under the guards. `PpExact`: a year's price stands on the one before
  it; `MpBase`: one base price explains row and history. That a finite set of times has a
  greatest and a least one is proved by well-founded induction over the naturals.
* *Lifecycle.* A request that has read ARCHIVED asks for no snapshot; `HandlerIsSecured`
  says that one exists.
* *Restores.* `BkProgress` says how much of the data a restore has replaced at each
  statement, `BkAlone` that it is alone. From the moment the services are suspended the
  safety point is off site with the database of before, unless it was pruned (`lost`): so
  the invariant never needs the database that was moved aside, which each start may drop.
* *Ingest.* `IgHonest`: a record on which no requests overlapped is worked on by one, and
  what that one has done at Impact is what its next statement assumes (no value before a
  deletion is noted, every value under the hold before the record is); when nobody works
  on it, connector and Impact agree about the hold. `IgRouted` says of an answer that is
  not noted yet that the value is there.
* *Entitlements.* `CtLocksHold`: what an activation has checked under its row locks still
  holds when it writes, and no two activations hold one module. `CtRowsAreMade`: whoever works
  on the partner's modules found or made all of its rows. `CtApplicationsOk`: an application
  knows which rows lose what they had; a row with a plan is planned (`CtRowsOk`), so that every
  such row is among them.
* *Deployments.* `RtTriggerIsFirst`: a request that is about to trigger is the only one
  and finds no deployment of its key. `RtRequestsAreBacked`: what a request remembers
  (intent, deployment, that it was live) stays so, as these only grow.
* *Provisioning.* What was performed and what is recorded are different sets, since a
  crash falls between the two and a result may not be written. `PvHasCome` says that
  whoever has come to a step has all earlier ones behind it as performed, and as recorded
  unless a result was lost; `PvEffectsHold` what each performed step has left in other
  services; `PvCopiesAgree` that a worker's copy of the preset is the job's unless a
  request changed it meanwhile; `PvIsAttended` that an unfinished job has somebody left to
  look at it unless it was deserted.
* *Launch.* `LnFreshAreInformed`: a request whose row nobody has written since is right
  about what it will write back. The others are the exception `LaunchSafe` makes.
* *CMS.* `CmsRequestOk` says what a publication or rollback still knows at its commit: its
  source is the version it has read, and cleared (valid, on no page that was online), for
  versions are only added and media on record stay. `CmsVersionOk` says the same of each
  version; the conflict check is thus kept as what the request saw, which is why only
  requests that overlap meet on a slug. `SiteInv`: until the row exists everyone has read
  the defaults. `BrandInv`: an upload under way is already the partner's own.
* *Dunning.* The programs are data, so the invariant speaks of the statements in them.
  `DnFit` says what a statement may rely on when its turn comes: that its third attempt is
  charged, or that it suspends no partner whose purge is decided (`DnBound`: selected by
  today's cycle, done, or due today), which no step of a day undecides. That
  a purge is final rests on the order in which the cycle closes the partner: `DnChained`
  says that a statement which cancels the subscription or marks an invoice PURGED may be
  executed at once (`DnNow`), or comes right after the one that makes it so (`DnLeads`);
  an error unwinds past both, to a caller that ignores it. `DnRow` carries what Partners
  and the subscription's UPDATE then refuse to undo: ARCHIVED has no way out, and no
  statement but the purge's writes a CANCELLED subscription or reads it as one to change.
  So a second invoice, suspended, paid or recovered at any time, changes nothing of it. The two facts about the library's `FlattenSeq`
  that are needed, what it yields for sequences of statements and for a single one, are
  proved by the least counterexample.

The assumptions are the named ASSUMEs of the component modules: that placeholders
(`None`, `Omitted`, `AnyScope`, "none" for no worker or owner, 0 for no gateway) are not values,
that bounds are naturals, that `max_attempts` is in 1..50 as the handler enforces, that
distinct sources have distinct automated keys, as the key is made of the source, and that
upstream keys are not ids of invoices. `LnAssumption` types the edits of an environment;
a PATCH may set READY_FOR_LAUNCH or a state the launch does not tell apart, LIVE is
refused (`environments/main.go:294`). `IdAssumption` says that the two tables of users
have no id in common and that the e-mail of the partner's first owner is not the
bootstrap administrator's, which the onboarding refuses (`partner_portal.go:917`).
`ImAssumption` says that the limits leave room for a product with its half, and that the
units of rounding are even, as 1000 and 10000 are. `CtAssumption` types the edits of the catalogue, which carry a status or an
entitlement, never both (`catalog/main.go:901`). `IgAssumption` says that a batch, a JSON
array, is finite, and `DunningAssumption` that the invoices of a partner are. `TmAssumption` types the edits of terms, licence and mode, of which none
carries a negative amount, an unknown mode or what the provider manages
(`billing/main.go:639`, `:801`, `:807`). The bounds are constants, so the safety results hold for all of them.

Only model-checked:

* Liveness (`EveryRowPublishedOrRejected`, `DeliverySettles`, `EmittedIsSettled`), which is
  out of this prover's reach.
* `DunningInOrder`: `RetriesFollowSchedule`, and `PurgedIsClosed`, whose exception is the
  second suspended invoice of a partner: it has no earlier state to restore, so its
  recovery skips the step Partners would refuse and entitles an archived partner again.
* The two disagreements of section 6 (`ResendIsIdempotent`, `PaidInWindowIsKept`), which
  do not hold.

## 6. Where the code disagrees with what is promised

Two runs end in a counterexample; `PROJECT.json` quotes the promise.

* `relay_resend`: after a lost answer the row's new `available_at` makes every
  later publish a 409, so the row is never PUBLISHED (`outbox.go:116`).
* `dunning_cure`: a partner that paid inside the cure window is purged when the
  cycle misses a day (`dunning.go:234`, `:253`).

The modules state more that does not hold. Each is refuted by TLC on the instance
of its module's run, unless another is named; the comment above it says how.

| Module | Not kept |
|---|---|
| `AutomationLog` | `AckedStaysAcked` (a fail handler that overlaps an ack, `automation/main.go:285`), `RetriesAreBounded` (ADR-0006:34) |
| `Payments` | `StatusIsCurrent` (1 charger, 1 handler; `docs/START-23.4_ACCEPTANCE.md:49`) |
| `Dunning` | `ThirdFailureSuspends`, `FailureIsPastDue` (`docs/START-23.11.2_ACCEPTANCE.md:74`), `PaidStaysPaid` (2 workers, 1 day; `docs/CENTRAL-6_ACCEPTANCE.md:31`) |
| `PartnerLifecycle` | `JumpsAreLegal` (a stale PATCH, `partners/main.go:764`) |
| `InvoiceMath` | `ImGuardsSuffice` |
| `PlanBilling` | `PbGenerationIsIdempotent` (a cycle that stopped between an invoice and its next date cannot repeat it, and every later cycle ends there: `plans.go:1007`, `central6.go:97`; `docs/START-23.11.2_ACCEPTANCE.md:67`), `PbUpgradeIsKept`, `PbDateMovesOn` |
| `PlanPrices` | `PpSetIsKept`, `PpShownStays`, `PpNoneIsLate` |
| `ModuleBilling` | `MbEveryPeriodBilled`, `MbCancelIsKept`, `MbTotalIsFinal`, `MbFreeIsNotCharged` |
| `CommercialTerms` | `TmPaymentStays`, `TmChargeIsRecorded`, `TmUnpaidIsPayable`, `TmPageIsHonoured` |
| `PortalGate` | `PgOpensOncePaid`, `PgAlwaysLegal`, `PgPaymentMoves` |
| `Entitlements` | `CtPlanIsAlwaysPolicy`, `CtExcludesConflicts`, `CtMaintenanceHolds` |
| `ModulePrices` | `MpBackdatedIsExact`, `MpFreeIsKept`, `MpStaysQuotable`, `MpTodayIsQuotable`, `MpIncludedIsQuoted` |
| `CmsPages`, `CmsSite` | `CmsSlugUniqueViolated`, `SiteVersionViolated` |
| `Ingest` | `IgNothingPending`, `IgHeldIsThere`, `IgApart` (2 environments) |
| `Launch`, `Runtime`, `Provisioning` | `LnLiveHostWasChecked`, `RtReadyWasLiveAlways`, `RtFailedServesNothing`, `PvNoOrphan`, `PvFinishedIsRecorded` |
| `Onboarding`, `AuditOutbox` | `OsDoneIsComplete`, `OsEditSurvives`, `AuFailureIsTrue` |
| `Backups` | `BkRollbackIsWhole`, `BkDatabaseExists`, `BkSafetyIsKept`, `BkRunningIsWorkedOn` |
| `MediaStore` | `StArchiveIsWhole` (`docs/START-21_ACCEPTANCE.md:6`), `StNothingIsAside` (`docs/CENTRAL-14_ACCEPTANCE.md:40`), `StArchivedIsFinal`, `StEvidenceHasFile` |
| `Reports` | `RpReadyIsWhole`, `RpIsLinked`, `RpHasAllEvidence`, `RpRunningIsMade` |
| `Identities` | `IdPasswordStays`, `IdEmailAlwaysOnce`, `IdOwnerAlwaysLeft`, `IdStartsAgain` |
| `SignIn`, `PortalAccess` | `SiSecretNeverReplaced`, `SiFailuresAdd`, `PaRanAtOneMoment`, `PaRunIsCounted` |
| `ScreenSnapshots` | `SsShownAtRest`, `SsWorkspaceShowsAll`, `SsStoredIsShown` |

## 7. Not modelled

* *Abstracted everywhere*: authentication and signatures, validation that refuses
  a request without changing state, audit and notification writes nobody reads
  back, formatting.
* *Inside modelled services*: payment profiles; the daily cycle over several
  partners; partner categories and
  archive backfill; the descriptive fields of plans, modules, environments and
  pages; Flex selections of modules; preview tokens; what a screen computes from
  its data; the formats of artifacts and documents; exports over the ledger.
* *Made coarser*: the walk of an archive over a partner's media is one step
  (`StList`), where `storage/main.go:146` opens directory after directory; a change in the
  middle of the walk is in the model before or after it.
* *Services*: of evidence and the object store, verification status, evidence without a
  file, purges of test data and the health probe; notifications, contact and health,
  which are rows per request with no interaction. The shared
  libraries are HTTP, secrets and migrations. `frontend` is a client, `scripts` and
  the golden test fixture are tooling.

## 8. Plan

Written, in this order: the event log, outbox, tenant invoices, pipeline, payments,
dunning and lifecycle, with the proofs of section 5; pages, site, ingest, launch,
runtime, provisioning, onboarding, audit, backups, identities, sign-in and portal;
screens, entitlements, billing by module, review, plan billing, contract, prices and
amounts; files and reports.
