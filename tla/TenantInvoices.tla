---------------------------- MODULE TenantInvoices ----------------------------
(***************************************************************************)
(* Tenant invoices of services/cmd/tenantfinance/storage.go: manual drafts *)
(* that a portal user creates, edits and finalizes, and automated invoices *)
(* that the automation consumer creates READY_FOR_ISSUE from an intent.    *)
(*                                                                         *)
(* Finalizing and automated creation first read outside any transaction    *)
(* (the invoice, the issuer profile of another service, the policy) and    *)
(* then decide again inside one, so each is a job of several steps; every  *)
(* commit is one step, and a job may be abandoned before any of its steps  *)
(* with its transaction rolled back.                                       *)
(*                                                                         *)
(* Identity is abstract: a request key stands for (partner, request_key),  *)
(* a source for (partner, source_type, source_id), a content for the       *)
(* customer, items, currency, terms and notes that draft_hash covers.      *)
(***************************************************************************)
EXTENDS Integers, FiniteSets

CONSTANTS
    Ids,        \* invoice ids newID can draw
    Sources,    \* sources of automated invoices
    Keys,       \* request keys portal users choose
    AutoKey,    \* [Sources -> request key]: "AUTO:" + source_type + ":" + source_id
    Contents,   \* invoice contents
    Complete,   \* contents whose customer passes normalizeCustomer(c, TRUE)
    Policies,   \* tenant finance policies
    Workers,    \* goroutines finalizing or consuming
    None

ASSUME InvoiceAssumption ==
    /\ Complete \subseteq Contents
    /\ None \notin Sources \cup Policies \cup Ids
    /\ \A s, t \in Sources : AutoKey[s] = AutoKey[t] => s = t

VARIABLES
    invoices,   \* tenant_finance.invoices
    ready,      \* READY_FOR_ISSUE rows per invoice in invoice_events
    enqueued,   \* invoices whose ready event is in automation_outbox.events
    policy,     \* tenant_finance.policies of the tenant
    job         \* what each worker is doing

invoiceVars == <<invoices, ready, enqueued, policy, job>>

RequestKeys == Keys \cup {AutoKey[s] : s \in Sources}

Invoice == [id : Ids, source : Sources \cup {None}, key : RequestKeys,
            hash : Contents, content : Contents,
            status : {"DRAFT", "READY_FOR_ISSUE"}, policy : Policies \cup {None}]

Idle == [op |-> "idle"]

FinalizeJob == [op : {"finalize"}, id : Ids, policy : Policies \cup {None},
                pc : {"policy", "commit"}]

IntakeJob == [op : {"automate"}, source : Sources, content : Contents,
              policy : Policies \cup {None},
              pc : {"lookup", "policy", "recheck", "insert", "ok", "error"}]

TypeOK ==
    /\ invoices \subseteq Invoice
    /\ ready \in [Ids -> Nat]
    /\ enqueued \subseteq Ids
    /\ policy \in Policies
    /\ job \in [Workers -> FinalizeJob \cup IntakeJob \cup {Idle}]

Init ==
    /\ invoices = {}
    /\ ready = [i \in Ids |-> 0]
    /\ enqueued = {}
    /\ policy \in Policies
    /\ job = [w \in Workers |-> Idle]

-----------------------------------------------------------------------------
Unused == Ids \ {x.id : x \in invoices}

Manual(x) == x.source = None

\* createManualDraft: one transaction whose insert does nothing when the key
\* is taken; the answer is then the existing invoice, or the idempotency error
\* when its hash differs, and nothing changes.
createManualDraft(id, k, c) ==
    /\ id \in Unused
    /\ \A x \in invoices : x.key # k
    /\ invoices' = invoices \cup
          {[id |-> id, source |-> None, key |-> k, hash |-> c, content |-> c,
            status |-> "DRAFT", policy |-> None]}
    /\ UNCHANGED <<ready, enqueued, policy, job>>

\* Mutation of updateManualDraft: the status is not checked again.
updateManualAny(x, c) ==
    /\ Manual(x)
    /\ invoices' = (invoices \ {x}) \cup {[x EXCEPT !.content = c]}
    /\ UNCHANGED <<ready, enqueued, policy, job>>

\* updateManualDraft: checks source type and status under FOR UPDATE, then
\* replaces content and items; draft_hash stays that of the first request.
updateManualDraft(x, c) ==
    /\ Manual(x) /\ x.status = "DRAFT"
    /\ invoices' = (invoices \ {x}) \cup {[x EXCEPT !.content = c]}
    /\ UNCHANGED <<ready, enqueued, policy, job>>

savePolicy(p) ==
    /\ policy' = p
    /\ UNCHANGED <<invoices, ready, enqueued, job>>

-----------------------------------------------------------------------------
\* The statements that make invoice x final, in the transaction that calls
\* appendInvoiceEventTx and EnqueueTx (the key "invoice-ready:" + id is unique).
WriteReady(x) ==
    /\ ready' = [ready EXCEPT ![x.id] = @ + 1]
    /\ enqueued' = enqueued \cup {x.id}

\* finalizeManual reads the invoice first and answers at once unless it is a
\* manual draft.
StartFinalize(w, x) ==
    /\ job[w] = Idle
    /\ Manual(x) /\ x.status = "DRAFT"
    /\ job' = [job EXCEPT ![w] =
          [op |-> "finalize", id |-> x.id, policy |-> None, pc |-> "policy"]]
    /\ UNCHANGED <<invoices, ready, enqueued, policy>>

\* Both jobs read issuer and policy before they open their transaction.
ReadPolicy(w) ==
    /\ job[w] # Idle /\ job[w].pc = "policy"
    /\ job' = [job EXCEPT ![w].policy = policy,
                          ![w].pc = IF job[w].op = "finalize" THEN "commit" ELSE "recheck"]
    /\ UNCHANGED <<invoices, ready, enqueued, policy>>

\* Mutation of FinalizeCommit: the first read's status is relied on.
FinalizeWithoutRecheck(w) ==
    /\ job[w].op = "finalize" /\ job[w].pc = "commit"
    /\ \E x \in invoices :
          /\ x.id = job[w].id
          /\ x.content \in Complete
          /\ invoices' = (invoices \ {x}) \cup
                {[x EXCEPT !.status = "READY_FOR_ISSUE", !.policy = job[w].policy]}
          /\ WriteReady(x)
    /\ job' = [job EXCEPT ![w] = Idle]
    /\ UNCHANGED policy

\* Mutation of FinalizeCommit: the customer is not validated for issue.
FinalizeIncomplete(w) ==
    /\ job[w].op = "finalize" /\ job[w].pc = "commit"
    /\ \E x \in invoices :
          /\ x.id = job[w].id
          /\ x.status = "DRAFT"
          /\ invoices' = (invoices \ {x}) \cup
                {[x EXCEPT !.status = "READY_FOR_ISSUE", !.policy = job[w].policy]}
          /\ WriteReady(x)
    /\ job' = [job EXCEPT ![w] = Idle]
    /\ UNCHANGED policy

\* Under FOR UPDATE the invoice must still be a draft and its customer, as it
\* is now, complete.
FinalizeCommit(w) ==
    /\ job[w].op = "finalize" /\ job[w].pc = "commit"
    /\ \E x \in invoices :
          /\ x.id = job[w].id
          /\ IF x.status = "DRAFT" /\ x.content \in Complete
             THEN /\ invoices' = (invoices \ {x}) \cup
                        {[x EXCEPT !.status = "READY_FOR_ISSUE", !.policy = job[w].policy]}
                  /\ WriteReady(x)
             ELSE UNCHANGED <<invoices, ready, enqueued>>
    /\ job' = [job EXCEPT ![w] = Idle]
    /\ UNCHANGED policy

-----------------------------------------------------------------------------
\* Mutation of Existing: the stored hash is not compared.
ExistingAnyContent(s, c) ==
    IF \E x \in invoices : x.source = s THEN "ok" ELSE "error"

\* The answer when an invoice for the source is there: the same content is a
\* duplicate (success), another one errSourceConflict.
Existing(s, c) ==
    IF \E x \in invoices : x.source = s /\ x.hash = c THEN "ok" ELSE "error"

Taken(s) == \E x \in invoices : x.source = s

\* createAutomatedReady starts with a validated intent: an incomplete customer
\* is refused before the first read.
StartIntake(w, s, c) ==
    /\ job[w] = Idle
    /\ job' = [job EXCEPT ![w] =
          [op |-> "automate", source |-> s, content |-> c, policy |-> None,
           pc |-> IF c \in Complete THEN "lookup" ELSE "error"]]
    /\ UNCHANGED <<invoices, ready, enqueued, policy>>

\* The lookup before and the one inside the transaction are the same query.
\* FOR UPDATE locks nothing when there is no row.
Lookup(w, next) ==
    /\ job' = [job EXCEPT ![w].pc =
          IF Taken(job[w].source) THEN Existing(job[w].source, job[w].content) ELSE next]
    /\ UNCHANGED <<invoices, ready, enqueued, policy>>

FirstLookup(w) == job[w].op = "automate" /\ job[w].pc = "lookup" /\ Lookup(w, "policy")

Recheck(w) == job[w].op = "automate" /\ job[w].pc = "recheck" /\ Lookup(w, "insert")

\* Mutation of UniqueViolation: no unique index on source or request key.
NoUniqueIndex(s) == FALSE

\* The insert fails on either unique index: (partner, source) or
\* (partner, request_key).
UniqueViolation(s) ==
    Taken(s) \/ \E x \in invoices : x.key = AutoKey[s]

Insert(w, id) ==
    /\ job[w].op = "automate" /\ job[w].pc = "insert"
    /\ id \in Unused
    /\ ~UniqueViolation(job[w].source)
    /\ LET x == [id |-> id, source |-> job[w].source, key |-> AutoKey[job[w].source],
                 hash |-> job[w].content, content |-> job[w].content,
                 status |-> "READY_FOR_ISSUE", policy |-> job[w].policy]
       IN invoices' = invoices \cup {x} /\ WriteReady(x)
    /\ job' = [job EXCEPT ![w].pc = "ok"]
    /\ UNCHANGED policy

InsertRefused(w) ==
    /\ job[w].op = "automate" /\ job[w].pc = "insert"
    /\ UniqueViolation(job[w].source)
    /\ job' = [job EXCEPT ![w].pc = "error"]
    /\ UNCHANGED <<invoices, ready, enqueued, policy>>

\* A read, another service or the database fails: the transaction rolls back
\* and the caller gets the error.
IntakeFails(w) ==
    /\ job[w].op = "automate" /\ job[w].pc \in {"lookup", "policy", "recheck", "insert"}
    /\ job' = [job EXCEPT ![w].pc = "error"]
    /\ UNCHANGED <<invoices, ready, enqueued, policy>>

\* The job's answer is used, or its process stops: the worker is free again.
Release(w) ==
    /\ job[w] # Idle
    /\ job' = [job EXCEPT ![w] = Idle]
    /\ UNCHANGED <<invoices, ready, enqueued, policy>>

-----------------------------------------------------------------------------
IntakeStep(w) ==
    \/ FirstLookup(w) \/ Recheck(w) \/ InsertRefused(w) \/ IntakeFails(w)
    \/ \E id \in Ids : Insert(w, id)

Next ==
    \/ \E id \in Ids, k \in Keys, c \in Contents : createManualDraft(id, k, c)
    \/ \E x \in invoices, c \in Contents : updateManualDraft(x, c)
    \/ \E p \in Policies : savePolicy(p)
    \/ \E w \in Workers :
          \/ \E x \in invoices : StartFinalize(w, x)
          \/ \E s \in Sources, c \in Contents : StartIntake(w, s, c)
          \/ ReadPolicy(w) \/ FinalizeCommit(w) \/ IntakeStep(w) \/ Release(w)

Spec == Init /\ [][Next]_invoiceVars

-----------------------------------------------------------------------------
\* Phase 3B acceptance: "Automated sources are idempotent under (partner_id,
\* source_type, source_id)."  Workers racing on one source, each past the
\* lookups that found nothing, still leave one invoice for it.
OneInvoicePerSource ==
    \A x, y \in invoices : x.source # None /\ x.source = y.source => x = y

\* An intake that is reported successful, and so acknowledged to the bus, has
\* an invoice of exactly its content, whichever worker created it.
SuccessMeansInvoiced ==
    \A w \in Workers : job[w].op = "automate" /\ job[w].pc = "ok" =>
        \E x \in invoices : x.source = job[w].source /\ x.hash = job[w].content
                            /\ x.status = "READY_FOR_ISSUE"

\* The continuation of an invoice cannot be lost or doubled: an invoice is
\* READY_FOR_ISSUE exactly when its ready event was written once and its
\* automation event is in the outbox.
ReadyEventExactlyOnce ==
    \A x \in invoices :
        /\ ready[x.id] = IF x.status = "READY_FOR_ISSUE" THEN 1 ELSE 0
        /\ x.id \in enqueued <=> x.status = "READY_FOR_ISSUE"

\* A final invoice was complete when it was frozen, although the draft may be
\* edited between finalizeManual's first read and its transaction.
ReadyIsComplete ==
    \A x \in invoices : x.status = "READY_FOR_ISSUE" =>
        x.content \in Complete /\ x.policy # None

\* domain.go: "READY_FOR_ISSUE is a frozen finance snapshot".  No later edit,
\* second finalize or repeated intake touches a final invoice.
ReadyIsFrozen ==
    [][\A x \in invoices : x.status = "READY_FOR_ISSUE" => x \in invoices']_invoiceVars
=============================================================================
