--------------------------- MODULE InvoicePipeline ---------------------------
(***************************************************************************)
(* The automation backbone end to end: an upstream service publishes a     *)
(* billing event; the Automation service (AutomationLog) turns it into a   *)
(* delivery; the workers of services/cmd/tenantfinance/                    *)
(* automation_consumer.go claim it, create the invoice (TenantInvoices)    *)
(* and ack or fail the delivery; the invoice's ready event leaves through  *)
(* the outbox and its relay (OutboxRelay) back to the Automation service.  *)
(*                                                                         *)
(* The components share state where the code shares tables: the invoices   *)
(* "enqueued" are the rows of the outbox, and the log a relay publishes to *)
(* is the events table.  Between services every call may be refused or     *)
(* lose its answer, and a worker may stop at any step; each such fault is  *)
(* counted against MaxFaults.  Workshop and scheduler, the upstream        *)
(* producers, are not in the repository: they publish any event.           *)
(***************************************************************************)
EXTENDS Integers, FiniteSets

CONSTANTS
    Upstream,     \* event keys of the upstream producers
    Ids, Sources, Contents, Complete, Workers,   \* see TenantInvoices
    AutoKey,
    Relays, LostAnswers, MaxStamp, MaxCrashes,   \* see OutboxRelay
    MaxAttempts,  \* max_attempts the consumer registers
    MaxFailing,   \* see AutomationLog
    MaxFaults,    \* bound: lost calls, crashes and leases outlived by their worker
    Finance, Policy, Partner, AnyScope, Omitted, None

VARIABLES
    subs, events, deliveries, failing, sent,   \* AutomationLog
    invoices, ready, policy, job,              \* TenantInvoices
    outbox, batch, call, wire, crashes,        \* OutboxRelay
    todo,      \* deliveries of a worker's claim it has not come to yet
    current,   \* the delivery a worker is handling
    faults

BillingEvent == "workflow.billing_approved.v1"
ReadyEvent   == "tenant_invoice.ready_for_issue.v1"

Intents == [source : Sources, content : Contents]

Keys == Upstream \cup Ids

Log == INSTANCE AutomationLog WITH
    Consumers <- {Finance}, Types <- {BillingEvent, ReadyEvent}, Scopes <- {Partner},
    Contents <- Intents \cup Ids, Times <- 0..MaxStamp, MaxAttempts <- {MaxAttempts},
    MaxClaims <- MaxAttempts + MaxFaults

Intake == INSTANCE TenantInvoices WITH
    Keys <- {}, Policies <- {Policy},
    enqueued <- {i \in Ids : outbox[i].status # "ABSENT"}

Relay == INSTANCE OutboxRelay WITH
    Rows <- Ids,
    log <- [i \in Ids |-> IF events[i] = None THEN None ELSE events[i].available]

logVars      == <<subs, events, deliveries, failing, sent>>
intakeVars   == <<invoices, ready, policy, job>>
outboxVars   == <<outbox, batch, call, wire, crashes>>
consumerVars == <<todo, current, faults>>
vars         == <<logVars, intakeVars, outboxVars, consumerVars>>

Slot(k) == <<k, Finance>>

\* The components' own assumptions; event keys of different producers differ, and
\* None is neither a content nor a delivery.
ASSUME PipelineAssumption ==
    /\ Log!LogAssumption /\ Intake!InvoiceAssumption /\ Relay!RelayAssumption
    /\ Upstream \cap Ids = {}
    /\ None \notin Contents
    /\ \A k \in Upstream : None # Slot(k)

Init ==
    /\ Log!LogInit
    /\ Relay!Init
    /\ Intake!Init
    /\ todo = [w \in Workers |-> {}]
    /\ current = [w \in Workers |-> None]
    /\ faults = 0

-----------------------------------------------------------------------------
(* The Automation service and its upstream producers.                      *)

ensureAutomationSubscriptions ==
    /\ Log!Subscribe(Finance, {BillingEvent}, AnyScope, MaxAttempts)
    /\ UNCHANGED <<intakeVars, outboxVars, consumerVars>>

PublishUpstream(k, i) ==
    /\ Log!Publish(k, [type |-> BillingEvent, scope |-> Partner, content |-> i,
                       occurred |-> 0, available |-> 0], 0)
    /\ UNCHANGED <<intakeVars, outboxVars, consumerVars>>

LogStep ==
    /\ \/ \E k \in Upstream : Log!Due(Slot(k))
       \/ \E h \in failing : Log!FailWrite(h)
    /\ UNCHANGED <<intakeVars, outboxVars, consumerVars>>

Held(d) ==
    \/ \E w \in Workers : d \in todo[w] \/ current[w] = d
    \/ \E h \in failing : h.slot = d

Fault == faults < MaxFaults /\ faults' = faults + 1

\* A lease outlived by a working holder is a fault; one nobody holds any more
\* simply runs out.
LeaseExpires(d) ==
    /\ Log!LeaseExpires(d)
    /\ IF Held(d) THEN Fault ELSE UNCHANGED faults
    /\ UNCHANGED <<intakeVars, outboxVars, todo, current>>

-----------------------------------------------------------------------------
(* consumeAutomationOnce.                                                  *)

Free(w) == todo[w] = {} /\ current[w] = None

ClaimBatch(w, taken) ==
    /\ Free(w)
    /\ Log!Claim(Finance, taken)
    /\ todo' = [todo EXCEPT ![w] = taken]
    /\ UNCHANGED <<intakeVars, outboxVars, current, faults>>

\* The rows are claimed, the answer never arrives.
ClaimLost(taken) ==
    /\ Log!Claim(Finance, taken) /\ Fault
    /\ UNCHANGED <<intakeVars, outboxVars, todo, current>>

\* The next delivery of the batch: its intent goes to createAutomatedReady.
consumeInvoiceDelivery(w, d) ==
    /\ current[w] = None /\ d \in todo[w]
    /\ UNCHANGED <<logVars, outboxVars, faults>>
    /\ LET i == events[d[1]].content IN Intake!StartIntake(w, i.source, i.content)
    /\ todo' = [todo EXCEPT ![w] = @ \ {d}]
    /\ current' = [current EXCEPT ![w] = d]

\* A step of createAutomatedReady; its insert commits with the outbox row.
IntakeStep(w) ==
    /\ UNCHANGED <<logVars, batch, call, wire, crashes, consumerVars>>
    /\ \/ /\ UNCHANGED outbox
          /\ \/ Intake!FirstLookup(w) \/ Intake!ReadPolicy(w) \/ Intake!Recheck(w)
             \/ Intake!InsertRefused(w) \/ Intake!IntakeFails(w)
       \/ \E i \in Ids : Relay!EnqueueTx(i) /\ Intake!Insert(w, i)

Answered(w, result) == job[w].op = "automate" /\ job[w].pc = result

Acked(w) ==
    /\ Answered(w, "ok")
    /\ Log!Ack(current[w])
    /\ UNCHANGED <<outboxVars, todo, faults>>
    /\ Intake!Release(w)
    /\ current' = [current EXCEPT ![w] = None]

\* A 409, or an answer that is lost with or without the ack done, ends the
\* pass: the rest of the batch waits for its lease to expire.
AckError(w) ==
    /\ Answered(w, "ok")
    /\ \/ Log!Ack(current[w]) /\ Fault
       \/ UNCHANGED logVars /\ Fault
       \/ deliveries[current[w]].status # "PROCESSING" /\ UNCHANGED <<logVars, faults>>
    /\ UNCHANGED outboxVars
    /\ Intake!Release(w)
    /\ todo' = [todo EXCEPT ![w] = {}]
    /\ current' = [current EXCEPT ![w] = None]

\* The outcome of the fail call is ignored and the pass goes on.
Failed(w) ==
    /\ Answered(w, "error")
    /\ \/ Log!FailRead(current[w]) /\ UNCHANGED faults
       \/ UNCHANGED logVars /\ Fault
       \/ deliveries[current[w]].status # "PROCESSING" /\ UNCHANGED <<logVars, faults>>
    /\ UNCHANGED <<outboxVars, todo>>
    /\ Intake!Release(w)
    /\ current' = [current EXCEPT ![w] = None]

\* The worker's process stops and restarts.
Crash(w) ==
    /\ ~Free(w) /\ Fault
    /\ UNCHANGED <<logVars, outboxVars>>
    /\ IF job[w] # Intake!Idle THEN Intake!Release(w) ELSE UNCHANGED intakeVars
    /\ todo' = [todo EXCEPT ![w] = {}]
    /\ current' = [current EXCEPT ![w] = None]

Consumer(w) ==
    \/ \E taken \in SUBSET {Slot(k) : k \in Upstream} : ClaimBatch(w, taken)
    \/ \E d \in todo[w] : consumeInvoiceDelivery(w, d)
    \/ IntakeStep(w) \/ Acked(w) \/ AckError(w) \/ Failed(w)

-----------------------------------------------------------------------------
(* The relay and the Automation service as its receiver.                   *)

ReadyRequest(m) == [type |-> ReadyEvent, scope |-> Partner, content |-> m.row,
                    occurred |-> 0, available |-> m.stamp]

RelayStep ==
    /\ UNCHANGED <<logVars, intakeVars, consumerVars>>
    /\ \/ \E i \in Ids : Relay!Due(i) \/ Relay!LeaseExpires(i)
       \/ \E r \in Relays : Relay!Relay(r) \/ Relay!TimesOut(r) \/ Relay!Crash(r)

ReceiveReady(m) ==
    /\ IF Log!Answer(m.row, ReadyRequest(m)) = "created"
       THEN Log!Publish(m.row, ReadyRequest(m), 0)
       ELSE UNCHANGED logVars
    /\ Relay!Receive(m)
    /\ UNCHANGED <<intakeVars, consumerVars>>

-----------------------------------------------------------------------------
Next ==
    \/ ensureAutomationSubscriptions
    \/ \E k \in Upstream, i \in Intents : PublishUpstream(k, i)
    \/ LogStep
    \/ \E k \in Upstream : LeaseExpires(Slot(k))
    \/ \E taken \in SUBSET {Slot(k) : k \in Upstream} : ClaimLost(taken)
    \/ \E w \in Workers : Consumer(w) \/ Crash(w)
    \/ RelayStep
    \/ \E m \in wire : ReceiveReady(m)

Spec == Init /\ [][Next]_vars

\* Workers and relays run loops that tick as long as their process lives, the
\* service finishes the handlers it has started, and time passes.
Fairness ==
    /\ \A w \in Workers : WF_vars(Consumer(w))
    /\ WF_vars(LogStep)
    /\ \A k \in Upstream : WF_vars(LeaseExpires(Slot(k)))
    /\ WF_vars(RelayStep)
    /\ WF_vars(\E m \in wire : ReceiveReady(m))

FairSpec == Spec /\ Fairness

-----------------------------------------------------------------------------
InvoiceOf(s) == CHOOSE x \in invoices : x.source = s

billed == [s \in Sources |-> IF Intake!Taken(s) THEN InvoiceOf(s).hash ELSE None]

announced == {s \in Sources : Intake!Taken(s) /\ events[InvoiceOf(s).id] # None}

Once == INSTANCE InvoiceOnce

\* The backbone bills a source once, with the content of its first event, and
\* announces it once: duplicated and conflicting upstream events, competing
\* workers, crashes, lost answers and stale leases included.
BillsOnce == Once!Spec

\* An acknowledged delivery has done its work: the invoice of its source exists
\* with the very content of its event.  A worker whose lease expired may be the
\* one that acks, after another worker has created the invoice or failed.
AckedMeansInvoiced ==
    \A k \in Upstream : deliveries[Slot(k)].status = "ACKED" =>
        \E x \in invoices : /\ x.source = events[k].content.source
                            /\ x.hash = events[k].content.content

\* The bus never announces an invoice that was not committed.
AnnouncedMeansCommitted ==
    \A i \in Ids : events[i] # None =>
        \E x \in invoices : x.id = i /\ x.status = "READY_FOR_ISSUE"

\* Every delivery is eventually acknowledged or given up, whatever is lost or
\* restarted on the way.
DeliverySettles ==
    \A k \in Upstream : deliveries[Slot(k)].status = "PENDING" ~>
        deliveries[Slot(k)].status \in {"ACKED", "DEAD_LETTER"}

\* What the bus says is true of the store: an acknowledged delivery has its
\* invoice and an announced invoice is committed.
PipelineSafe ==
    /\ AckedMeansInvoiced
    /\ AnnouncedMeansCommitted
=============================================================================
