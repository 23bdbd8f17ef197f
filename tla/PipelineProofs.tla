---------------------------- MODULE PipelineProofs ----------------------------
(***************************************************************************)
(* Proofs about the backbone end to end (InvoicePipeline): put together,   *)
(* the log, the invoice store and the relay each still behave as their own *)
(* module says, so that what is proved of them alone holds of them here;   *)
(* and what no component can promise by itself: a source is billed and     *)
(* announced once.  Then what billing itself keeps of a partner's contract *)
(* (CommercialTerms) and of a module that is billed by itself              *)
(* (ModuleBilling), for any edits, days, prices and number of handlers.    *)
(***************************************************************************)
EXTENDS InvoicePipeline, CommercialTerms, ModuleBilling, WellFoundedInduction, TLAPS

\* The proofs of the components, about the state they share.
LogP == INSTANCE AutomationLogProofs WITH
    Consumers <- {Finance}, Types <- {BillingEvent, ReadyEvent}, Scopes <- {Partner},
    Contents <- Intents \cup Ids, Times <- 0..MaxStamp, MaxAttempts <- {MaxAttempts},
    MaxClaims <- MaxAttempts + MaxFaults

IntakeP == INSTANCE TenantInvoicesProofs WITH
    Keys <- {}, Policies <- {Policy},
    enqueued <- {i \in Ids : outbox[i].status # "ABSENT"}

RelayP == INSTANCE OutboxRelayProofs WITH
    Rows <- Ids,
    log <- [i \in Ids |-> IF events[i] = None THEN None ELSE events[i].available]

-------------------------------------------------------------------------------
\* Upstream keys hold billing events.
UpstreamBills ==
    \A k \in Upstream : events[k] # None =>
        events[k].type = BillingEvent /\ events[k].content \in Intents

\* A worker works on deliveries of the log, and its job is the intent of the current one.
Known(d) == (\E k \in Upstream : d = Slot(k)) /\ deliveries[d].status # "NONE"
IntentOf(d) == events[d[1]].content
WorkOf(w) ==
    /\ \A d \in todo[w] : Known(d)
    /\ current[w] # None => Known(current[w])
    /\ job[w] # Intake!Idle =>
          /\ job[w].op = "automate" /\ current[w] # None
          /\ job[w].source = IntentOf(current[w]).source
          /\ job[w].content = IntentOf(current[w]).content
WorkIsDelivered == \A w \in Workers : WorkOf(w)

\* There are no drafts here: every invoice has its source.
InvoicesHaveSources == \A x \in invoices : x.source \in Sources

WorkersTyped == DOMAIN todo = Workers /\ DOMAIN current = Workers

ComponentsInv == LogP!LogInv /\ IntakeP!InvoiceInv /\ RelayP!RelayInv /\ RelayP!OriginInv

WorkInv == UpstreamBills /\ WorkIsDelivered /\ InvoicesHaveSources /\ WorkersTyped

PipelineInv == ComponentsInv /\ WorkInv /\ AckedMeansInvoiced

-------------------------------------------------------------------------------
\* The assumptions of the components' proofs are those of the components.
LEMMA ConstantsFit ==
    LogP!LogAssumption /\ IntakeP!InvoiceAssumption /\ RelayP!RelayAssumption
BY PipelineAssumption
   DEF PipelineAssumption, Log!LogAssumption, LogP!LogAssumption, Intake!InvoiceAssumption,
       IntakeP!InvoiceAssumption, Relay!RelayAssumption, RelayP!RelayAssumption

\* The delivery of an upstream event to the finance consumer.
LEMMA SlotFacts ==
    ASSUME NEW k \in Upstream
    PROVE  Slot(k) \in LogP!Slots /\ Slot(k)[1] = k /\ Slot(k)[2] = Finance /\ Slot(k) # None
BY PipelineAssumption DEF PipelineAssumption, Slot, Keys, LogP!Slots

\* A delivery that exists has an event, for an upstream key a billing event.
LEMMA DeliveredIntent ==
    ASSUME PipelineInv, NEW d, Known(d)
    PROVE  /\ d \in LogP!Slots /\ d[1] \in Upstream /\ events[d[1]] # None
           /\ IntentOf(d) \in Intents
<1>1. PICK k \in Upstream : d = Slot(k)
  BY DEF Known
<1>2. d \in LogP!Slots /\ d[1] = k
  BY <1>1, SlotFacts
<1>3. events[k] # None
  BY <1>2 DEF PipelineInv, ComponentsInv, LogP!LogInv, LogP!RowsHaveEvents, Known
<1> QED BY <1>2, <1>3 DEF PipelineInv, WorkInv, UpstreamBills, IntentOf

\* A worker with a job has a current delivery, and the job is its intent.
LEMMA JobOfWorker ==
    ASSUME PipelineInv, NEW w \in Workers, job[w].op = "automate"
    PROVE  /\ job[w] # Intake!Idle /\ current[w] # None /\ Known(current[w])
           /\ job[w].source = IntentOf(current[w]).source
           /\ job[w].content = IntentOf(current[w]).content
BY DEF PipelineInv, WorkInv, WorkIsDelivered, WorkOf, Intake!Idle

\* The backbone starts where its components start.
LEMMA ComponentsInit == Init => LogP!LogInit /\ IntakeP!Init /\ RelayP!Init
BY DEF Init, Log!LogInit, LogP!LogInit, Relay!Init, RelayP!Init, Intake!Init, IntakeP!Init,
       Intake!Idle, IntakeP!Idle, Relay!NoCall, RelayP!NoCall, Log!Slots, LogP!Slots,
       Log!NoDelivery, LogP!NoDelivery

\* The invariant holds before anything happens.
LEMMA PipelineInitInv == Init => PipelineInv
<1> SUFFICES ASSUME Init PROVE PipelineInv
  OBVIOUS
<1>1. LogP!LogInit /\ IntakeP!Init /\ RelayP!Init
  BY ComponentsInit
<1>2. LogP!LogInv
  BY <1>1, ConstantsFit, LogP!LogInitInv
<1>3. IntakeP!InvoiceInv
  BY <1>1, ConstantsFit, IntakeP!InvoiceInitInv
<1>4. RelayP!RelayInv
  BY <1>1, ConstantsFit, RelayP!RelayInitInv
<1>5. RelayP!OriginInv
  BY <1>1, ConstantsFit DEF RelayP!Init, RelayP!OriginInv, RelayP!RelayAssumption
<1>6. UpstreamBills /\ AckedMeansInvoiced
  <2>1. \A k \in Upstream : events[k] = None /\ deliveries[Slot(k)].status = "NONE"
    BY <1>1, SlotFacts DEF LogP!LogInit, LogP!NoDelivery, Keys
  <2> QED BY <2>1 DEF UpstreamBills, AckedMeansInvoiced
<1>7. WorkIsDelivered /\ InvoicesHaveSources /\ WorkersTyped
  BY DEF Init, Intake!Init, WorkIsDelivered, WorkOf, InvoicesHaveSources, WorkersTyped
<1> QED BY <1>2, <1>3, <1>4, <1>5, <1>6, <1>7 DEF PipelineInv, ComponentsInv, WorkInv

-------------------------------------------------------------------------------
\* The log's actions as the model composes them and as its proofs name them.
LEMMA SamePublish ==
    ASSUME NEW k, NEW r, NEW now, Log!Publish(k, r, now) PROVE LogP!Publish(k, r, now)
<1>1. ASSUME NEW S PROVE Log!Max(S) = LogP!Max(S)
  BY DEF Log!Max, LogP!Max
<1>2. ASSUME NEW x, NEW y PROVE Log!Selected(x, y) = LogP!Selected(x, y)
  BY DEF Log!Selected, LogP!Selected
<1>3. Log!Slots = LogP!Slots /\ Log!Normalized(r, now) = LogP!Normalized(r, now)
  BY DEF Log!Slots, LogP!Slots, Log!Normalized, LogP!Normalized
<1>4. Log!Answer(k, r) = LogP!Answer(k, r)
  BY DEF Log!Answer, LogP!Answer, Log!stableReplayTimes, LogP!stableReplayTimes
<1> QED BY <1>1, <1>2, <1>3, <1>4 DEF Log!Publish, LogP!Publish

\* An ack and the read of a fail are those of the log specification.
LEMMA SameAckFail ==
    ASSUME NEW d PROVE (Log!Ack(d) => LogP!Ack(d)) /\ (Log!FailRead(d) => LogP!FailRead(d))
<1>1. Log!Cardinality(failing) = LogP!Cardinality(failing)
  BY DEF Log!Cardinality, LogP!Cardinality
<1> QED BY <1>1 DEF Log!Ack, LogP!Ack, Log!FailRead, LogP!FailRead

\* Composition: each step of the backbone is a step of the log or leaves it alone,
LEMMA LogStepOfPipeline == PipelineInv /\ [Next]_vars => [LogP!LogNext]_(LogP!logVars)
<1> SUFFICES ASSUME PipelineInv, [Next]_vars PROVE [LogP!LogNext]_(LogP!logVars)
  OBVIOUS
<1> DEFINE Goal == [LogP!LogNext]_(LogP!logVars)
<1>1. MaxStamp \in Nat /\ 0 \in 0..MaxStamp
  BY ConstantsFit DEF RelayP!RelayAssumption
<1>2. ASSUME UNCHANGED logVars PROVE Goal
  BY <1>2 DEF logVars, LogP!logVars
<1>3. ASSUME ensureAutomationSubscriptions PROVE Goal
  <2>1. LogP!Subscribe(Finance, {BillingEvent}, AnyScope, MaxAttempts)
    BY <1>3 DEF ensureAutomationSubscriptions, Log!Subscribe, LogP!Subscribe
  <2> QED BY <2>1 DEF LogP!LogNext
<1>4. ASSUME NEW k \in Upstream, NEW i \in Intents, PublishUpstream(k, i) PROVE Goal
  <2> DEFINE r == [type |-> BillingEvent, scope |-> Partner, content |-> i,
                   occurred |-> 0, available |-> 0]
  <2>1. r \in LogP!Request
    BY <1>1 DEF LogP!Request
  <2>2. LogP!Publish(k, r, 0)
    BY <1>4, SamePublish DEF PublishUpstream
  <2> HIDE DEF r
  <2> QED BY <1>1, <2>1, <2>2 DEF LogP!LogNext, Keys
<1>5. ASSUME LogStep PROVE Goal
  <2>1. ASSUME NEW k \in Upstream, Log!Due(Slot(k)) PROVE Goal
    <3>1. LogP!Due(Slot(k))
      BY <2>1 DEF Log!Due, LogP!Due
    <3> QED BY <3>1, SlotFacts DEF LogP!LogNext
  <2>2. ASSUME NEW h \in failing, Log!FailWrite(h) PROVE Goal
    <3>1. LogP!FailWrite(h)
      BY <2>2 DEF Log!FailWrite, LogP!FailWrite
    <3> QED BY <3>1 DEF LogP!LogNext
  <2> QED BY <1>5, <2>1, <2>2 DEF LogStep
<1>6. ASSUME NEW k \in Upstream, LeaseExpires(Slot(k)) PROVE Goal
  <2>1. LogP!LeaseExpires(Slot(k))
    BY <1>6 DEF LeaseExpires, Log!LeaseExpires, LogP!LeaseExpires
  <2> QED BY <2>1, SlotFacts DEF LogP!LogNext
<1>7. ASSUME NEW taken \in SUBSET {Slot(k) : k \in Upstream}, Log!Claim(Finance, taken) PROVE Goal
  <2>1. LogP!Claim(Finance, taken)
    BY <1>7 DEF Log!Claim, LogP!Claim, Log!Claimable, LogP!Claimable, Log!Slots, LogP!Slots
  <2>2. taken \in SUBSET LogP!Slots
    BY SlotFacts
  <2> QED BY <2>1, <2>2 DEF LogP!LogNext
<1>8. ASSUME NEW d \in LogP!Slots, Log!Ack(d) \/ Log!FailRead(d) PROVE Goal
  <2>1. LogP!Ack(d) \/ LogP!FailRead(d)
    BY <1>8, SameAckFail
  <2> QED BY <2>1 DEF LogP!LogNext
<1>9. ASSUME NEW w \in Workers, Consumer(w) \/ Crash(w) PROVE Goal
  <2>1. CASE \E taken \in SUBSET {Slot(k) : k \in Upstream} : ClaimBatch(w, taken)
    BY <2>1, <1>7 DEF ClaimBatch
  <2>2. CASE Acked(w) \/ AckError(w) \/ Failed(w)
    <3>1. job[w].op = "automate"
      BY <2>2 DEF Acked, AckError, Failed, Answered
    <3>2. current[w] \in LogP!Slots
      BY <3>1, JobOfWorker, DeliveredIntent
    <3>3. Log!Ack(current[w]) \/ Log!FailRead(current[w]) \/ UNCHANGED logVars
      BY <2>2 DEF Acked, AckError, Failed
    <3> QED BY <1>2, <1>8, <3>2, <3>3
  <2>3. CASE Crash(w) \/ IntakeStep(w) \/ \E d \in todo[w] : consumeInvoiceDelivery(w, d)
    BY <2>3, <1>2 DEF Crash, IntakeStep, consumeInvoiceDelivery
  <2> HIDE DEF Goal
  <2> QED BY <1>9, <2>1, <2>2, <2>3 DEF Consumer
<1>10. ASSUME RelayStep PROVE Goal
  BY <1>10, <1>2 DEF RelayStep
<1>11. ASSUME NEW m \in wire, ReceiveReady(m) PROVE Goal
  <2>1. m.row \in Ids /\ m.stamp \in 0..MaxStamp
    BY <1>1 DEF PipelineInv, ComponentsInv, RelayP!RelayInv, RelayP!TypeOK, RelayP!Message,
           RelayP!OriginInv, RelayP!FromOutbox
  <2>2. ReadyRequest(m) \in LogP!Request
    BY <1>1, <2>1 DEF ReadyRequest, LogP!Request
  <2>3. CASE Log!Publish(m.row, ReadyRequest(m), 0)
    <3>1. LogP!Publish(m.row, ReadyRequest(m), 0)
      BY <2>3, SamePublish
    <3> QED BY <1>1, <2>1, <2>2, <3>1 DEF LogP!LogNext, Keys
  <2>4. CASE UNCHANGED logVars
    BY <1>2, <2>4
  <2> QED BY <1>11, <2>3, <2>4 DEF ReceiveReady
<1>12. ASSUME NEW taken \in SUBSET {Slot(k) : k \in Upstream}, ClaimLost(taken) PROVE Goal
  BY <1>7, <1>12 DEF ClaimLost
<1>13. ASSUME UNCHANGED vars PROVE Goal
  BY <1>2, <1>13 DEF vars
<1> HIDE DEF Goal
<1>14. Goal
  BY <1>3, <1>4, <1>5, <1>6, <1>9, <1>10, <1>11, <1>12, <1>13 DEF Next
<1> QED BY <1>14 DEF Goal

\* a step of the invoice store or leaves it and its outbox rows alone,
LEMMA IntakeStepOfPipeline == PipelineInv /\ [Next]_vars => [IntakeP!Next]_(IntakeP!invoiceVars)
<1> SUFFICES ASSUME PipelineInv, [Next]_vars PROVE [IntakeP!Next]_(IntakeP!invoiceVars)
  OBVIOUS
<1> DEFINE Goal == [IntakeP!Next]_(IntakeP!invoiceVars)
<1>1. ASSUME UNCHANGED <<intakeVars, outbox>> PROVE Goal
  BY <1>1 DEF intakeVars, IntakeP!invoiceVars
<1>2. ASSUME NEW w \in Workers, NEW d \in todo[w], consumeInvoiceDelivery(w, d) PROVE Goal
  <2> DEFINE i == events[d[1]].content
  <2>1. i.source \in Sources /\ i.content \in Contents
    BY DeliveredIntent DEF PipelineInv, WorkInv, WorkIsDelivered, WorkOf, IntentOf, Intents
  <2>2. IntakeP!StartIntake(w, i.source, i.content)
    BY <1>2 DEF consumeInvoiceDelivery, Intake!StartIntake, IntakeP!StartIntake,
                Intake!Idle, IntakeP!Idle
  <2> HIDE DEF i
  <2> QED BY <2>1, <2>2 DEF IntakeP!Next
<1>3. ASSUME NEW w \in Workers, Intake!Release(w) PROVE Goal
  <2>1. IntakeP!Release(w)
    BY <1>3 DEF Intake!Release, IntakeP!Release, Intake!Idle, IntakeP!Idle
  <2> QED BY <2>1 DEF IntakeP!Next
<1>4. ASSUME NEW w \in Workers, IntakeStep(w) PROVE Goal
  <2>1. ASSUME NEW i \in Ids, Intake!Insert(w, i) PROVE Goal
    <3>1. IntakeP!Insert(w, i)
      BY <2>1 DEF Intake!Insert, IntakeP!Insert, Intake!Unused, IntakeP!Unused,
                  Intake!UniqueViolation, IntakeP!UniqueViolation, Intake!Taken, IntakeP!Taken,
                  Intake!WriteReady, IntakeP!WriteReady
    <3> QED BY <3>1 DEF IntakeP!Next, IntakeP!IntakeStep
  <2>2. ASSUME Intake!FirstLookup(w) \/ Intake!Recheck(w) PROVE Goal
    <3>1. IntakeP!FirstLookup(w) \/ IntakeP!Recheck(w)
      BY <2>2 DEF Intake!FirstLookup, IntakeP!FirstLookup, Intake!Recheck, IntakeP!Recheck,
                  Intake!Lookup, IntakeP!Lookup, Intake!Taken, IntakeP!Taken,
                  Intake!Existing, IntakeP!Existing
    <3> QED BY <3>1 DEF IntakeP!Next, IntakeP!IntakeStep
  <2>3. ASSUME Intake!ReadPolicy(w) \/ Intake!InsertRefused(w) \/ Intake!IntakeFails(w) PROVE Goal
    <3>1. IntakeP!ReadPolicy(w) \/ IntakeP!InsertRefused(w) \/ IntakeP!IntakeFails(w)
      BY <2>3 DEF Intake!ReadPolicy, IntakeP!ReadPolicy, Intake!InsertRefused,
                  IntakeP!InsertRefused, Intake!IntakeFails, IntakeP!IntakeFails,
                  Intake!UniqueViolation, IntakeP!UniqueViolation, Intake!Taken, IntakeP!Taken,
                  Intake!Idle, IntakeP!Idle
    <3> QED BY <3>1 DEF IntakeP!Next, IntakeP!IntakeStep
  <2> HIDE DEF Goal
  <2> QED BY <1>4, <2>1, <2>2, <2>3 DEF IntakeStep
<1>5. ASSUME NEW w \in Workers, Consumer(w) \/ Crash(w) PROVE Goal
  <2>1. CASE \E taken \in SUBSET {Slot(k) : k \in Upstream} : ClaimBatch(w, taken)
    BY <1>1, <2>1 DEF ClaimBatch, outboxVars
  <2>2. CASE Acked(w) \/ AckError(w) \/ Failed(w)
    BY <1>3, <2>2 DEF Acked, AckError, Failed
  <2>3. CASE Crash(w)
    BY <1>1, <1>3, <2>3 DEF Crash, outboxVars
  <2> HIDE DEF Goal
  <2> QED BY <1>2, <1>4, <1>5, <2>1, <2>2, <2>3 DEF Consumer
<1>6. ASSUME NEW r \in Relays, Relay!Relay(r) \/ Relay!TimesOut(r) \/ Relay!Crash(r)
      PROVE  \A i \in Ids : outbox'[i].status = "ABSENT" <=> outbox[i].status = "ABSENT"
  <2>1. \A i \in Ids : outbox[i] \in RelayP!Row
    BY DEF PipelineInv, ComponentsInv, RelayP!RelayInv, RelayP!TypeOK
  <2>2. outbox \in [Ids -> RelayP!Row]
    BY DEF PipelineInv, ComponentsInv, RelayP!RelayInv, RelayP!TypeOK
  <2>3. ASSUME NEW taken \in SUBSET Ids, Relay!ClaimOutbox(r, taken)
        PROVE  \A i \in Ids : outbox'[i].status = "ABSENT" <=> outbox[i].status = "ABSENT"
    BY <2>1, <2>3 DEF Relay!ClaimOutbox, Relay!Claimable, RelayP!Row
  <2>4. ASSUME Relay!MarkOutboxPublished(r) \/ Relay!FailOutbox(r)
        PROVE  \A i \in Ids : outbox'[i].status = "ABSENT" <=> outbox[i].status = "ABSENT"
    BY <2>2, <2>4 DEF Relay!MarkOutboxPublished, Relay!FailOutbox, RelayP!Row
  <2>5. ASSUME \/ Relay!TimesOut(r) \/ Relay!Crash(r)
               \/ \E x \in batch[r] : Relay!Send(r, x) \/ Relay!NotSent(r, x)
        PROVE  UNCHANGED outbox
    BY <2>5 DEF Relay!TimesOut, Relay!Crash, Relay!Send, Relay!NotSent
  <2> QED BY <1>6, <2>3, <2>4, <2>5 DEF Relay!Relay
<1>7. ASSUME RelayStep PROVE Goal
  <2>1. \A i \in Ids : outbox'[i].status = "ABSENT" <=> outbox[i].status = "ABSENT"
    <3>1. ASSUME NEW i \in Ids, Relay!Due(i) \/ Relay!LeaseExpires(i)
          PROVE  \A j \in Ids : outbox'[j].status = "ABSENT" <=> outbox[j].status = "ABSENT"
      BY <3>1 DEF Relay!Due, Relay!LeaseExpires, PipelineInv, ComponentsInv, RelayP!RelayInv,
                  RelayP!TypeOK, RelayP!Row
    <3> QED BY <1>6, <1>7, <3>1 DEF RelayStep
  <2>2. {i \in Ids : outbox'[i].status # "ABSENT"} = {i \in Ids : outbox[i].status # "ABSENT"}
    BY <2>1
  <2> QED BY <1>7, <2>2 DEF RelayStep, intakeVars, IntakeP!invoiceVars
<1>8. ASSUME \/ ensureAutomationSubscriptions \/ LogStep
             \/ \E k \in Upstream, i \in Intents : PublishUpstream(k, i)
             \/ \E k \in Upstream : LeaseExpires(Slot(k))
             \/ \E taken \in SUBSET {Slot(k) : k \in Upstream} : ClaimLost(taken)
             \/ \E m \in wire : ReceiveReady(m)
      PROVE  UNCHANGED <<intakeVars, outbox>>
  BY <1>8 DEF ensureAutomationSubscriptions, LogStep, PublishUpstream, LeaseExpires, ClaimLost,
              ReceiveReady, Relay!Receive, vars, outboxVars
<1>9. UNCHANGED vars => UNCHANGED <<intakeVars, outbox>>
  BY DEF vars, outboxVars
<1> HIDE DEF Goal
<1>10. Goal
  BY <1>1, <1>5, <1>7, <1>8, <1>9 DEF Next
<1> QED BY <1>10 DEF Goal

\* and a step of the relay or leaves it and its receiver's log alone.
LEMMA RelayStepOfPipeline == PipelineInv /\ [Next]_vars => [RelayP!Next]_(RelayP!relayVars)
<1> SUFFICES ASSUME PipelineInv, [Next]_vars PROVE [RelayP!Next]_(RelayP!relayVars)
  OBVIOUS
<1> DEFINE Goal == [RelayP!Next]_(RelayP!relayVars)
<1>1. ASSUME UNCHANGED outboxVars, \A i \in Ids : events'[i] = events[i] PROVE Goal
  BY <1>1 DEF outboxVars, RelayP!relayVars
<1>2. ASSUME NEW k \in Upstream, NEW i \in Intents, PublishUpstream(k, i) PROVE Goal
  <2>1. k \notin Ids
    BY PipelineAssumption DEF PipelineAssumption
  <2>2. events \in [Keys -> LogP!Envelope \cup {None}]
    BY DEF PipelineInv, ComponentsInv, LogP!LogInv, LogP!TypeOK
  <2>3. PICK e : events' = [events EXCEPT ![k] = e]
    BY <1>2 DEF PublishUpstream, Log!Publish
  <2>4. \A x \in Ids : events'[x] = events[x]
    BY <2>1, <2>2, <2>3 DEF Keys
  <2> QED BY <1>1, <1>2, <2>4 DEF PublishUpstream
<1>3. ASSUME NEW w \in Workers, IntakeStep(w) PROVE Goal
  <2>1. ASSUME NEW i \in Ids, Relay!EnqueueTx(i) PROVE Goal
    <3>1. RelayP!EnqueueTx(i)
      BY <2>1 DEF Relay!EnqueueTx, RelayP!EnqueueTx
    <3> QED BY <3>1 DEF RelayP!Next
  <2>2. CASE UNCHANGED outbox
    BY <1>1, <1>3, <2>2 DEF IntakeStep, outboxVars, logVars
  <2> QED BY <1>3, <2>1, <2>2 DEF IntakeStep
<1>4. ASSUME RelayStep PROVE Goal
  <2>1. ASSUME NEW i \in Ids, Relay!Due(i) \/ Relay!LeaseExpires(i) PROVE Goal
    <3>1. RelayP!Due(i) \/ RelayP!LeaseExpires(i)
      BY <2>1 DEF Relay!Due, RelayP!Due, Relay!LeaseExpires, RelayP!LeaseExpires
    <3> QED BY <3>1 DEF RelayP!Next
  <2>2. ASSUME NEW r \in Relays, Relay!TimesOut(r) \/ Relay!Crash(r) PROVE Goal
    <3>1. RelayP!TimesOut(r) \/ RelayP!Crash(r)
      BY <2>2 DEF Relay!TimesOut, RelayP!TimesOut, Relay!Crash, RelayP!Crash,
                  Relay!NoCall, RelayP!NoCall
    <3> QED BY <3>1 DEF RelayP!Next
  <2>3. ASSUME NEW r \in Relays, NEW taken \in SUBSET Ids, Relay!ClaimOutbox(r, taken) PROVE Goal
    <3>1. RelayP!ClaimOutbox(r, taken)
      BY <2>3 DEF Relay!ClaimOutbox, RelayP!ClaimOutbox, Relay!Claimable, RelayP!Claimable,
                  Relay!NoCall, RelayP!NoCall
    <3> QED BY <3>1 DEF RelayP!Next, RelayP!Relay
  <2>4. ASSUME NEW r \in Relays, NEW x \in batch[r], Relay!Send(r, x) \/ Relay!NotSent(r, x)
        PROVE  Goal
    <3>1. RelayP!Send(r, x) \/ RelayP!NotSent(r, x)
      BY <2>4 DEF Relay!Send, RelayP!Send, Relay!NotSent, RelayP!NotSent,
                  Relay!NoCall, RelayP!NoCall
    <3> QED BY <3>1 DEF RelayP!Next, RelayP!Relay
  <2>5. ASSUME NEW r \in Relays, Relay!MarkOutboxPublished(r) \/ Relay!FailOutbox(r) PROVE Goal
    <3>1. RelayP!MarkOutboxPublished(r) \/ RelayP!FailOutbox(r)
      BY <2>5 DEF Relay!MarkOutboxPublished, RelayP!MarkOutboxPublished, Relay!FailOutbox,
                  RelayP!FailOutbox, Relay!NoCall, RelayP!NoCall
    <3> QED BY <3>1 DEF RelayP!Next, RelayP!Relay
  <2> HIDE DEF Goal
  <2> QED BY <1>4, <2>1, <2>2, <2>3, <2>4, <2>5 DEF RelayStep, Relay!Relay
<1>5. ASSUME NEW m \in wire, ReceiveReady(m) PROVE Goal
  <2>1. RelayP!Receive(m)
    BY <1>5 DEF ReceiveReady, Relay!Receive, RelayP!Receive, Relay!Accepts, RelayP!Accepts
  <2> QED BY <2>1 DEF RelayP!Next
<1>6. ASSUME NEW w \in Workers, Consumer(w) \/ Crash(w) PROVE Goal
  <2>1. CASE IntakeStep(w)
    BY <1>3, <2>1
  <2>2. ASSUME \E taken \in SUBSET {Slot(k) : k \in Upstream} : ClaimBatch(w, taken)
        PROVE  UNCHANGED <<outboxVars, events>>
    BY <2>2 DEF ClaimBatch, Log!Claim
  <2>3. ASSUME \/ Acked(w) \/ AckError(w) \/ Failed(w) \/ Crash(w)
               \/ \E d \in todo[w] : consumeInvoiceDelivery(w, d)
        PROVE  UNCHANGED <<outboxVars, events>>
    BY <2>3 DEF Acked, AckError, Failed, Crash, consumeInvoiceDelivery, Log!Ack, Log!FailRead,
                logVars
  <2> HIDE DEF Goal
  <2> QED BY <1>1, <1>6, <2>1, <2>2, <2>3 DEF Consumer
<1>7. ASSUME \/ ensureAutomationSubscriptions \/ LogStep \/ UNCHANGED vars
             \/ \E k \in Upstream : LeaseExpires(Slot(k))
             \/ \E taken \in SUBSET {Slot(k) : k \in Upstream} : ClaimLost(taken)
      PROVE  UNCHANGED <<outboxVars, events>>
  BY <1>7 DEF ensureAutomationSubscriptions, LogStep, LeaseExpires, ClaimLost, Log!Subscribe,
              Log!Due, Log!FailWrite, Log!LeaseExpires, Log!Claim, vars, logVars
<1> HIDE DEF Goal
<1>8. Goal
  BY <1>1, <1>2, <1>4, <1>5, <1>6, <1>7 DEF Next
<1> QED BY <1>8 DEF Goal

\* So each component keeps its own invariant inside the backbone.
LEMMA ComponentsStepInv == PipelineInv /\ [Next]_vars => ComponentsInv'
BY ConstantsFit, LogStepOfPipeline, IntakeStepOfPipeline, RelayStepOfPipeline,
   LogP!LogStepInv, IntakeP!InvoiceStepInv, RelayP!RelayStepInv, RelayP!OriginStepInv
   DEF PipelineInv, ComponentsInv

-------------------------------------------------------------------------------
\* What is known of a delivery stays known.
LEMMA KnownStays ==
    ASSUME PipelineInv, [Next]_vars, NEW d, Known(d)
    PROVE  Known(d)' /\ events'[d[1]] = events[d[1]]
<1>1. d \in LogP!Slots /\ d[1] \in Keys /\ events[d[1]] # None
  BY DeliveredIntent DEF Keys
<1>2. LogP!LogInv /\ [LogP!LogNext]_(LogP!logVars)
  BY LogStepOfPipeline DEF PipelineInv, ComponentsInv
<1>3. deliveries'[d].status # "NONE"
  BY <1>1, <1>2, ConstantsFit, LogP!DeliveriesStay DEF Known
<1>4. events'[d[1]] = events[d[1]]
  BY <1>1, <1>2, ConstantsFit, LogP!EventsStay
<1> QED BY <1>3, <1>4 DEF Known

\* The only new events under upstream keys are billing events.
LEMMA UpstreamBillsInv == PipelineInv /\ [Next]_vars => UpstreamBills'
<1> SUFFICES ASSUME PipelineInv, [Next]_vars PROVE UpstreamBills'
  OBVIOUS
<1>1. events \in [Keys -> LogP!Envelope \cup {None}]
  BY DEF PipelineInv, ComponentsInv, LogP!LogInv, LogP!TypeOK
<1>2. UpstreamBills
  BY DEF PipelineInv, WorkInv
<1>3. ASSUME UNCHANGED events PROVE UpstreamBills'
  BY <1>2, <1>3 DEF UpstreamBills
<1>4. ASSUME NEW k \in Upstream, NEW i \in Intents, PublishUpstream(k, i) PROVE UpstreamBills'
  <2> DEFINE r == [type |-> BillingEvent, scope |-> Partner, content |-> i,
                   occurred |-> 0, available |-> 0]
  <2>1. events' = [events EXCEPT ![k] = Log!Normalized(r, 0)]
    BY <1>4 DEF PublishUpstream, Log!Publish
  <2>2. Log!Normalized(r, 0).type = BillingEvent /\ Log!Normalized(r, 0).content = i
    BY DEF Log!Normalized
  <2>3. events'[k] = Log!Normalized(r, 0) /\ \A j \in Upstream \ {k} : events'[j] = events[j]
    BY <1>1, <2>1 DEF Keys
  <2> QED BY <1>2, <2>2, <2>3 DEF UpstreamBills
<1>5. ASSUME NEW m \in wire, ReceiveReady(m) PROVE UpstreamBills'
  <2>1. m.row \in Ids
    BY DEF PipelineInv, ComponentsInv, RelayP!RelayInv, RelayP!TypeOK, RelayP!Message
  <2>2. m.row \notin Upstream
    BY <2>1, PipelineAssumption DEF PipelineAssumption
  <2>3. CASE Log!Publish(m.row, ReadyRequest(m), 0)
    <3>1. PICK e : events' = [events EXCEPT ![m.row] = e]
      BY <2>3 DEF Log!Publish
    <3>2. \A j \in Upstream : events'[j] = events[j]
      BY <1>1, <2>2, <3>1 DEF Keys
    <3> QED BY <1>2, <3>2 DEF UpstreamBills
  <2>4. CASE UNCHANGED logVars
    BY <1>3, <2>4 DEF logVars
  <2> QED BY <1>5, <2>3, <2>4 DEF ReceiveReady
<1>6. ASSUME NEW w \in Workers, Consumer(w) \/ Crash(w) PROVE UNCHANGED events
  BY <1>6 DEF Consumer, ClaimBatch, consumeInvoiceDelivery, IntakeStep, Acked, AckError, Failed,
              Crash, Log!Claim, Log!Ack, Log!FailRead, logVars
<1>7. ASSUME \/ ensureAutomationSubscriptions \/ LogStep \/ RelayStep \/ UNCHANGED vars
             \/ \E k \in Upstream : LeaseExpires(Slot(k))
             \/ \E taken \in SUBSET {Slot(k) : k \in Upstream} : ClaimLost(taken)
      PROVE  UNCHANGED events
  BY <1>7 DEF ensureAutomationSubscriptions, LogStep, LeaseExpires, ClaimLost, RelayStep,
              Log!Subscribe, Log!Due, Log!FailWrite, Log!LeaseExpires, Log!Claim, vars, logVars
<1> QED BY <1>3, <1>4, <1>5, <1>6, <1>7 DEF Next

\* Invoices are only added, each by a worker's insert and with its source.
LEMMA InvoicesAreAdded ==
    ASSUME PipelineInv, [Next]_vars
    PROVE  \/ UNCHANGED invoices
           \/ \E w \in Workers, i \in Ids : IntakeStep(w) /\ Intake!Insert(w, i)
<1>1. ASSUME NEW w \in Workers, IntakeStep(w)
      PROVE  UNCHANGED invoices \/ \E i \in Ids : Intake!Insert(w, i)
  BY <1>1 DEF IntakeStep, Intake!FirstLookup, Intake!ReadPolicy, Intake!Recheck, Intake!Lookup,
              Intake!InsertRefused, Intake!IntakeFails
<1>2. ASSUME NEW w \in Workers,
             \/ Acked(w) \/ AckError(w) \/ Failed(w) \/ Crash(w)
             \/ \E taken \in SUBSET {Slot(k) : k \in Upstream} : ClaimBatch(w, taken)
             \/ \E d \in todo[w] : consumeInvoiceDelivery(w, d)
      PROVE  UNCHANGED invoices
  BY <1>2 DEF ClaimBatch, consumeInvoiceDelivery, Acked, AckError, Failed, Crash,
              Intake!StartIntake, Intake!Release, intakeVars
<1>3. ASSUME \/ ensureAutomationSubscriptions \/ LogStep \/ RelayStep \/ UNCHANGED vars
             \/ \E k \in Upstream, i \in Intents : PublishUpstream(k, i)
             \/ \E k \in Upstream : LeaseExpires(Slot(k))
             \/ \E taken \in SUBSET {Slot(k) : k \in Upstream} : ClaimLost(taken)
             \/ \E m \in wire : ReceiveReady(m)
      PROVE  UNCHANGED invoices
  BY <1>3 DEF ensureAutomationSubscriptions, LogStep, LeaseExpires, ClaimLost, RelayStep,
              PublishUpstream, ReceiveReady, vars, intakeVars
<1> QED BY <1>1, <1>2, <1>3 DEF Next, Consumer

\* Invoices are only added, and each of them has a source.
LEMMA InvoicesInv ==
    ASSUME PipelineInv, [Next]_vars
    PROVE  invoices \subseteq invoices' /\ InvoicesHaveSources'
<1>1. InvoicesHaveSources
  BY DEF PipelineInv, WorkInv
<1>2. CASE UNCHANGED invoices
  BY <1>1, <1>2 DEF InvoicesHaveSources
<1>3. ASSUME NEW w \in Workers, NEW i \in Ids, Intake!Insert(w, i)
      PROVE  invoices \subseteq invoices' /\ InvoicesHaveSources'
  <2>1. job[w].source \in Sources
    BY <1>3, JobOfWorker, DeliveredIntent DEF Intake!Insert, Intents
  <2> QED BY <1>1, <1>3, <2>1 DEF Intake!Insert, InvoicesHaveSources
<1> QED BY <1>2, <1>3, InvoicesAreAdded

-------------------------------------------------------------------------------
\* A worker that drops deliveries, moves on in its job or ends it keeps its work in order.
LEMMA WorkKept ==
    ASSUME PipelineInv, [Next]_vars, NEW w \in Workers, todo'[w] \subseteq todo[w],
           \/ current'[w] = None /\ job'[w] = Intake!Idle
           \/ /\ current'[w] = current[w]
              /\ \/ job'[w] = job[w]
                 \/ /\ job[w] # Intake!Idle /\ job'[w].op = job[w].op
                    /\ job'[w].source = job[w].source /\ job'[w].content = job[w].content
    PROVE  WorkOf(w)'
<1>1. WorkOf(w)
  BY DEF PipelineInv, WorkInv, WorkIsDelivered
<1>2. \A d \in todo'[w] : Known(d)'
  BY <1>1, KnownStays DEF WorkOf
<1>3. Intake!Idle' = Intake!Idle
  BY DEF Intake!Idle
<1>4. CASE current'[w] = None /\ job'[w] = Intake!Idle
  BY <1>2, <1>3, <1>4 DEF WorkOf
<1>5. CASE current'[w] = current[w] /\ current[w] = None
  <2>1. job'[w] = Intake!Idle
    BY <1>1, <1>5 DEF WorkOf
  <2> QED BY <1>2, <1>3, <1>5, <2>1 DEF WorkOf
<1>6. CASE current'[w] = current[w] /\ current[w] # None
  <2> DEFINE d == current[w]
  <2>1. Known(d)' /\ events'[d[1]] = events[d[1]]
    BY <1>1, <1>6, KnownStays DEF WorkOf
  <2> HIDE DEF d
  <2>2. current'[w] = d
    BY <1>6 DEF d
  <2>3. job'[w] # Intake!Idle => /\ job'[w].op = "automate"
                                 /\ job'[w].source = events[d[1]].content.source
                                 /\ job'[w].content = events[d[1]].content.content
    BY <1>1, <1>6 DEF WorkOf, IntentOf, d
  <2> QED BY <1>2, <1>3, <1>6, <2>1, <2>2, <2>3 DEF WorkOf, IntentOf, Known, d
<1> QED BY <1>4, <1>5, <1>6

\* A step of its intake keeps the source and the content of a job.
LEMMA IntakeKeepsIntent ==
    ASSUME PipelineInv, NEW w \in Workers, IntakeStep(w)
    PROVE  /\ job[w] # Intake!Idle /\ job'[w].op = job[w].op
           /\ job'[w].source = job[w].source /\ job'[w].content = job[w].content
           /\ \A v \in Workers \ {w} : job'[v] = job[v]
<1>1. job \in [Workers -> IntakeP!FinalizeJob \cup IntakeP!IntakeJob \cup {IntakeP!Idle}]
  BY DEF PipelineInv, ComponentsInv, IntakeP!InvoiceInv, IntakeP!JobTypeOK
<1>2. job[w] # Intake!Idle
  <2>1. job[w] # Intake!Idle \/ job[w].op = "automate"
    BY DEF IntakeStep, Intake!FirstLookup, Intake!ReadPolicy, Intake!Recheck,
           Intake!InsertRefused, Intake!IntakeFails, Intake!Insert
  <2> QED BY <2>1 DEF Intake!Idle
<1>3. job[w].op = "automate"
  BY <1>2 DEF PipelineInv, WorkInv, WorkIsDelivered, WorkOf
<1>4. job[w] \in IntakeP!IntakeJob
  BY <1>1, <1>3 DEF IntakeP!FinalizeJob, IntakeP!Idle
<1>5. \/ \E pc : job' = [job EXCEPT ![w].pc = pc]
      \/ \E pc, p : job' = [job EXCEPT ![w].policy = p, ![w].pc = pc]
  BY DEF IntakeStep, Intake!FirstLookup, Intake!ReadPolicy, Intake!Recheck, Intake!Lookup,
         Intake!InsertRefused, Intake!IntakeFails, Intake!Insert
<1>6. job'[w].op = job[w].op /\ job'[w].source = job[w].source /\ job'[w].content = job[w].content
  BY <1>1, <1>4, <1>5 DEF IntakeP!IntakeJob
<1>7. \A v \in Workers \ {w} : job'[v] = job[v]
  BY <1>1, <1>5
<1> QED BY <1>2, <1>6, <1>7

\* What the consumer works on was delivered to it, and what a worker posts is that intent.
LEMMA WorkInvStep == PipelineInv /\ [Next]_vars => WorkIsDelivered' /\ WorkersTyped'
<1> SUFFICES ASSUME PipelineInv, [Next]_vars PROVE WorkIsDelivered' /\ WorkersTyped'
  OBVIOUS
<1> DEFINE Goal == WorkIsDelivered' /\ WorkersTyped'
<1>1. /\ DOMAIN todo = Workers /\ DOMAIN current = Workers
      /\ job \in [Workers -> IntakeP!FinalizeJob \cup IntakeP!IntakeJob \cup {IntakeP!Idle}]
  BY DEF PipelineInv, WorkInv, WorkersTyped, ComponentsInv, IntakeP!InvoiceInv, IntakeP!JobTypeOK
<1>2. ASSUME UNCHANGED <<todo, current, job>> PROVE Goal
  <2>1. \A w \in Workers : WorkOf(w)'
    BY <1>2, WorkKept
  <2> QED BY <1>1, <1>2, <2>1 DEF WorkIsDelivered, WorkersTyped
<1>3. ASSUME NEW w \in Workers, NEW taken \in SUBSET {Slot(k) : k \in Upstream}, ClaimBatch(w, taken)
      PROVE  Goal
  <2>1. /\ todo' = [todo EXCEPT ![w] = taken] /\ UNCHANGED <<current, job>>
        /\ current[w] = None /\ Log!Claim(Finance, taken)
    BY <1>3 DEF ClaimBatch, Free, intakeVars
  <2>2. \A v \in Workers \ {w} : todo'[v] = todo[v] /\ WorkOf(v)'
    BY <1>1, <2>1, WorkKept
  <2>3. todo'[w] = taken /\ DOMAIN todo' = Workers
    BY <1>1, <2>1
  <2>4. \A d \in taken : Known(d)'
    <3>1. ASSUME NEW d \in taken PROVE Known(d)
      <4>1. (\E k \in Upstream : d = Slot(k)) /\ Log!Claimable(d)
        BY <2>1 DEF Log!Claim
      <4> QED BY <4>1 DEF Log!Claimable, Known
    <3> QED BY <3>1, KnownStays
  <2>5. job'[w] = Intake!Idle /\ Intake!Idle' = Intake!Idle
    BY <2>1 DEF PipelineInv, WorkInv, WorkIsDelivered, WorkOf, Intake!Idle
  <2>6. WorkOf(w)'
    BY <2>1, <2>3, <2>4, <2>5 DEF WorkOf
  <2> QED BY <1>1, <2>1, <2>2, <2>3, <2>6 DEF WorkIsDelivered, WorkersTyped
<1>4. ASSUME NEW w \in Workers, NEW d \in todo[w], consumeInvoiceDelivery(w, d)
      PROVE  Goal
  <2> DEFINE i == events[d[1]].content
             j == [op |-> "automate", source |-> i.source, content |-> i.content, policy |-> None,
                   pc |-> IF i.content \in Complete THEN "lookup" ELSE "error"]
  <2>1. /\ todo' = [todo EXCEPT ![w] = @ \ {d}] /\ current' = [current EXCEPT ![w] = d]
        /\ job' = [job EXCEPT ![w] = j] /\ events' = events
    BY <1>4 DEF consumeInvoiceDelivery, Intake!StartIntake, logVars
  <2>2. Known(d)
    BY DEF PipelineInv, WorkInv, WorkIsDelivered, WorkOf
  <2>3. \A v \in Workers \ {w} : WorkOf(v)'
    <3>1. \A v \in Workers \ {w} : todo'[v] = todo[v] /\ current'[v] = current[v] /\ job'[v] = job[v]
      BY <1>1, <2>1
    <3> QED BY <3>1, WorkKept
  <2>4. /\ todo'[w] = todo[w] \ {d} /\ current'[w] = d /\ job'[w] = j
        /\ DOMAIN todo' = Workers /\ DOMAIN current' = Workers
    BY <1>1, <2>1
  <2>5. \A x \in todo'[w] : Known(x)'
    BY <2>4, KnownStays DEF PipelineInv, WorkInv, WorkIsDelivered, WorkOf
  <2>6. Known(d)'
    BY <2>2, KnownStays
  <2>7. d # None
    BY <2>2, SlotFacts DEF Known
  <2>8. j.op = "automate" /\ j.source = events'[d[1]].content.source
        /\ j.content = events'[d[1]].content.content
    BY <2>1
  <2>9. WorkOf(w)'
    <3> HIDE DEF j
    <3> QED BY <2>4, <2>5, <2>6, <2>7, <2>8 DEF WorkOf, IntentOf, Known
  <2> QED BY <2>3, <2>4, <2>9 DEF WorkIsDelivered, WorkersTyped
<1>5. ASSUME NEW w \in Workers, IntakeStep(w) PROVE Goal
  <2>1. UNCHANGED <<todo, current>>
    BY <1>5 DEF IntakeStep, consumerVars
  <2>2. \A v \in Workers : WorkOf(v)'
    BY <1>5, <2>1, IntakeKeepsIntent, WorkKept
  <2> QED BY <1>1, <2>1, <2>2 DEF WorkIsDelivered, WorkersTyped
<1>6. ASSUME NEW w \in Workers, Acked(w) \/ AckError(w) \/ Failed(w) \/ Crash(w) PROVE Goal
  <2>1. current' = [current EXCEPT ![w] = None]
    BY <1>6 DEF Acked, AckError, Failed, Crash
  <2>2. todo' = todo \/ todo' = [todo EXCEPT ![w] = {}]
    BY <1>6 DEF Acked, AckError, Failed, Crash
  <2>3. job' = [job EXCEPT ![w] = Intake!Idle] \/ (job[w] = Intake!Idle /\ job' = job)
    BY <1>6 DEF Acked, AckError, Failed, Crash, Intake!Release, intakeVars
  <2>4. /\ todo'[w] \subseteq todo[w] /\ current'[w] = None /\ job'[w] = Intake!Idle
        /\ DOMAIN todo' = Workers /\ DOMAIN current' = Workers
    BY <1>1, <2>1, <2>2, <2>3
  <2>5. \A v \in Workers \ {w} : todo'[v] = todo[v] /\ current'[v] = current[v] /\ job'[v] = job[v]
    BY <1>1, <2>1, <2>2, <2>3
  <2>6. \A v \in Workers : WorkOf(v)'
    BY <2>4, <2>5, WorkKept
  <2> QED BY <2>4, <2>6 DEF WorkIsDelivered, WorkersTyped
<1>7. ASSUME \/ ensureAutomationSubscriptions \/ LogStep \/ RelayStep \/ UNCHANGED vars
             \/ \E k \in Upstream, i \in Intents : PublishUpstream(k, i)
             \/ \E k \in Upstream : LeaseExpires(Slot(k))
             \/ \E taken \in SUBSET {Slot(k) : k \in Upstream} : ClaimLost(taken)
             \/ \E m \in wire : ReceiveReady(m)
      PROVE  UNCHANGED <<todo, current, job>>
  BY <1>7 DEF ensureAutomationSubscriptions, LogStep, LeaseExpires, ClaimLost, RelayStep,
              PublishUpstream, ReceiveReady, vars, intakeVars, consumerVars
<1> HIDE DEF Goal
<1>8. Goal
  BY <1>2, <1>3, <1>4, <1>5, <1>6, <1>7 DEF Next, Consumer
<1> QED BY <1>8 DEF Goal

-------------------------------------------------------------------------------
\* A delivery becomes acknowledged only by a worker that holds it and whose intake succeeded.
LEMMA AckFollowsSuccess ==
    ASSUME PipelineInv, [Next]_vars, NEW d \in LogP!Slots, deliveries'[d].status = "ACKED"
    PROVE  \/ deliveries[d].status = "ACKED"
           \/ \E w \in Workers : current[w] = d /\ Answered(w, "ok")
<1> DEFINE Goal == \/ deliveries[d].status = "ACKED"
                   \/ \E w \in Workers : current[w] = d /\ Answered(w, "ok")
<1>1. LogP!LogInv /\ LogP!LogAssumption
  BY ConstantsFit DEF PipelineInv, ComponentsInv
<1>2. ASSUME UNCHANGED deliveries PROVE Goal
  BY <1>2
<1>3. ASSUME NEW k, NEW r, NEW now, Log!Publish(k, r, now) PROVE Goal
  <2>1. deliveries'[d] = deliveries[d] \/ deliveries'[d].status = "PENDING"
    BY <1>3 DEF Log!Publish, Log!Slots, LogP!Slots
  <2> QED BY <2>1
<1>4. ASSUME NEW taken \in SUBSET {Slot(k) : k \in Upstream}, Log!Claim(Finance, taken) PROVE Goal
  <2>1. LogP!Claim(Finance, taken)
    BY <1>4 DEF Log!Claim, LogP!Claim, Log!Claimable, LogP!Claimable, Log!Slots, LogP!Slots
  <2>2. taken \in SUBSET LogP!Slots
    BY SlotFacts
  <2> QED BY <1>1, <2>1, <2>2, LogP!OnlyAckAcks
<1>5. ASSUME NEW x \in LogP!Slots, Log!Due(x) \/ Log!LeaseExpires(x) PROVE Goal
  <2>1. LogP!Due(x) \/ LogP!LeaseExpires(x)
    BY <1>5 DEF Log!Due, LogP!Due, Log!LeaseExpires, LogP!LeaseExpires
  <2> QED BY <1>1, <2>1, LogP!OnlyAckAcks
<1>6. ASSUME NEW h \in failing, Log!FailWrite(h) PROVE Goal
  <2>1. LogP!FailWrite(h)
    BY <1>6 DEF Log!FailWrite, LogP!FailWrite
  <2> QED BY <1>1, <2>1, LogP!OnlyAckAcks
<1>7. ASSUME NEW w \in Workers, Answered(w, "ok"), Log!Ack(current[w]) PROVE Goal
  <2>1. CASE current[w] = d
    BY <1>7, <2>1
  <2>2. CASE current[w] # d
    <3>1. deliveries'[d] = deliveries[d]
      BY <1>1, <1>7, <2>2 DEF Log!Ack, LogP!LogInv, LogP!TypeOK
    <3> QED BY <3>1
  <2> QED BY <2>1, <2>2
<1>8. ASSUME NEW w \in Workers, Consumer(w) \/ Crash(w) PROVE Goal
  <2>1. ASSUME NEW taken \in SUBSET {Slot(k) : k \in Upstream}, ClaimBatch(w, taken) PROVE Goal
    BY <1>4, <2>1 DEF ClaimBatch
  <2>2. ASSUME Acked(w) \/ AckError(w) PROVE Goal
    BY <1>2, <1>7, <2>2 DEF Acked, AckError, logVars
  <2>3. ASSUME \/ Failed(w) \/ Crash(w) \/ IntakeStep(w)
               \/ \E x \in todo[w] : consumeInvoiceDelivery(w, x)
        PROVE  UNCHANGED deliveries
    BY <2>3 DEF Failed, Crash, IntakeStep, consumeInvoiceDelivery, Log!FailRead, logVars
  <2> HIDE DEF Goal
  <2> QED BY <1>2, <1>8, <2>1, <2>2, <2>3 DEF Consumer
<1>9. ASSUME NEW k \in Upstream, LeaseExpires(Slot(k)) \/ Log!Due(Slot(k)) PROVE Goal
  BY <1>5, <1>9, SlotFacts DEF LeaseExpires
<1>10. ASSUME LogStep PROVE Goal
  <2> HIDE DEF Goal
  <2> QED BY <1>6, <1>9, <1>10 DEF LogStep
<1>11. ASSUME \/ \E k \in Upstream, i \in Intents : PublishUpstream(k, i)
              \/ \E m \in wire : ReceiveReady(m)
       PROVE  Goal
  <2> HIDE DEF Goal
  <2> QED BY <1>2, <1>3, <1>11 DEF PublishUpstream, ReceiveReady, logVars
<1>12. ASSUME NEW taken \in SUBSET {Slot(k) : k \in Upstream}, ClaimLost(taken) PROVE Goal
  BY <1>4, <1>12 DEF ClaimLost
<1>13. ASSUME ensureAutomationSubscriptions \/ RelayStep \/ UNCHANGED vars
       PROVE  UNCHANGED deliveries
  BY <1>13 DEF ensureAutomationSubscriptions, RelayStep, Log!Subscribe, vars, logVars
<1> HIDE DEF Goal
<1>14. Goal
  BY <1>2, <1>8, <1>9, <1>10, <1>11, <1>12, <1>13 DEF Next
<1> QED BY <1>14 DEF Goal

\* An acknowledgement follows the success of the very intent of its delivery.
LEMMA AckedInvoicedInv == PipelineInv /\ [Next]_vars => AckedMeansInvoiced'
<1> SUFFICES ASSUME PipelineInv, [Next]_vars, NEW k \in Upstream,
                    deliveries'[Slot(k)].status = "ACKED"
             PROVE  \E x \in invoices' : /\ x.source = events'[k].content.source
                                         /\ x.hash = events'[k].content.content
  BY DEF AckedMeansInvoiced, Slot
<1>1. Slot(k) \in LogP!Slots /\ Slot(k)[1] = k
  BY SlotFacts
<1>2. invoices \subseteq invoices'
  BY InvoicesInv
<1>3. CASE deliveries[Slot(k)].status = "ACKED"
  <2>1. events'[k] = events[k]
    BY <1>1, <1>3, KnownStays DEF Known
  <2> QED BY <1>2, <1>3, <2>1 DEF PipelineInv, AckedMeansInvoiced
<1>4. ASSUME NEW w \in Workers, current[w] = Slot(k), Answered(w, "ok")
      PROVE  \E x \in invoices' : /\ x.source = events'[k].content.source
                                  /\ x.hash = events'[k].content.content
  <2>1. /\ Known(Slot(k)) /\ job[w].source = events[k].content.source
        /\ job[w].content = events[k].content.content
    BY <1>1, <1>4, JobOfWorker DEF Answered, IntentOf
  <2>2. events'[k] = events[k]
    BY <1>1, <2>1, KnownStays
  <2>3. PICK x \in invoices : x.source = job[w].source /\ x.hash = job[w].content
    BY <1>4 DEF Answered, PipelineInv, ComponentsInv, IntakeP!InvoiceInv,
                IntakeP!SuccessMeansInvoiced
  <2> QED BY <1>2, <2>1, <2>2, <2>3
<1> QED BY <1>1, <1>3, <1>4, AckFollowsSuccess

\* Every step of the backbone preserves the invariant.
LEMMA PipelineStepInv == PipelineInv /\ [Next]_vars => PipelineInv'
BY ComponentsStepInv, UpstreamBillsInv, WorkInvStep, InvoicesInv, AckedInvoicedInv
   DEF PipelineInv, WorkInv

\* The invariant of the backbone holds in every reachable state.
THEOREM PipelineInvariant == Spec => []PipelineInv
<1> QED BY PipelineInitInv, PipelineStepInv, PTL DEF Spec

\* An invoice's row is in the outbox exactly when the invoice is there and final.
LEMMA AnnouncedIsCommitted ==
    ASSUME PipelineInv, NEW i \in Ids, events[i] # None
    PROVE  \E x \in invoices : x.id = i /\ x.status = "READY_FOR_ISSUE"
<1>1. outbox[i].status # "ABSENT"
  <2>1. LogP!TypeOK
    BY DEF PipelineInv, ComponentsInv, LogP!LogInv
  <2>2. events[i].available \in 0..MaxStamp
    BY <2>1 DEF LogP!TypeOK, LogP!Envelope, Keys
  <2>3. events[i].available # None
    BY <2>2, ConstantsFit DEF RelayP!RelayAssumption
  <2> QED BY <2>3 DEF PipelineInv, ComponentsInv, RelayP!OriginInv
<1>2. IntakeP!StoreInv
  BY DEF PipelineInv, ComponentsInv, IntakeP!InvoiceInv
<1>3. i \notin IntakeP!Unused
  BY <1>1, <1>2 DEF IntakeP!StoreInv, IntakeP!FreshIdsAreClean
<1>4. PICK x \in invoices : x.id = i
  BY <1>3 DEF IntakeP!Unused
<1>5. x.status = "READY_FOR_ISSUE"
  BY <1>1, <1>2, <1>4 DEF IntakeP!StoreInv, IntakeP!ReadyEventExactlyOnce
<1> QED BY <1>4, <1>5

\* What the bus says is true of the store: an acknowledged delivery
\* (automation_consumer.go) has its invoice and an announced invoice is committed.
THEOREM TheBusTellsTheTruth == Spec => []PipelineSafe
<1>1. PipelineInv => PipelineSafe
  BY AnnouncedIsCommitted DEF PipelineSafe, AnnouncedMeansCommitted, PipelineInv
<1> QED BY <1>1, PipelineInvariant, PTL

\* Put together, with every fault of the network, of workers and of relays, the log, the
\* invoice store and the relay each still implement the specification written for them alone:
\* what is proved of one of them holds of it here.
THEOREM ComponentsKeepTheirSpecs ==
    Spec => LogP!LogSpec /\ IntakeP!Spec /\ RelayP!Spec
<1> QED BY ComponentsInit, LogStepOfPipeline, IntakeStepOfPipeline, RelayStepOfPipeline,
       PipelineInvariant, PTL DEF Spec, LogP!LogSpec, IntakeP!Spec, RelayP!Spec

-------------------------------------------------------------------------------
\* Where no two invoices have the same source, an invoice is the one its source names.
LEMMA ChosenBySource ==
    ASSUME NEW S, \A x, y \in S : x.source = y.source => x = y, NEW x \in S
    PROVE  (CHOOSE y \in S : y.source = x.source) = x
OBVIOUS

\* An invoice is the only one of its source and of its id, and what its source was billed with.
LEMMA InvoiceFacts ==
    ASSUME PipelineInv
    PROVE  /\ \A x, y \in invoices : (x.source = y.source => x = y) /\ (x.id = y.id => x = y)
           /\ \A x \in invoices : /\ x.source \in Sources /\ x.id \in Ids /\ x.hash \in Contents
                                  /\ Intake!Taken(x.source) /\ InvoiceOf(x.source) = x
           /\ \A s : Intake!Taken(s) => InvoiceOf(s) \in invoices /\ InvoiceOf(s).source = s
<1>1. IntakeP!StoreInv /\ InvoicesHaveSources
  BY DEF PipelineInv, ComponentsInv, IntakeP!InvoiceInv, WorkInv
<1>2. \A x \in invoices : x.source \in Sources /\ x.source # None
  BY <1>1, ConstantsFit DEF InvoicesHaveSources, IntakeP!InvoiceAssumption
<1>3. \A x, y \in invoices : (x.source = y.source => x = y) /\ (x.id = y.id => x = y)
  BY <1>1, <1>2 DEF IntakeP!StoreInv, IntakeP!OneInvoicePerSource, IntakeP!IdsAreKeys
<1>4. \A x \in invoices : x.id \in Ids /\ x.hash \in Contents
  BY <1>1 DEF IntakeP!StoreInv, IntakeP!Invoice
<1>5. \A x \in invoices : InvoiceOf(x.source) = x
  BY <1>3, ChosenBySource DEF InvoiceOf
<1> QED BY <1>2, <1>3, <1>4, <1>5 DEF Intake!Taken

\* No invoice is added: what was billed stays, and an event accepted under an invoice's id
\* is the announcement of its source.
LEMMA AnnounceStep ==
    ASSUME PipelineInv, PipelineSafe', [Next]_vars, UNCHANGED invoices
    PROVE  [Once!Next]_<<billed, announced>>
<1>1. UNCHANGED billed
  BY DEF billed, InvoiceOf, Intake!Taken
<1>2. /\ \A x \in invoices : /\ x.source \in Sources /\ x.id \in Ids /\ x.hash \in Contents
                             /\ Intake!Taken(x.source) /\ InvoiceOf(x.source) = x
      /\ \A x, y \in invoices : x.id = y.id => x = y
      /\ \A s : Intake!Taken(s) => InvoiceOf(s) \in invoices /\ InvoiceOf(s).source = s
  BY InvoiceFacts
<1>3. /\ announced = {s \in Sources : Intake!Taken(s) /\ events[InvoiceOf(s).id] # None}
      /\ announced' = {s \in Sources : Intake!Taken(s) /\ events'[InvoiceOf(s).id] # None}
  BY DEF announced, Intake!Taken, InvoiceOf
<1>4. CASE \A i \in Ids : events'[i] = events[i]
  <2>1. \A s : Intake!Taken(s) => events'[InvoiceOf(s).id] = events[InvoiceOf(s).id]
    BY <1>2, <1>4
  <2>2. announced' = announced
    BY <1>3, <2>1
  <2> QED BY <1>1, <2>2
<1>5. CASE ~ \A i \in Ids : events'[i] = events[i]
  <2>1. LogP!LogNext
    BY <1>5, LogStepOfPipeline DEF LogP!logVars
  <2>2. PICK k \in Keys, r \in LogP!Request, now \in 0..MaxStamp : LogP!Publish(k, r, now)
    BY <1>5, <2>1, ConstantsFit, LogP!OnlyPublishWrites
  <2>3. /\ events[k] = None
        /\ \A j \in Keys : j # k => events'[j] = events[j]
    BY <2>2 DEF LogP!Publish, LogP!Answer, PipelineInv, ComponentsInv, LogP!LogInv, LogP!TypeOK
  <2>4. k \in Ids /\ events'[k] # None
    BY <1>5, <2>3 DEF Keys
  <2>5. PICK x \in invoices : x.id = k
    BY <2>4 DEF PipelineSafe, AnnouncedMeansCommitted
  <2> DEFINE s == x.source
  <2>6. billed[s] # None /\ s \in Sources
    BY <1>2, <2>5, PipelineAssumption DEF billed, PipelineAssumption
  <2>7. s \notin announced
    BY <1>2, <1>3, <2>3, <2>5
  <2>8. announced' = announced \cup {s}
    <3>1. ASSUME NEW t \in Sources, Intake!Taken(t), t # s
          PROVE  events'[InvoiceOf(t).id] = events[InvoiceOf(t).id]
      BY <1>2, <2>3, <2>5, <3>1 DEF Keys
    <3>2. events'[InvoiceOf(s).id] # None /\ Intake!Taken(s)
      BY <1>2, <2>4, <2>5
    <3> QED BY <1>3, <2>6, <3>1, <3>2
  <2> QED BY <1>1, <2>6, <2>7, <2>8 DEF Once!Next, Once!Announce
<1> QED BY <1>4, <1>5

\* An insert bills its source, which had no invoice, and announces nothing.
LEMMA BillStep ==
    ASSUME PipelineInv, PipelineInv', [Next]_vars, NEW w \in Workers, NEW i \in Ids,
           IntakeStep(w), Intake!Insert(w, i)
    PROVE  Once!Next
<1> DEFINE s == job[w].source
           c == job[w].content
           x == [id |-> i, source |-> s, key |-> AutoKey[s], hash |-> c, content |-> c,
                 status |-> "READY_FOR_ISSUE", policy |-> job[w].policy]
<1>1. s \in Sources /\ c \in Contents
  BY JobOfWorker, DeliveredIntent DEF Intake!Insert, Intents
<1>2. invoices' = invoices \cup {x} /\ ~Intake!Taken(s) /\ i \in Intake!Unused
  BY DEF Intake!Insert, Intake!UniqueViolation
<1>3. x.source = s /\ x.hash = c /\ x.id = i
  OBVIOUS
<1> HIDE DEF x, s, c
<1>4. events' = events
  BY DEF IntakeStep, logVars
<1>5. events[i] = None
  BY <1>2, AnnouncedIsCommitted DEF Intake!Unused
<1>6. \A t : Intake!Taken(t) => InvoiceOf(t) \in invoices /\ InvoiceOf(t).source = t
  BY InvoiceFacts
<1>7. \A y, z \in invoices' : y.source = z.source => y = z
  <2>1. \A y \in invoices : y.source # s
    BY <1>2 DEF Intake!Taken
  <2> QED BY <1>2, <1>3, <2>1, InvoiceFacts
<1>8. \A t : Intake!Taken(t)' <=> Intake!Taken(t) \/ t = s
  BY <1>2, <1>3 DEF Intake!Taken
<1>9. \A t : Intake!Taken(t) => (CHOOSE y \in invoices' : y.source = t) = InvoiceOf(t)
  <2> SUFFICES ASSUME NEW t, Intake!Taken(t)
               PROVE  (CHOOSE y \in invoices' : y.source = t) = InvoiceOf(t)
    OBVIOUS
  <2>1. InvoiceOf(t) \in invoices' /\ InvoiceOf(t).source = t
    BY <1>2, <1>6
  <2> QED BY <1>7, <2>1, ChosenBySource
<1>10. (CHOOSE y \in invoices' : y.source = s) = x
  BY <1>2, <1>3, <1>7, ChosenBySource
<1>11. billed' = [billed EXCEPT ![s] = c] /\ billed[s] = None
  <2>1. \A t \in Sources : billed[t] = IF Intake!Taken(t) THEN InvoiceOf(t).hash ELSE None
    BY DEF billed
  <2>2. billed' = [t \in Sources |-> IF Intake!Taken(t)' THEN (CHOOSE y \in invoices' : y.source = t).hash
                                     ELSE None]
    BY DEF billed, InvoiceOf
  <2>3. \A t \in Sources : billed'[t] = IF t = s THEN c ELSE billed[t]
    BY <1>2, <1>3, <1>8, <1>9, <1>10, <2>1, <2>2
  <2>4. DOMAIN billed = Sources /\ billed = [t \in Sources |-> billed[t]]
    BY DEF billed
  <2> QED BY <1>1, <1>2, <2>1, <2>2, <2>3, <2>4
<1>12. announced' = announced
  <2>1. announced = {t \in Sources : Intake!Taken(t) /\ events[InvoiceOf(t).id] # None}
    BY DEF announced
  <2>2. announced' = {t \in Sources : /\ Intake!Taken(t)'
                                      /\ events'[(CHOOSE y \in invoices' : y.source = t).id] # None}
    BY DEF announced, InvoiceOf
  <2>3. \A t \in Sources :
           Intake!Taken(t)' /\ events'[(CHOOSE y \in invoices' : y.source = t).id] # None
             <=> Intake!Taken(t) /\ events[InvoiceOf(t).id] # None
    <3>1. events'[(CHOOSE y \in invoices' : y.source = s).id] = None
      BY <1>3, <1>4, <1>5, <1>10
    <3>2. \A t \in Sources : Intake!Taken(t) =>
            events'[(CHOOSE y \in invoices' : y.source = t).id] = events[InvoiceOf(t).id]
      BY <1>4, <1>9
    <3>3. ~Intake!Taken(s)
      BY <1>2
    <3> SUFFICES ASSUME NEW t \in Sources
                 PROVE  Intake!Taken(t)' /\ events'[(CHOOSE y \in invoices' : y.source = t).id] # None
                          <=> Intake!Taken(t) /\ events[InvoiceOf(t).id] # None
      OBVIOUS
    <3>4. CASE t = s
      BY <3>1, <3>3, <3>4
    <3>5. CASE t # s
      BY <1>8, <3>2, <3>5
    <3> QED BY <3>4, <3>5
  <2> QED BY <2>1, <2>2, <2>3
<1> QED BY <1>1, <1>11, <1>12 DEF Once!Next, Once!Bill

\* The backbone implements the abstract promise: whatever is duplicated, lost, late or
\* restarted, a source is billed once, with one content, and announced once.
THEOREM BackboneBillsOnce == Spec => BillsOnce
<1>1. Init => Once!Init
  BY ConstantsFit DEF Init, Intake!Init, Once!Init, billed, announced, Intake!Taken
<1>2. PipelineInv /\ PipelineInv' /\ PipelineSafe' /\ [Next]_vars
        => [Once!Next]_<<billed, announced>>
  BY InvoicesAreAdded, AnnounceStep, BillStep
<1> QED BY <1>1, <1>2, PipelineInvariant, TheBusTellsTheTruth, PTL DEF Spec, BillsOnce, Once!Spec

-----------------------------------------------------------------------------
(* The terms of a partner (CommercialTerms): four writers of one licence, two of one mode. *)

TmTermsRow == [version : Nat, fee : Nat, waived : BOOLEAN]
TmLicenseRow ==
    [status : {"NOT_PAID", "PAID", "WAIVED"}, required : Nat, paid : Nat, waived : BOOLEAN]
TmModeRow == [billing : TmBillings, charity : TmDecisions]

\* A licence as TmLicenseIsTrue wants it, wherever it is held.
TmTrueLicense(license, settled) ==
    /\ license \in TmLicenseRow
    /\ license.paid \in settled \cup {0} /\ (license.status = "PAID" => license.paid # 0)
    /\ license.status = "WAIVED" => license.waived
    /\ license.status = "NOT_PAID" => ~license.waived
    /\ license.required = 0 => license.waived
TmTrueMode(mode) == mode \in TmModeRow /\ (mode.billing = "CHARITY" <=> mode.charity = "APPROVED")

\* What a PUT of the terms is about to write keeps, of the version it names, what it does not carry.
TmTrueTerms(next, edit, terms) ==
    /\ next \in TmTermsRow /\ next.version # 0
    /\ next.version - 1 <= terms.version
    /\ next.fee = 0 => next.waived
    /\ next.version - 1 = terms.version =>
          \A f \in {"fee", "waived"} \ DOMAIN edit :
             next[f] = terms[f] \/ (f = "waived" /\ next.fee = 0)

\* What a handler holds between its steps.
TmTrueWork(r, terms, settled, file) ==
    /\ r.at = "terms" => TmTrueTerms(r.next, r.edit, terms)
    /\ r.at = "license" =>
          TmTrueLicense(r.next, settled) /\ (r.read.status = "PAID" => r.next.status = "PAID")
    /\ r.at = "charge" => r.amount \in Nat \ {0}
    /\ r.at \in {"documents", "agreement"} => TmTrueLicense(r.license, settled)
    /\ r.at = "agreement" => (r.invoice => file.invoice) /\ (r.payment => file.payment)
    /\ r.at = "mode" => TmTrueMode(r.next)

TmRows ==
    /\ tmTerms \in TmTermsRow /\ TmTrueLicense(tmLicense, tmSettled) /\ TmTrueMode(tmMode)
    /\ tmCharges \subseteq Nat \ {0}
    /\ tmFile \in [agreed : BOOLEAN, invoice : BOOLEAN, payment : BOOLEAN]
TmHeld ==
    /\ DOMAIN tmWork = TmWorkers
    /\ \A w \in TmWorkers : TmTrueWork(tmWork[w], tmTerms, tmSettled, tmFile)

\* A grant on its way will tell the catalogue what is owed, and what is not yet granted is on
\* its way: unless a grant was lost or overlapped.
TmBrings(r) ==
    r.at \in {"keys", "grant"} \/ (r.at = "sync" /\ TmCharitable(tmMode))
TmOnItsWay(r) ==
    /\ r.at = "grant" => r.keys = TmOwed(tmMode, tmSelection)
    /\ r.at \in {"keys", "select"} => TmCharitable(tmMode)
    /\ r.at = "mode" => (r.read.billing = "CHARITY" <=> tmMode.billing = "CHARITY")
TmGrants ==
    tmExcuse = FALSE =>
        /\ \A w \in TmWorkers : TmOnItsWay(tmWork[w])
        /\ tmGranted = TmOwed(tmMode, tmSelection) \/ \E w \in TmWorkers : TmBrings(tmWork[w])

TmInv == TmRows /\ TmHeld /\ tmExcuse \in BOOLEAN /\ TmGrants

-----------------------------------------------------------------------------
\* A merge takes from the edit only what it carries.
LEMMA TmTermsMerged ==
    ASSUME NEW t \in TmTermsRow, NEW edit \in TmTermsEdits
    PROVE  /\ TmMerge(t, edit) \in TmTermsRow /\ TmMerge(t, edit).version = t.version
           /\ \A f \in {"fee", "waived"} \ DOMAIN edit : TmMerge(t, edit)[f] = t[f]
<1>1. DOMAIN t = {"version", "fee", "waived"}
  BY DEF TmTermsRow
<1>2. /\ "version" \notin DOMAIN edit /\ ("fee" \in DOMAIN edit => edit["fee"] \in Nat)
      /\ ("waived" \in DOMAIN edit => edit["waived"] \in BOOLEAN)
  BY TmAssumption DEF TmAssumption, TmCarries
<1>3. t.version \in Nat /\ t.fee \in Nat /\ t.waived \in BOOLEAN
  BY DEF TmTermsRow
<1>4. TmMerge(t, edit) = [f \in {"version", "fee", "waived"} |-> IF f \in DOMAIN edit THEN edit[f] ELSE t[f]]
  BY <1>1 DEF TmMerge
<1>5. TmMerge(t, edit) = [version |-> t.version,
                          fee |-> IF "fee" \in DOMAIN edit THEN edit["fee"] ELSE t.fee,
                          waived |-> IF "waived" \in DOMAIN edit THEN edit["waived"] ELSE t.waived]
  BY <1>2, <1>4
<1>6. (IF "waived" \in DOMAIN edit THEN edit["waived"] ELSE t.waived) \in BOOLEAN
  BY <1>2, <1>3, Zenon
<1> QED BY <1>2, <1>3, <1>5, <1>6 DEF TmTermsRow

\* So does a merge into the licence.
LEMMA TmLicenseMerged ==
    ASSUME NEW t \in TmLicenseRow, NEW edit \in TmLicenseEdits
    PROVE  /\ TmMerge(t, edit) \in TmLicenseRow
           /\ TmMerge(t, edit).status = t.status /\ TmMerge(t, edit).paid = t.paid
<1>1. DOMAIN t = {"status", "required", "paid", "waived"}
  BY DEF TmLicenseRow
<1>2. /\ "status" \notin DOMAIN edit /\ "paid" \notin DOMAIN edit
      /\ ("required" \in DOMAIN edit => edit["required"] \in Nat)
      /\ ("waived" \in DOMAIN edit => edit["waived"] \in BOOLEAN)
  BY TmAssumption DEF TmAssumption, TmCarries
<1>3. t.status \in {"NOT_PAID", "PAID", "WAIVED"} /\ t.required \in Nat /\ t.paid \in Nat /\ t.waived \in BOOLEAN
  BY DEF TmLicenseRow
<1>4. TmMerge(t, edit) = [f \in {"status", "required", "paid", "waived"} |-> IF f \in DOMAIN edit THEN edit[f] ELSE t[f]]
  BY <1>1 DEF TmMerge
<1>5. TmMerge(t, edit) = [status |-> t.status,
                          required |-> IF "required" \in DOMAIN edit THEN edit["required"] ELSE t.required,
                          paid |-> t.paid,
                          waived |-> IF "waived" \in DOMAIN edit THEN edit["waived"] ELSE t.waived]
  BY <1>2, <1>4
<1>6. (IF "waived" \in DOMAIN edit THEN edit["waived"] ELSE t.waived) \in BOOLEAN
  BY <1>2, <1>3, Zenon
<1> QED BY <1>2, <1>3, <1>5, <1>6 DEF TmLicenseRow

\* And one into the mode.
LEMMA TmModeMerged ==
    ASSUME NEW t \in TmModeRow, NEW edit \in TmModeEdits
    PROVE  TmMerge(t, edit) \in TmModeRow
<1>1. DOMAIN t = {"billing", "charity"}
  BY DEF TmModeRow
<1>2. /\ ("billing" \in DOMAIN edit => edit["billing"] \in TmBillings)
      /\ ("charity" \in DOMAIN edit => edit["charity"] \in TmDecisions)
  BY TmAssumption DEF TmAssumption, TmCarries
<1>3. t.billing \in TmBillings /\ t.charity \in TmDecisions
  BY DEF TmModeRow
<1>4. TmMerge(t, edit) = [billing |-> IF "billing" \in DOMAIN edit THEN edit["billing"] ELSE t.billing,
                          charity |-> IF "charity" \in DOMAIN edit THEN edit["charity"] ELSE t.charity]
  BY <1>1 DEF TmMerge
<1> QED BY <1>2, <1>3, <1>4 DEF TmModeRow

\* A PUT of the terms is prepared from the row as it stands.
LEMMA TmTermsPrepared ==
    ASSUME NEW t \in TmTermsRow, NEW edit \in TmTermsEdits, NEW next, next = TmMerge(t, edit)
    PROVE  TmTrueTerms([next EXCEPT !.version = @ + 1, !.waived = @ \/ next.fee = 0], edit, t)
<1> DEFINE made == [next EXCEPT !.version = @ + 1, !.waived = @ \/ next.fee = 0]
           waived == next.waived \/ next.fee = 0
<1>1. /\ next \in TmTermsRow /\ next.version = t.version
      /\ \A f \in {"fee", "waived"} \ DOMAIN edit : next[f] = t[f]
  BY TmTermsMerged
<1>2. next = [version |-> next.version, fee |-> next.fee, waived |-> next.waived]
  BY <1>1 DEF TmTermsRow
<1>3. next.version \in Nat /\ next.fee \in Nat /\ next.waived \in BOOLEAN
  BY <1>1 DEF TmTermsRow
<1>4. PICK b \in BOOLEAN : b = waived
  <2>1. waived \in BOOLEAN
    OBVIOUS
  <2> QED BY <2>1
<1>5. made = [version |-> next.version + 1, fee |-> next.fee, waived |-> b]
  <2>1. made = [next EXCEPT !.version = next.version + 1, !.waived = b]
    BY <1>4, Zenon
  <2>2. DOMAIN next = {"version", "fee", "waived"}
    BY <1>1 DEF TmTermsRow
  <2>3. [next EXCEPT !.version = next.version + 1, !.waived = b]
          = [x \in DOMAIN next |-> IF x = "waived" THEN b ELSE IF x = "version" THEN next.version + 1 ELSE next[x]]
    OBVIOUS
  <2> HIDE DEF made
  <2>4. [x \in {"version", "fee", "waived"} |->
            IF x = "waived" THEN b ELSE IF x = "version" THEN next.version + 1 ELSE next[x]]
          = [version |-> next.version + 1, fee |-> next.fee, waived |-> b]
    OBVIOUS
  <2> QED BY <2>1, <2>2, <2>3, <2>4
<1>6. next.fee = 0 => b = TRUE
  BY <1>4, Zenon
<1>7. next.fee # 0 => b = next.waived
  BY <1>3, <1>4, Zenon
<1> HIDE DEF made, waived
<1>8. made \in TmTermsRow /\ made.version = t.version + 1 /\ made.fee = next.fee /\ made.waived = b
  BY <1>1, <1>3, <1>5 DEF TmTermsRow
<1>9. t.version \in Nat
  BY DEF TmTermsRow
<1>10. \A f \in {"fee", "waived"} \ DOMAIN edit : made[f] = t[f] \/ (f = "waived" /\ made.fee = 0)
  BY <1>1, <1>7, <1>8
<1>11. TmTrueTerms(made, edit, t)
  BY <1>6, <1>8, <1>9, <1>10 DEF TmTrueTerms
<1> QED BY <1>11 DEF made

\* So is one of the licence.
LEMMA TmLicensePrepared ==
    ASSUME TmTrueLicense(tmLicense, tmSettled), NEW edit \in TmLicenseEdits
    PROVE  /\ TmTrueLicense(TmLicensed(edit), tmSettled)
           /\ tmLicense.status = "PAID" => TmLicensed(edit).status = "PAID"
<1> DEFINE merged == TmMerge(tmLicense, edit)
           waived == merged.waived \/ merged.required = 0
           next == [merged EXCEPT !.waived = @ \/ merged.required = 0]
<1>1. /\ merged \in TmLicenseRow /\ tmLicense \in TmLicenseRow
      /\ merged.status = tmLicense.status /\ merged.paid = tmLicense.paid
  BY TmLicenseMerged DEF TmTrueLicense
<1> HIDE DEF merged
<1>2. merged = [status |-> merged.status, required |-> merged.required, paid |-> merged.paid, waived |-> merged.waived]
  BY <1>1 DEF TmLicenseRow
<1>3. /\ merged.status \in {"NOT_PAID", "PAID", "WAIVED"} /\ merged.required \in Nat /\ merged.paid \in Nat
      /\ merged.waived \in BOOLEAN
  BY <1>1 DEF TmLicenseRow
<1>4. PICK b \in BOOLEAN : b = waived
  <2>1. waived \in BOOLEAN
    OBVIOUS
  <2> QED BY <2>1
<1>5. next = [status |-> merged.status, required |-> merged.required, paid |-> merged.paid, waived |-> b]
  <2>1. next = [merged EXCEPT !.waived = b]
    BY <1>4, Zenon
  <2> QED BY <1>2, <2>1
<1>6. merged.required = 0 => b
  BY <1>4
<1> HIDE DEF next, waived
<1>7. TmLicensed(edit) =
        CASE tmLicense.status = "PAID" -> next
          [] tmLicense.status # "PAID" /\ next.waived -> [next EXCEPT !.status = "WAIVED", !.paid = 0]
          [] OTHER -> [next EXCEPT !.status = "NOT_PAID"]
  BY DEF TmLicensed, merged, next
<1>8. CASE tmLicense.status = "PAID"
  <2>1. TmLicensed(edit) = next
    BY <1>7, <1>8
  <2>2. next \in TmLicenseRow
    BY <1>3, <1>5 DEF TmLicenseRow
  <2> QED BY <1>1, <1>3, <1>5, <1>6, <1>8, <2>1, <2>2 DEF TmTrueLicense
<1>9. CASE tmLicense.status # "PAID" /\ b
  <2>1. TmLicensed(edit) = [next EXCEPT !.status = "WAIVED", !.paid = 0]
    BY <1>5, <1>7, <1>9
  <2>2. TmLicensed(edit) = [status |-> "WAIVED", required |-> merged.required, paid |-> 0, waived |-> b]
    BY <1>5, <2>1
  <2>3. TmLicensed(edit) \in TmLicenseRow
    BY <1>3, <2>2 DEF TmLicenseRow
  <2> QED BY <1>6, <1>9, <2>2, <2>3 DEF TmTrueLicense
<1>10. CASE tmLicense.status # "PAID" /\ ~b
  <2>1. TmLicensed(edit) = [next EXCEPT !.status = "NOT_PAID"]
    BY <1>5, <1>7, <1>10
  <2>2. TmLicensed(edit) = [status |-> "NOT_PAID", required |-> merged.required, paid |-> merged.paid, waived |-> b]
    BY <1>5, <2>1
  <2>3. TmLicensed(edit) \in TmLicenseRow
    BY <1>3, <2>2 DEF TmLicenseRow
  <2> QED BY <1>1, <1>3, <1>6, <1>10, <2>2, <2>3 DEF TmTrueLicense
<1> QED BY <1>8, <1>9, <1>10

\* A PATCH of the mode that is not refused makes a charity of an approved one, and no other.
LEMMA TmModePrepared ==
    ASSUME NEW mode, TmTrueMode(mode), NEW edit \in TmModeEdits,
           ~(TmDecided(mode, edit).billing = "CHARITY" /\ TmDecided(mode, edit).charity # "APPROVED")
    PROVE  TmTrueMode(TmDecided(mode, edit))
<1> DEFINE next == TmMerge(mode, edit)
           pays == next.charity = "REJECTED" /\ mode.billing = "CHARITY" /\ next.billing = "CHARITY"
           billing == CASE next.charity = "APPROVED" -> "CHARITY" [] pays -> "PAID" [] OTHER -> next.billing
<1>1. next \in TmModeRow
  BY TmModeMerged DEF TmTrueMode
<1> HIDE DEF next
<1>2. next = [billing |-> next.billing, charity |-> next.charity] /\ next.billing \in TmBillings
      /\ next.charity \in TmDecisions
  BY <1>1 DEF TmModeRow
<1>3. billing \in TmBillings /\ (next.charity = "APPROVED" => billing = "CHARITY")
  BY <1>2 DEF TmBillings
<1>4. TmDecided(mode, edit) = [next EXCEPT !.billing = billing]
  BY DEF TmDecided, next
<1> HIDE DEF billing
<1>5. TmDecided(mode, edit) = [billing |-> billing, charity |-> next.charity]
  BY <1>2, <1>4
<1> QED BY <1>2, <1>3, <1>5 DEF TmTrueMode, TmModeRow

\* What a handler holds stays true while the terms grow in versions and what was settled or
\* registered stays.
LEMMA TmLicenseKept ==
    ASSUME NEW l, NEW s, NEW s2, TmTrueLicense(l, s), s \subseteq s2
    PROVE  TmTrueLicense(l, s2)
BY DEF TmTrueLicense

\* So does all else that it holds.
LEMMA TmWorkKept ==
    ASSUME NEW r, NEW t, NEW t2, NEW s, NEW s2, NEW f, NEW f2, TmTrueWork(r, t, s, f),
           t \in TmTermsRow, t2 = t \/ (t2 \in TmTermsRow /\ t2.version > t.version), s \subseteq s2,
           f.invoice => f2.invoice, f.payment => f2.payment
    PROVE  TmTrueWork(r, t2, s2, f2)
<1>1. r.at = "terms" => TmTrueTerms(r.next, r.edit, t2)
  <2>1. SUFFICES ASSUME r.at = "terms" PROVE TmTrueTerms(r.next, r.edit, t2)
    OBVIOUS
  <2>2. TmTrueTerms(r.next, r.edit, t)
    BY <2>1 DEF TmTrueWork
  <2>3. t.version \in Nat /\ r.next.version \in Nat
    BY <2>2 DEF TmTrueTerms, TmTermsRow
  <2>4. CASE t2 \in TmTermsRow /\ t2.version > t.version
    <3>1. t2.version \in Nat
      BY <2>4 DEF TmTermsRow
    <3>2. r.next.version - 1 <= t2.version /\ r.next.version - 1 # t2.version
      BY <2>2, <2>3, <2>4, <3>1 DEF TmTrueTerms
    <3> QED BY <2>2, <3>2 DEF TmTrueTerms
  <2> QED BY <2>2, <2>4
<1>2. r.at = "license" =>
          TmTrueLicense(r.next, s2) /\ (r.read.status = "PAID" => r.next.status = "PAID")
  BY TmLicenseKept DEF TmTrueWork
<1>3. r.at \in {"documents", "agreement"} => TmTrueLicense(r.license, s2)
  BY TmLicenseKept DEF TmTrueWork
<1> QED BY <1>1, <1>2, <1>3 DEF TmTrueWork

\* Whoever holds nothing holds nothing that is untrue.
LEMMA TmIdleIsTrue ==
    ASSUME NEW t, NEW s, NEW f
    PROVE  TmTrueWork(TmIdle, t, s, f)
BY DEF TmTrueWork, TmIdle

\* One handler moves, and the rows only grow.
LEMMA TmHandlerMoves ==
    ASSUME TmHeld, tmTerms \in TmTermsRow, NEW w \in TmWorkers, NEW state, TmGo(w, state),
           tmTerms' = tmTerms \/ (tmTerms' \in TmTermsRow /\ tmTerms'.version > tmTerms.version),
           tmSettled \subseteq tmSettled', tmFile.invoice => tmFile'.invoice, tmFile.payment => tmFile'.payment,
           TmTrueWork(state, tmTerms', tmSettled', tmFile')
    PROVE  TmHeld'
<1>1. /\ DOMAIN tmWork = TmWorkers /\ DOMAIN tmWork' = TmWorkers
      /\ tmWork'[w] = state /\ \A v \in TmWorkers : v # w => tmWork'[v] = tmWork[v]
  BY DEF TmHeld, TmGo
<1>2. ASSUME NEW v \in TmWorkers PROVE TmTrueWork(tmWork'[v], tmTerms', tmSettled', tmFile')
  <2>1. CASE v = w
    BY <1>1, <2>1
  <2>2. CASE v # w
    <3>1. TmTrueWork(tmWork[v], tmTerms, tmSettled, tmFile)
      BY DEF TmHeld
    <3>2. TmTrueWork(tmWork[v], tmTerms', tmSettled', tmFile')
      BY <3>1, TmWorkKept
    <3> QED BY <1>1, <2>2, <3>2
  <2> QED BY <2>1, <2>2
<1> QED BY <1>1, <1>2 DEF TmHeld

\* No handler moves.
LEMMA TmHandlersStay ==
    ASSUME TmHeld, tmTerms \in TmTermsRow, tmWork' = tmWork, tmTerms' = tmTerms,
           tmSettled \subseteq tmSettled', tmFile.invoice => tmFile'.invoice, tmFile.payment => tmFile'.payment
    PROVE  TmHeld'
<1>1. ASSUME NEW v \in TmWorkers PROVE TmTrueWork(tmWork'[v], tmTerms', tmSettled', tmFile')
  <2>1. TmTrueWork(tmWork[v], tmTerms, tmSettled, tmFile)
    BY DEF TmHeld
  <2>2. TmTrueWork(tmWork[v], tmTerms', tmSettled', tmFile')
    BY <2>1, TmWorkKept
  <2> QED BY <2>2
<1> QED BY <1>1 DEF TmHeld

-----------------------------------------------------------------------------
\* The grants while neither mode nor selection changes, and no grant is made or given up.
LEMMA TmGrantsGoOn ==
    ASSUME TmGrants, DOMAIN tmWork = TmWorkers, NEW w \in TmWorkers, NEW state, TmGo(w, state),
           UNCHANGED <<tmModes, tmPartner>>,
           tmExcuse = FALSE => TmOnItsWay(state) /\ (TmBrings(tmWork[w]) => TmBrings(state))
    PROVE  TmGrants'
<1>1. /\ tmWork'[w] = state /\ \A v \in TmWorkers : v # w => tmWork'[v] = tmWork[v]
      /\ tmMode' = tmMode /\ tmSelection' = tmSelection /\ tmGranted' = tmGranted /\ tmExcuse' = tmExcuse
      /\ tmPartner' = tmPartner
  BY DEF TmGo, tmModes
<1>2. SUFFICES ASSUME tmExcuse = FALSE
               PROVE  /\ \A v \in TmWorkers : TmOnItsWay(tmWork[v])'
                      /\ \/ (tmGranted = TmOwed(tmMode, tmSelection))'
                         \/ \E v \in TmWorkers : TmBrings(tmWork[v])'
  BY <1>1 DEF TmGrants
<1>3. /\ \A v \in TmWorkers : TmOnItsWay(tmWork[v])
      /\ tmGranted = TmOwed(tmMode, tmSelection) \/ \E v \in TmWorkers : TmBrings(tmWork[v])
      /\ TmOnItsWay(state) /\ (TmBrings(tmWork[w]) => TmBrings(state))
  BY <1>2 DEF TmGrants
<1>4. ASSUME NEW v \in TmWorkers PROVE TmOnItsWay(tmWork[v])'
  <2>1. TmOnItsWay(tmWork'[v])
    BY <1>1, <1>3
  <2> QED BY <1>1, <2>1 DEF TmOnItsWay, TmOwed, TmCharitable, TmPlanned
<1>5. (tmGranted = TmOwed(tmMode, tmSelection))' <=> tmGranted = TmOwed(tmMode, tmSelection)
  BY <1>1 DEF TmOwed, TmCharitable, TmPlanned
<1>6. ASSUME NEW v \in TmWorkers, TmBrings(tmWork[v]) PROVE TmBrings(tmWork[v])'
  <2>1. TmBrings(tmWork'[v])
    BY <1>1, <1>3, <1>6
  <2> QED BY <1>1, <2>1 DEF TmBrings, TmCharitable
<1> QED BY <1>3, <1>4, <1>5, <1>6

\* And while no handler moves at all.
LEMMA TmGrantsStay ==
    ASSUME TmGrants, UNCHANGED <<tmWork, tmModes, tmPartner>>
    PROVE  TmGrants'
<1>1. /\ tmMode' = tmMode /\ tmSelection' = tmSelection /\ tmGranted' = tmGranted /\ tmExcuse' = tmExcuse
      /\ tmPartner' = tmPartner /\ tmWork' = tmWork
  BY DEF tmModes
<1> QED BY <1>1 DEF TmGrants, TmOnItsWay, TmBrings, TmOwed, TmCharitable, TmPlanned

\* Who is neither granting nor about to brings nothing.
LEMMA TmOthersRest ==
    ASSUME NEW r, r.at \notin TmGranting
    PROVE  TmOnItsWay(r) /\ ~TmBrings(r) /\ TmOnItsWay(r)'
BY DEF TmGranting, TmOnItsWay, TmBrings

\* A handler that is not of the modes starts, goes on or ends.
LEMMA TmCalmStep ==
    ASSUME TmInv, NEW w \in TmWorkers, NEW state, TmGo(w, state), UNCHANGED <<tmModes, tmPartner>>,
           TmRows', tmTerms' = tmTerms \/ tmTerms'.version > tmTerms.version,
           tmSettled \subseteq tmSettled', UNCHANGED tmFile,
           TmTrueWork(state, tmTerms', tmSettled', tmFile'),
           ~TmBrings(tmWork[w]), state.at \notin TmGranting
    PROVE  TmInv'
<1>1. TmRows /\ TmHeld /\ TmGrants /\ tmExcuse \in BOOLEAN
  BY DEF TmInv
<1>2. TmHeld'
  BY <1>1, TmHandlerMoves DEF TmRows
<1>3. TmGrants'
  BY <1>1, TmGrantsGoOn, TmOthersRest DEF TmHeld
<1>4. tmExcuse' \in BOOLEAN
  BY <1>1 DEF tmModes
<1> QED BY <1>2, <1>3, <1>4 DEF TmInv

\* The rows when all of them stay.
LEMMA TmRowsStay ==
    ASSUME TmRows, UNCHANGED <<tmFees, tmFile, tmMode>>
    PROVE  TmRows'
BY DEF TmRows, tmFees

-----------------------------------------------------------------------------
\* The terms and the licence.
LEMMA TmReadTermsStep ==
    ASSUME TmInv, NEW w \in TmWorkers, NEW edit \in TmTermsEdits, TmReadTerms(w, edit)
    PROVE  TmInv'
<1> DEFINE next == TmMerge(tmTerms, edit)
           made == [next EXCEPT !.version = @ + 1, !.waived = @ \/ next.fee = 0]
           state == [at |-> "terms", edit |-> edit, next |-> made]
<1>1. /\ tmWork[w].at = "idle" /\ TmGo(w, state) /\ UNCHANGED <<tmFees, tmFile, tmPartner, tmModes>>
  BY DEF TmReadTerms, TmStart, TmAt
<1>2. TmTrueTerms(made, edit, tmTerms)
  BY TmTermsPrepared DEF TmInv, TmRows
<1> HIDE DEF made
<1>3. TmTrueWork(state, tmTerms, tmSettled, tmFile) /\ state.at = "terms"
  BY <1>2 DEF TmTrueWork
<1> HIDE DEF state
<1>4. TmRows'
  BY <1>1, TmRowsStay DEF TmInv, tmModes
<1>5. ~TmBrings(tmWork[w]) /\ state.at \notin TmGranting
  BY <1>1, <1>3 DEF TmBrings, TmGranting
<1> QED BY <1>1, <1>3, <1>4, <1>5, TmCalmStep DEF tmFees

\* What a writer of the terms may write into the licence.
LEMMA TmLicenseFollows ==
    ASSUME NEW l, NEW settled, TmTrueLicense(l, settled), NEW new, new \in TmLicenseRow, new.paid = l.paid,
           new.required = 0 => new.waived = TRUE,
           new.waived = TRUE => new.status = "WAIVED",
           new.waived = FALSE => new.status = (IF l.status = "WAIVED" THEN "NOT_PAID" ELSE l.status)
    PROVE  TmTrueLicense(new, settled)
<1>1. new.waived \in BOOLEAN /\ l.status \in {"NOT_PAID", "PAID", "WAIVED"}
  BY DEF TmTrueLicense, TmLicenseRow
<1>2. /\ new.status = "PAID" => l.status = "PAID"
      /\ new.status = "WAIVED" => new.waived
      /\ new.status = "NOT_PAID" => ~new.waived
  BY <1>1 DEF TmTrueLicense
<1> QED BY <1>2 DEF TmTrueLicense

\* The terms that are written are the ones prepared, of the next version, and the licence follows.
LEMMA TmTermsWritten ==
    ASSUME TmInv, NEW w \in TmWorkers, TmWriteTerms(w)
    PROVE  /\ TmRows' /\ (tmLicense.status = "PAID" => tmLicense'.status \in {"PAID", "WAIVED"})
           /\ \/ tmTerms' = tmTerms
              \/ /\ tmTerms' = tmWork[w].next /\ tmTerms'.version > tmTerms.version
                 /\ tmWork[w].next.version - 1 = tmTerms.version
<1> DEFINE next == tmWork[w].next
<1>1. /\ tmWork[w].at = "terms" /\ UNCHANGED <<tmCharges, tmSettled, tmFile, tmMode>>
      /\ IF next.version - 1 = tmTerms.version
         THEN /\ tmTerms' = [next EXCEPT !.version = tmTerms.version + 1]
              /\ tmLicense' = [tmLicense EXCEPT !.required = next.fee, !.waived = next.waived,
                                  !.status = CASE next.waived -> "WAIVED"
                                               [] ~next.waived /\ @ = "WAIVED" -> "NOT_PAID"
                                               [] OTHER -> @]
         ELSE UNCHANGED <<tmTerms, tmLicense>>
  BY DEF TmWriteTerms, TmAt, TmIsCurrent, tmModes
<1>2. TmTrueTerms(next, tmWork[w].edit, tmTerms)
  BY <1>1 DEF TmInv, TmHeld, TmTrueWork
<1>3. TmRows
  BY DEF TmInv
<1>4. CASE next.version - 1 # tmTerms.version
  BY <1>1, <1>3, <1>4 DEF TmRows
<1>5. CASE next.version - 1 = tmTerms.version
  <2>1. next \in TmTermsRow /\ (next.fee = 0 => next.waived)
    BY <1>2 DEF TmTrueTerms
  <2>2. next = [version |-> next.version, fee |-> next.fee, waived |-> next.waived]
        /\ next.version \in Nat /\ next.fee \in Nat /\ next.waived \in BOOLEAN /\ tmTerms.version \in Nat
    BY <1>3, <2>1 DEF TmTermsRow, TmRows
  <2>3. next.version = tmTerms.version + 1
    BY <1>5, <2>2
  <2>4. tmTerms' = next
    BY <1>1, <1>5, <2>2, <2>3
  <2>5. PICK st : st = CASE next.waived -> "WAIVED"
                         [] ~next.waived /\ tmLicense.status = "WAIVED" -> "NOT_PAID"
                         [] OTHER -> tmLicense.status
    OBVIOUS
  <2>6. tmLicense' = [tmLicense EXCEPT !.required = next.fee, !.waived = next.waived, !.status = st]
    BY <1>1, <1>5, <2>5, Zenon
  <2>7. TmTrueLicense(tmLicense', tmSettled) /\ tmLicense'.status = st
    <3>1. TmTrueLicense(tmLicense, tmSettled)
      BY <1>3 DEF TmRows
    <3>2. PICK fee \in Nat, waived \in BOOLEAN : fee = next.fee /\ waived = next.waived
      BY <2>2
    <3> HIDE DEF next
    <3>3. tmLicense' = [tmLicense EXCEPT !.required = fee, !.waived = waived, !.status = st]
      BY <2>6, <3>2, Zenon
    <3>4. /\ fee = 0 => waived = TRUE
          /\ waived = TRUE => st = "WAIVED"
          /\ waived = FALSE => st = (IF tmLicense.status = "WAIVED" THEN "NOT_PAID" ELSE tmLicense.status)
      BY <2>1, <2>5, <3>2
    <3>5. /\ tmLicense.status \in {"NOT_PAID", "PAID", "WAIVED"} /\ tmLicense.paid \in Nat
          /\ DOMAIN tmLicense = {"status", "required", "paid", "waived"}
      BY <3>1 DEF TmTrueLicense, TmLicenseRow
    <3>6. [tmLicense EXCEPT !.required = fee, !.waived = waived, !.status = st] =
            [x \in DOMAIN tmLicense |-> IF x = "status" THEN st ELSE IF x = "waived" THEN waived
                                ELSE IF x = "required" THEN fee ELSE tmLicense[x]]
      OBVIOUS
    <3>7. [x \in {"status", "required", "paid", "waived"} |->
              IF x = "status" THEN st ELSE IF x = "waived" THEN waived ELSE IF x = "required" THEN fee ELSE tmLicense[x]]
            = [status |-> st, required |-> fee, paid |-> tmLicense.paid, waived |-> waived]
      OBVIOUS
    <3>8. PICK new : new = [status |-> st, required |-> fee, paid |-> tmLicense.paid, waived |-> waived]
      OBVIOUS
    <3>9. tmLicense' = new
      BY <3>3, <3>5, <3>6, <3>7, <3>8, Zenon
    <3>10. st \in {"NOT_PAID", "PAID", "WAIVED"}
      BY <3>4, <3>5
    <3>11. /\ new \in TmLicenseRow /\ new.status = st /\ new.paid = tmLicense.paid /\ new.required = fee
           /\ new.waived = waived
      BY <3>5, <3>8, <3>10 DEF TmLicenseRow
    <3>12. TmTrueLicense(new, tmSettled)
      BY <3>1, <3>4, <3>11, TmLicenseFollows
    <3> QED BY <3>9, <3>11, <3>12
  <2>8. TmRows'
    BY <1>1, <1>3, <2>1, <2>4, <2>7 DEF TmRows
  <2>9. tmLicense.status = "PAID" => st \in {"PAID", "WAIVED"}
    BY <2>5
  <2> QED BY <1>5, <2>2, <2>3, <2>4, <2>7, <2>8, <2>9
<1> QED BY <1>4, <1>5

\* A PUT of the terms is committed.
LEMMA TmWriteTermsStep ==
    ASSUME TmInv, NEW w \in TmWorkers, TmWriteTerms(w)
    PROVE  TmInv'
<1>1. /\ tmWork[w].at = "terms" /\ TmGo(w, TmIdle) /\ UNCHANGED <<tmSettled, tmFile, tmPartner, tmModes>>
  BY DEF TmWriteTerms, TmAt
<1>2. TmRows' /\ (tmTerms' = tmTerms \/ tmTerms'.version > tmTerms.version)
  BY TmTermsWritten
<1>3. ~TmBrings(tmWork[w]) /\ TmIdle.at \notin TmGranting
  BY <1>1 DEF TmBrings, TmGranting, TmIdle
<1>4. TmTrueWork(TmIdle, tmTerms', tmSettled', tmFile')
  BY TmIdleIsTrue
<1>5. PICK state : state = TmIdle
  OBVIOUS
<1> QED BY <1>1, <1>2, <1>3, <1>4, <1>5, TmCalmStep

\* A PUT of the licence reads the row.
LEMMA TmReadLicenseStep ==
    ASSUME TmInv, NEW w \in TmWorkers, NEW edit \in TmLicenseEdits, TmReadLicense(w, edit)
    PROVE  TmInv'
<1>1. PICK state : /\ state = [at |-> "license", read |-> tmLicense, next |-> TmLicensed(edit)]
                   /\ tmWork[w].at = "idle" /\ TmGo(w, state) /\ UNCHANGED <<tmFees, tmFile, tmPartner, tmModes>>
  BY DEF TmReadLicense, TmStart, TmAt
<1>2. /\ TmTrueLicense(TmLicensed(edit), tmSettled)
      /\ tmLicense.status = "PAID" => TmLicensed(edit).status = "PAID"
  BY TmLicensePrepared DEF TmInv, TmRows
<1>3. state.at = "license" /\ state.next = TmLicensed(edit) /\ state.read = tmLicense
  BY <1>1
<1>4. TmTrueWork(state, tmTerms, tmSettled, tmFile)
  BY <1>2, <1>3 DEF TmTrueWork
<1>5. TmRows'
  BY <1>1, TmRowsStay DEF TmInv, tmModes
<1>6. ~TmBrings(tmWork[w]) /\ state.at \notin TmGranting
  BY <1>1, <1>3 DEF TmBrings, TmGranting
<1> QED BY <1>1, <1>4, <1>5, <1>6, TmCalmStep DEF tmFees

\* It writes what it prepared, and unpays a licence only if it had read it unpaid.
LEMMA TmWriteLicenseStep ==
    ASSUME TmInv, NEW w \in TmWorkers, TmWriteLicense(w)
    PROVE  /\ TmInv'
           /\ tmLicense.status = "PAID" /\ tmLicense'.status # "PAID" => tmWork[w].read.status # "PAID"
<1>1. PICK state : /\ state = TmIdle /\ tmWork[w].at = "license" /\ TmGo(w, state) /\ tmLicense' = tmWork[w].next
                   /\ UNCHANGED <<tmTerms, tmCharges, tmSettled, tmFile, tmPartner, tmModes>>
  BY DEF TmWriteLicense, TmAt
<1>2. /\ TmTrueLicense(tmWork[w].next, tmSettled)
      /\ tmWork[w].read.status = "PAID" => tmWork[w].next.status = "PAID"
  BY <1>1 DEF TmInv, TmHeld, TmTrueWork
<1>3. TmRows'
  BY <1>1, <1>2 DEF TmInv, TmRows, tmModes
<1>4. ~TmBrings(tmWork[w]) /\ state.at \notin TmGranting
  BY <1>1 DEF TmBrings, TmGranting, TmIdle
<1>5. TmTrueWork(state, tmTerms', tmSettled', tmFile')
  BY <1>1, TmIdleIsTrue
<1> QED BY <1>1, <1>2, <1>3, <1>4, <1>5, TmCalmStep

\* The activation fee is to be collected.
LEMMA TmCollectStep ==
    ASSUME TmInv, NEW w \in TmWorkers, TmCollect(w)
    PROVE  TmInv'
<1>1. PICK state : /\ state = [at |-> "charge", amount |-> tmLicense.required] /\ tmLicense.required > 0
                   /\ tmWork[w].at = "idle" /\ TmGo(w, state) /\ UNCHANGED <<tmFees, tmFile, tmPartner, tmModes>>
  BY DEF TmCollect, TmStart, TmAt
<1>2. tmLicense.required \in Nat
  BY DEF TmInv, TmRows, TmTrueLicense, TmLicenseRow
<1>3. state.at = "charge" /\ state.amount \in Nat \ {0}
  BY <1>1, <1>2
<1>4. TmTrueWork(state, tmTerms, tmSettled, tmFile)
  BY <1>3 DEF TmTrueWork
<1>5. TmRows'
  BY <1>1, TmRowsStay DEF TmInv, tmModes
<1>6. ~TmBrings(tmWork[w]) /\ state.at \notin TmGranting
  BY <1>1, <1>3 DEF TmBrings, TmGranting
<1> QED BY <1>1, <1>4, <1>5, <1>6, TmCalmStep DEF tmFees

\* The provider is asked for it.
LEMMA TmChargeStep ==
    ASSUME TmInv, NEW w \in TmWorkers, TmCharge(w)
    PROVE  TmInv'
<1>1. PICK state : /\ state = TmIdle /\ tmWork[w].at = "charge" /\ TmGo(w, state)
                   /\ tmCharges' = tmCharges \cup {tmWork[w].amount}
                   /\ UNCHANGED <<tmTerms, tmLicense, tmSettled, tmFile, tmPartner, tmModes>>
  BY DEF TmCharge, TmAt
<1>2. tmWork[w].amount \in Nat \ {0}
  BY <1>1 DEF TmInv, TmHeld, TmTrueWork
<1>3. TmRows'
  BY <1>1, <1>2 DEF TmInv, TmRows, tmModes
<1>4. ~TmBrings(tmWork[w]) /\ state.at \notin TmGranting
  BY <1>1 DEF TmBrings, TmGranting, TmIdle
<1>5. TmTrueWork(state, tmTerms', tmSettled', tmFile')
  BY <1>1, TmIdleIsTrue
<1> QED BY <1>1, <1>3, <1>4, <1>5, TmCalmStep

\* The provider's settlement locks the licence and pays it.
LEMMA TmSettleStep ==
    ASSUME TmInv, NEW amount \in tmCharges, TmSettle(amount)
    PROVE  TmInv' /\ tmLicense'.status = "PAID"
<1>1. /\ tmLicense.waived = FALSE /\ amount = tmLicense.required
      /\ tmLicense' = [tmLicense EXCEPT !.status = "PAID", !.paid = amount]
      /\ tmSettled' = tmSettled \cup {amount}
      /\ UNCHANGED <<tmTerms, tmCharges, tmFile, tmPartner, tmModes, tmWork>>
  <2>1. ~tmLicense.waived
    BY DEF TmSettle
  <2>2. tmLicense.waived = FALSE
    BY <2>1, Zenon DEF TmInv, TmRows, TmTrueLicense, TmLicenseRow
  <2> QED BY <2>2 DEF TmSettle
<1>2. tmLicense \in TmLicenseRow /\ amount \in Nat \ {0}
  BY DEF TmInv, TmRows, TmTrueLicense
<1>3. tmLicense' = [status |-> "PAID", required |-> tmLicense.required, paid |-> amount, waived |-> tmLicense.waived]
  BY <1>1, <1>2 DEF TmLicenseRow
<1>4. tmLicense.required \in Nat /\ tmLicense.waived \in BOOLEAN
  BY <1>2 DEF TmLicenseRow
<1>5. tmLicense' \in TmLicenseRow
  BY <1>2, <1>3, <1>4 DEF TmLicenseRow
<1>6. TmTrueLicense(tmLicense', tmSettled')
  BY <1>1, <1>2, <1>3, <1>5 DEF TmTrueLicense
<1>7. TmRows'
  BY <1>1, <1>6 DEF TmInv, TmRows, tmModes
<1>8. TmHeld'
  BY <1>1, TmHandlersStay DEF TmInv, TmRows
<1>9. TmGrants' /\ tmExcuse' \in BOOLEAN
  BY <1>1, TmGrantsStay DEF TmInv, tmModes
<1> QED BY <1>3, <1>7, <1>8, <1>9 DEF TmInv

-----------------------------------------------------------------------------
\* The agreement, the documents and the gate.
LEMMA TmFileStep ==
    ASSUME TmInv, \/ \E agreed \in BOOLEAN : TmAgree(agreed)
                  \/ \E kind \in {"invoice", "payment"} : TmRegister(kind)
    PROVE  TmInv'
<1>1. /\ UNCHANGED <<tmFees, tmPartner, tmModes, tmWork>>
      /\ \/ \E agreed \in BOOLEAN : tmFile' = [tmFile EXCEPT !.agreed = agreed]
         \/ \E kind \in {"invoice", "payment"} : tmFile' = [tmFile EXCEPT ![kind] = TRUE]
  BY DEF TmAgree, TmRegister
<1>2. tmFile \in [agreed : BOOLEAN, invoice : BOOLEAN, payment : BOOLEAN]
  BY DEF TmInv, TmRows
<1>3. /\ tmFile' \in [agreed : BOOLEAN, invoice : BOOLEAN, payment : BOOLEAN]
      /\ (tmFile.invoice => tmFile'.invoice) /\ (tmFile.payment => tmFile'.payment)
  BY <1>1, <1>2
<1>4. TmRows'
  BY <1>1, <1>3 DEF TmInv, TmRows, tmModes, tmFees
<1>5. TmHeld'
  BY <1>1, <1>3, TmHandlersStay DEF TmInv, TmRows, tmFees
<1>6. TmGrants' /\ tmExcuse' \in BOOLEAN
  BY <1>1, TmGrantsStay DEF TmInv, tmModes
<1> QED BY <1>4, <1>5, <1>6 DEF TmInv

\* The gate reads the licence, the documents and the agreement.
LEMMA TmGateStep ==
    ASSUME TmInv, NEW w \in TmWorkers, TmGateLicense(w) \/ TmGateDocuments(w) \/ TmAnswer(w)
    PROVE  TmInv'
<1>1. UNCHANGED <<tmFees, tmFile, tmPartner, tmModes>>
  BY DEF TmGateLicense, TmGateDocuments, TmAnswer
<1>2. TmRows'
  BY <1>1, TmRowsStay DEF TmInv, tmModes
<1>3. PICK state : /\ TmGo(w, state) /\ tmWork[w].at \in {"idle", "documents", "agreement"}
                   /\ \/ state = [at |-> "documents", license |-> tmLicense]
                      \/ /\ tmWork[w].at = "documents"
                         /\ state = [at |-> "agreement", license |-> tmWork[w].license,
                                     invoice |-> tmFile.invoice, payment |-> tmFile.payment]
                      \/ state = TmIdle
  BY DEF TmGateLicense, TmGateDocuments, TmAnswer, TmStart, TmAt
<1>4. TmTrueWork(tmWork[w], tmTerms, tmSettled, tmFile) /\ TmTrueLicense(tmLicense, tmSettled)
  BY DEF TmInv, TmHeld, TmRows
<1>5. TmTrueWork(state, tmTerms, tmSettled, tmFile) /\ state.at \in {"documents", "agreement", "idle"}
  <2>1. CASE state = [at |-> "documents", license |-> tmLicense]
    BY <1>4, <2>1 DEF TmTrueWork
  <2>2. CASE /\ tmWork[w].at = "documents"
             /\ state = [at |-> "agreement", license |-> tmWork[w].license,
                         invoice |-> tmFile.invoice, payment |-> tmFile.payment]
    <3>1. TmTrueLicense(tmWork[w].license, tmSettled)
      BY <1>4, <2>2 DEF TmTrueWork
    <3>2. /\ state.at = "agreement" /\ state.license = tmWork[w].license
          /\ state.invoice = tmFile.invoice /\ state.payment = tmFile.payment
      BY <2>2
    <3> QED BY <3>1, <3>2 DEF TmTrueWork
  <2>3. CASE state = TmIdle
    BY <2>3, TmIdleIsTrue DEF TmIdle
  <2> QED BY <1>3, <2>1, <2>2, <2>3
<1>6. ~TmBrings(tmWork[w]) /\ state.at \notin TmGranting
  BY <1>3, <1>5 DEF TmBrings, TmGranting
<1> QED BY <1>1, <1>2, <1>3, <1>5, <1>6, TmCalmStep DEF tmFees

-----------------------------------------------------------------------------
\* The mode and the modules of a charity: the handlers that only read.
LEMMA TmReadModeStep ==
    ASSUME TmInv, NEW w \in TmWorkers, NEW edit \in TmModeEdits, TmReadMode(w, edit)
    PROVE  TmInv'
<1> DEFINE next == TmDecided(tmMode, edit)
<1>1. /\ tmWork[w].at = "idle" /\ UNCHANGED <<tmFees, tmFile, tmPartner, tmModes>>
      /\ TmGo(w, IF (next.billing = "CHARITY" /\ next.charity # "APPROVED") \/ next = tmMode THEN TmIdle
                 ELSE [at |-> "mode", read |-> tmMode, next |-> next])
  BY DEF TmReadMode, TmStart, TmAt
<1>2. TmRows /\ TmHeld /\ TmGrants /\ tmExcuse \in BOOLEAN /\ TmTrueMode(tmMode)
  BY DEF TmInv, TmRows
<1>3. PICK state : /\ TmGo(w, state)
                   /\ \/ state = TmIdle
                      \/ /\ ~(next.billing = "CHARITY" /\ next.charity # "APPROVED")
                         /\ state = [at |-> "mode", read |-> tmMode, next |-> next]
  BY <1>1
<1>4. TmTrueWork(state, tmTerms, tmSettled, tmFile) /\ TmOnItsWay(state)
  <2>1. CASE state = TmIdle
    BY <2>1, TmIdleIsTrue DEF TmIdle, TmOnItsWay
  <2>2. CASE /\ ~(next.billing = "CHARITY" /\ next.charity # "APPROVED")
             /\ state = [at |-> "mode", read |-> tmMode, next |-> next]
    <3>1. TmTrueMode(next)
      BY <1>2, <2>2, TmModePrepared
    <3> HIDE DEF next
    <3>2. state.at = "mode" /\ state.read = tmMode /\ state.next = next
      BY <2>2
    <3> QED BY <3>1, <3>2 DEF TmTrueWork, TmOnItsWay
  <2> QED BY <1>3, <2>1, <2>2
<1> HIDE DEF next
<1>5. TmRows' /\ TmHeld'
  BY <1>1, <1>2, <1>3, <1>4, TmRowsStay, TmHandlerMoves DEF tmModes, tmFees, TmRows
<1>6. ~TmBrings(tmWork[w])
  BY <1>1 DEF TmBrings
<1>7. TmGrants'
  BY <1>1, <1>2, <1>3, <1>4, <1>6, TmGrantsGoOn DEF TmHeld
<1> QED BY <1>1, <1>2, <1>5, <1>7 DEF TmInv, tmModes

\* Those that look at the mode, or at the selection, and go on.
LEMMA TmLookStep ==
    ASSUME TmInv, NEW w \in TmWorkers,
           \/ TmAskCharity(w) \/ \E keys \in SUBSET TmModules : TmChoose(w, keys)
           \/ TmCycle(w) \/ TmSyncMode(w) \/ TmSyncKeys(w)
    PROVE  TmInv'
<1>1. UNCHANGED <<tmFees, tmFile, tmPartner, tmModes>>
  BY DEF TmAskCharity, TmChoose, TmCycle, TmSyncMode, TmSyncKeys
<1>2. TmRows /\ TmHeld /\ TmGrants /\ tmExcuse \in BOOLEAN
  BY DEF TmInv
<1>3. PICK state :
        /\ TmGo(w, state) /\ tmWork[w].at \in {"idle", "sync", "keys"}
        /\ \/ state = TmIdle /\ (tmWork[w].at = "idle" \/ (tmWork[w].at = "sync" /\ ~TmCharitable(tmMode)))
           \/ state = [at |-> "request"] /\ tmWork[w].at = "idle"
           \/ /\ \E keys : state = [at |-> "select", keys |-> keys]
              /\ tmWork[w].at = "idle" /\ TmCharitable(tmMode)
           \/ state = [at |-> "sync"] /\ tmWork[w].at = "idle"
           \/ /\ state = [at |-> "grant", keys |-> TmPlanModules]
              /\ tmWork[w].at = "idle" /\ ~TmCharitable(tmMode) /\ tmPartner.plan
           \/ state = [at |-> "keys"] /\ TmCharitable(tmMode)
           \/ state = [at |-> "grant", keys |-> tmSelection] /\ tmWork[w].at = "keys"
  <2>1. CASE TmAskCharity(w)
    BY <2>1 DEF TmAskCharity, TmStart, TmAt
  <2>2. CASE \E keys \in SUBSET TmModules : TmChoose(w, keys)
    BY <2>2 DEF TmChoose, TmStart, TmAt
  <2>3. CASE TmCycle(w)
    BY <2>3 DEF TmCycle, TmStart, TmAt
  <2>4. CASE TmSyncMode(w)
    BY <2>4 DEF TmSyncMode, TmAt
  <2>5. CASE TmSyncKeys(w)
    BY <2>5 DEF TmSyncKeys, TmAt
  <2> QED BY <2>1, <2>2, <2>3, <2>4, <2>5
<1>4. state.at \in {"idle", "request", "select", "sync", "grant", "keys"}
  BY <1>3 DEF TmIdle
<1>5. TmTrueWork(state, tmTerms, tmSettled, tmFile)
  BY <1>4 DEF TmTrueWork
<1>6. TmRows' /\ TmHeld'
  BY <1>1, <1>2, <1>3, <1>5, TmRowsStay, TmHandlerMoves DEF tmModes, tmFees, TmRows
<1>7. ASSUME tmExcuse = FALSE PROVE TmOnItsWay(state) /\ (TmBrings(tmWork[w]) => TmBrings(state))
  <2>1. TmOnItsWay(tmWork[w])
    BY <1>2, <1>7 DEF TmGrants
  <2>2. tmWork[w].at = "keys" => TmCharitable(tmMode)
    BY <2>1 DEF TmOnItsWay
  <2>3. state.at = "grant" => state.keys = TmOwed(tmMode, tmSelection)
    BY <1>3, <1>4, <2>2 DEF TmOwed, TmPlanned, TmIdle
  <2>4. state.at \in {"keys", "select"} => TmCharitable(tmMode)
    BY <1>3, <1>4 DEF TmIdle
  <2>5. TmBrings(tmWork[w]) => TmBrings(state)
    BY <1>3, <1>4 DEF TmBrings
  <2> QED BY <1>4, <2>3, <2>4, <2>5 DEF TmOnItsWay
<1>8. TmGrants'
  BY <1>1, <1>2, <1>3, <1>7, TmGrantsGoOn DEF TmHeld
<1> QED BY <1>1, <1>2, <1>6, <1>8 DEF TmInv, tmModes

\* Nobody else is at work on the grants.
LEMMA TmAloneIsQuiet ==
    ASSUME NEW w \in TmWorkers, ~TmOthers(w), NEW v \in TmWorkers, v # w
    PROVE  tmWork[v].at \notin TmGranting
BY DEF TmOthers

\* A write of the mode or of the selection.
LEMMA TmWriteModeStep ==
    ASSUME TmInv, NEW w \in TmWorkers, TmWriteMode(w)
    PROVE  TmInv'
<1>1. /\ tmWork[w].at = "mode" /\ tmMode' = tmWork[w].next
      /\ TmGo(w, TmAfterMode(tmWork[w].read, tmWork[w].next))
      /\ tmExcuse' = (tmExcuse \/ TmOthers(w))
      /\ UNCHANGED <<tmFees, tmFile, tmPartner, tmSelection, tmGranted>>
  BY DEF TmWriteMode, TmAt
<1>2. TmRows /\ TmHeld /\ TmGrants /\ tmExcuse \in BOOLEAN
  BY DEF TmInv
<1>3. TmTrueMode(tmMode') /\ TmTrueMode(tmMode)
  BY <1>1, <1>2 DEF TmRows, TmHeld, TmTrueWork
<1>4. TmRows'
  BY <1>1, <1>2, <1>3 DEF TmRows, tmFees
<1>5. PICK state : state = TmAfterMode(tmWork[w].read, tmWork[w].next)
  OBVIOUS
<1>6. \/ state = [at |-> "sync"] /\ TmCharitable(tmWork[w].next)
      \/ state = [at |-> "grant", keys |-> TmPlanned(tmPartner)] /\ ~TmCharitable(tmWork[w].next)
      \/ state = TmIdle /\ ~TmCharitable(tmWork[w].next) /\ tmWork[w].read.billing # "CHARITY"
  BY <1>5 DEF TmAfterMode
<1>7. state.at \in {"sync", "grant", "idle"}
  BY <1>6 DEF TmIdle
<1>8. TmTrueWork(state, tmTerms, tmSettled, tmFile)
  BY <1>7 DEF TmTrueWork
<1>9. TmHeld'
  BY <1>1, <1>2, <1>5, <1>8, TmHandlerMoves DEF tmFees, TmRows
<1>10. tmExcuse' \in BOOLEAN
  BY <1>1
<1>11. ASSUME tmExcuse' = FALSE
       PROVE  /\ \A v \in TmWorkers : TmOnItsWay(tmWork[v])'
              /\ (tmGranted = TmOwed(tmMode, tmSelection))' \/ \E v \in TmWorkers : TmBrings(tmWork[v])'
  <2>1. tmExcuse = FALSE /\ ~TmOthers(w)
    BY <1>1, <1>2, <1>11, Zenon
  <2>2. \A v \in TmWorkers : v # w => tmWork[v].at \notin TmGranting
    BY <2>1, TmAloneIsQuiet
  <2>3. /\ \A v \in TmWorkers : TmOnItsWay(tmWork[v])
        /\ tmGranted = TmOwed(tmMode, tmSelection) \/ \E v \in TmWorkers : TmBrings(tmWork[v])
    BY <1>2, <2>1 DEF TmGrants
  <2>4. tmGranted = TmOwed(tmMode, tmSelection)
    <3>1. ~TmBrings(tmWork[w])
      BY <1>1 DEF TmBrings
    <3> QED BY <2>2, <2>3, <3>1, TmOthersRest
  <2>5. tmWork'[w] = state /\ \A v \in TmWorkers : v # w => tmWork'[v] = tmWork[v]
    BY <1>1, <1>2, <1>5 DEF TmGo, TmHeld
  <2>6. ASSUME NEW v \in TmWorkers PROVE TmOnItsWay(tmWork[v])'
    <3>1. CASE v # w
      <4>1. tmWork'[v].at \notin TmGranting
        BY <2>2, <2>5, <3>1
      <4> QED BY <4>1 DEF TmGranting, TmOnItsWay
    <3>2. CASE v = w
      <4>1. state.at = "grant" => state.keys = TmPlanned(tmPartner) /\ ~TmCharitable(tmMode')
        BY <1>1, <1>6, <1>7 DEF TmIdle
      <4> QED BY <1>1, <1>7, <2>5, <3>2, <4>1 DEF TmOnItsWay, TmOwed, TmCharitable, TmPlanned
    <3> QED BY <3>1, <3>2
  <2>7. CASE state.at \in {"sync", "grant"}
    <3>1. state.at = "sync" => TmCharitable(tmMode')
      BY <1>1, <1>6, <1>7 DEF TmIdle
    <3>2. TmBrings(tmWork[w])'
      BY <2>5, <2>7, <3>1 DEF TmBrings, TmCharitable
    <3> QED BY <2>6, <3>2
  <2>8. CASE state.at = "idle"
    <3>1. ~TmCharitable(tmMode') /\ tmWork[w].read.billing # "CHARITY"
      BY <1>1, <1>6, <2>8
    <3>2. ~TmCharitable(tmMode)
      BY <1>1, <2>3, <3>1 DEF TmOnItsWay, TmCharitable
    <3>3. (tmGranted = TmOwed(tmMode, tmSelection))'
      BY <1>1, <2>4, <3>1, <3>2 DEF TmOwed, TmCharitable, TmPlanned
    <3> QED BY <2>6, <3>3
  <2> QED BY <1>7, <2>7, <2>8
<1> QED BY <1>4, <1>9, <1>10, <1>11 DEF TmInv, TmGrants

\* A selection of modules is written.
LEMMA TmSelectStep ==
    ASSUME TmInv, NEW w \in TmWorkers, TmSelect(w)
    PROVE  TmInv'
<1>1. PICK state : /\ tmWork[w].at = "select" /\ TmGo(w, state) /\ state = [at |-> "sync"]
                   /\ tmExcuse' = (tmExcuse \/ TmOthers(w))
                   /\ UNCHANGED <<tmFees, tmFile, tmPartner, tmMode, tmGranted>>
  BY DEF TmSelect, TmAt
<1>2. TmRows /\ TmHeld /\ TmGrants /\ tmExcuse \in BOOLEAN
  BY DEF TmInv
<1>3. state.at = "sync" /\ TmTrueWork(state, tmTerms, tmSettled, tmFile)
  BY <1>1 DEF TmTrueWork
<1>4. TmRows' /\ TmHeld'
  BY <1>1, <1>2, <1>3, TmRowsStay, TmHandlerMoves DEF tmFees, TmRows
<1>5. tmExcuse' \in BOOLEAN
  BY <1>1
<1>6. ASSUME tmExcuse' = FALSE
      PROVE  (\A v \in TmWorkers : TmOnItsWay(tmWork[v])') /\ TmBrings(tmWork[w])'
  <2>1. tmExcuse = FALSE /\ ~TmOthers(w)
    BY <1>1, <1>2, <1>6, Zenon
  <2>2. tmWork'[w] = state /\ \A v \in TmWorkers : v # w => tmWork'[v].at \notin TmGranting
    BY <1>1, <1>2, <2>1, TmAloneIsQuiet DEF TmGo, TmHeld
  <2>3. TmCharitable(tmMode')
    <3>1. TmOnItsWay(tmWork[w])
      BY <1>2, <2>1 DEF TmGrants
    <3> QED BY <1>1, <3>1 DEF TmOnItsWay
  <2>4. TmBrings(tmWork[w])'
    BY <1>3, <2>2, <2>3 DEF TmBrings, TmCharitable
  <2>5. ASSUME NEW v \in TmWorkers PROVE TmOnItsWay(tmWork[v])'
    <3>1. CASE v # w
      BY <2>2, <3>1 DEF TmGranting, TmOnItsWay
    <3>2. CASE v = w
      BY <1>3, <2>2, <3>2 DEF TmOnItsWay
    <3> QED BY <3>1, <3>2
  <2> QED BY <2>4, <2>5
<1> QED BY <1>4, <1>5, <1>6 DEF TmInv, TmGrants

\* A charity that is asked for is pending, unless it is one already.
LEMMA TmWriteRequestStep ==
    ASSUME TmInv, NEW w \in TmWorkers, TmWriteRequest(w)
    PROVE  TmInv'
<1>1. PICK state : /\ state = TmIdle /\ tmWork[w].at = "request" /\ TmGo(w, state) /\ tmMode' = TmRequested(tmMode)
                   /\ UNCHANGED <<tmFees, tmFile, tmPartner, tmSelection, tmGranted, tmExcuse>>
  BY DEF TmWriteRequest, TmAt
<1>2. TmRows /\ TmHeld /\ TmGrants /\ tmExcuse \in BOOLEAN /\ TmTrueMode(tmMode)
  BY DEF TmInv, TmRows
<1>3. TmTrueMode(tmMode') /\ tmMode'.billing = tmMode.billing /\ (TmCharitable(tmMode') <=> TmCharitable(tmMode))
  <2>1. CASE tmMode.billing = "CHARITY"
    BY <1>1, <1>2, <2>1 DEF TmRequested
  <2>2. CASE tmMode.billing # "CHARITY"
    <3>1. tmMode = [billing |-> tmMode.billing, charity |-> tmMode.charity] /\ tmMode.billing \in TmBillings
      BY <1>2 DEF TmTrueMode, TmModeRow
    <3>2. tmMode' = [tmMode EXCEPT !.charity = "PENDING"]
      BY <1>1, <2>2 DEF TmRequested
    <3>3. tmMode' = [billing |-> tmMode.billing, charity |-> "PENDING"]
      BY <3>1, <3>2
    <3> QED BY <2>2, <3>1, <3>3 DEF TmTrueMode, TmModeRow, TmCharitable, TmDecisions
  <2> QED BY <2>1, <2>2
<1>4. TmRows'
  BY <1>1, <1>2, <1>3 DEF TmRows, tmFees
<1>5. TmTrueWork(state, tmTerms, tmSettled, tmFile) /\ state.at = "idle"
  BY <1>1, TmIdleIsTrue DEF TmIdle
<1>6. TmHeld'
  BY <1>1, <1>2, <1>5, TmHandlerMoves DEF tmFees, TmRows
<1>7. ASSUME tmExcuse = FALSE
      PROVE  /\ \A v \in TmWorkers : TmOnItsWay(tmWork[v])'
             /\ (tmGranted = TmOwed(tmMode, tmSelection))' \/ \E v \in TmWorkers : TmBrings(tmWork[v])'
  <2>1. /\ \A v \in TmWorkers : TmOnItsWay(tmWork[v])
        /\ tmGranted = TmOwed(tmMode, tmSelection) \/ \E v \in TmWorkers : TmBrings(tmWork[v])
    BY <1>2, <1>7 DEF TmGrants
  <2>2. tmWork'[w] = state /\ \A v \in TmWorkers : v # w => tmWork'[v] = tmWork[v]
    BY <1>1, <1>2 DEF TmGo, TmHeld
  <2>3. TmOwed(tmMode, tmSelection)' = TmOwed(tmMode, tmSelection)
    BY <1>1, <1>3 DEF TmOwed, TmPlanned, TmCharitable
  <2>4. ASSUME NEW v \in TmWorkers PROVE TmOnItsWay(tmWork[v])' /\ (TmBrings(tmWork[v]) => TmBrings(tmWork[v])')
    <3>1. CASE v = w
      BY <1>1, <1>5, <2>2, <3>1 DEF TmOnItsWay, TmBrings
    <3>2. CASE v # w
      <4>1. TmOnItsWay(tmWork[v]) /\ tmWork'[v] = tmWork[v]
        BY <2>1, <2>2, <3>2
      <4>2. TmOnItsWay(tmWork[v])'
        BY <1>3, <2>3, <4>1 DEF TmOnItsWay, TmCharitable
      <4>3. TmBrings(tmWork[v]) => TmBrings(tmWork[v])'
        BY <1>3, <4>1 DEF TmBrings, TmCharitable
      <4> QED BY <4>2, <4>3
    <3> QED BY <3>1, <3>2
  <2> QED BY <1>1, <2>1, <2>3, <2>4
<1> QED BY <1>1, <1>2, <1>4, <1>6, <1>7 DEF TmInv, TmGrants

\* The catalogue is told.
LEMMA TmGrantStep ==
    ASSUME TmInv, NEW w \in TmWorkers, TmGrant(w)
    PROVE  TmInv'
<1>1. PICK state : /\ state = TmIdle /\ tmWork[w].at = "grant" /\ TmGo(w, state) /\ tmGranted' = tmWork[w].keys
                   /\ tmExcuse' = (tmExcuse /\ (TmOthers(w) \/ tmWork[w].keys # TmOwed(tmMode, tmSelection)))
                   /\ UNCHANGED <<tmFees, tmFile, tmPartner, tmMode, tmSelection>>
  BY DEF TmGrant, TmAt
<1>2. TmRows /\ TmHeld /\ TmGrants /\ tmExcuse \in BOOLEAN
  BY DEF TmInv
<1>3. state.at = "idle" /\ TmTrueWork(state, tmTerms, tmSettled, tmFile)
  BY <1>1, TmIdleIsTrue DEF TmIdle
<1>4. TmRows' /\ TmHeld'
  BY <1>1, <1>2, <1>3, TmRowsStay, TmHandlerMoves DEF tmFees, TmRows
<1>5. tmExcuse' \in BOOLEAN
  BY <1>1
<1>6. ASSUME tmExcuse' = FALSE
      PROVE  (\A v \in TmWorkers : TmOnItsWay(tmWork[v])') /\ (tmGranted = TmOwed(tmMode, tmSelection))'
  <2>1. TmOwed(tmMode, tmSelection)' = TmOwed(tmMode, tmSelection)
    BY <1>1 DEF TmOwed, TmPlanned, TmCharitable
  <2>2. tmWork'[w] = state /\ \A v \in TmWorkers : v # w => tmWork'[v] = tmWork[v]
    BY <1>1, <1>2 DEF TmGo, TmHeld
  <2>3. TmOnItsWay(tmWork[w])'
    BY <1>3, <2>2 DEF TmOnItsWay
  <2>4. CASE tmExcuse = FALSE
    <3>1. \A v \in TmWorkers : TmOnItsWay(tmWork[v])
      BY <1>2, <2>4 DEF TmGrants
    <3>2. tmWork[w].keys = TmOwed(tmMode, tmSelection)
      BY <1>1, <3>1 DEF TmOnItsWay
    <3>3. ASSUME NEW v \in TmWorkers, v # w PROVE TmOnItsWay(tmWork[v])'
      <4>1. TmOnItsWay(tmWork[v]) /\ tmWork'[v] = tmWork[v]
        BY <2>2, <3>1, <3>3
      <4> QED BY <1>1, <2>1, <4>1 DEF TmOnItsWay, TmCharitable
    <3> QED BY <1>1, <2>1, <2>3, <3>2, <3>3
  <2>5. CASE tmExcuse = TRUE
    <3>1. ~TmOthers(w) /\ tmWork[w].keys = TmOwed(tmMode, tmSelection)
      BY <1>1, <1>6, <2>5, Zenon
    <3>2. ASSUME NEW v \in TmWorkers, v # w PROVE TmOnItsWay(tmWork[v])'
      <4>1. tmWork'[v].at \notin TmGranting
        BY <2>2, <3>1, <3>2, TmAloneIsQuiet
      <4> QED BY <4>1 DEF TmGranting, TmOnItsWay
    <3> QED BY <1>1, <2>1, <2>3, <3>1, <3>2
  <2> QED BY <1>2, <2>4, <2>5
<1> QED BY <1>4, <1>5, <1>6 DEF TmInv, TmGrants

\* A partner is classified.
LEMMA TmClassifyStep ==
    ASSUME TmInv, NEW mode \in TmClasses, TmClassify(mode)
    PROVE  TmInv' /\ tmLicense' \in {tmLicense, [status |-> "WAIVED", required |-> 0, paid |-> 0, waived |-> TRUE]}
<1>1. /\ tmMode' = mode
      /\ tmLicense' \in {tmLicense, [status |-> "WAIVED", required |-> 0, paid |-> 0, waived |-> TRUE]}
      /\ tmExcuse' = (tmExcuse \/ TmCharitable(mode) # TmCharitable(tmMode) \/ \E v \in TmWorkers : tmWork[v].at \in TmGranting)
      /\ UNCHANGED <<tmTerms, tmCharges, tmSettled, tmFile, tmPartner, tmSelection, tmGranted, tmWork>>
  BY DEF TmClassify
<1>2. TmRows /\ TmHeld /\ TmGrants /\ tmExcuse \in BOOLEAN
  BY DEF TmInv
<1>3. TmTrueMode(mode)
  BY DEF TmClasses, TmTrueMode, TmModeRow, TmBillings, TmDecisions
<1>4. PICK yes : yes = TRUE
  OBVIOUS
<1>5. TmTrueLicense([status |-> "WAIVED", required |-> 0, paid |-> 0, waived |-> TRUE], tmSettled)
  <2>1. PICK l : l = [status |-> "WAIVED", required |-> 0, paid |-> 0, waived |-> yes]
    OBVIOUS
  <2>2. l \in TmLicenseRow /\ l.status = "WAIVED" /\ l.required = 0 /\ l.paid = 0 /\ l.waived = TRUE
    BY <1>4, <2>1 DEF TmLicenseRow
  <2>3. TmTrueLicense(l, tmSettled)
    BY <2>2 DEF TmTrueLicense
  <2> QED BY <1>4, <2>1, <2>3
<1>6. TmTrueLicense(tmLicense', tmSettled)
  BY <1>1, <1>2, <1>5 DEF TmRows
<1>7. TmRows'
  BY <1>1, <1>2, <1>3, <1>6 DEF TmRows
<1>8. TmHeld'
  BY <1>1, <1>2, TmHandlersStay DEF TmRows
<1>9. tmExcuse' \in BOOLEAN
  BY <1>1
<1>10. ASSUME tmExcuse' = FALSE
       PROVE  (\A v \in TmWorkers : TmOnItsWay(tmWork[v])') /\ (tmGranted = TmOwed(tmMode, tmSelection))'
  <2>1. tmExcuse = FALSE /\ TmCharitable(mode) = TmCharitable(tmMode) /\ \A v \in TmWorkers : tmWork[v].at \notin TmGranting
    BY <1>1, <1>2, <1>10, Zenon
  <2>2. tmGranted = TmOwed(tmMode, tmSelection)
    BY <1>2, <2>1, TmOthersRest DEF TmGrants
  <2>3. TmCharitable(tmMode') <=> TmCharitable(tmMode)
    BY <1>1, <2>1
  <2>4. TmOwed(tmMode, tmSelection)' = TmOwed(tmMode, tmSelection)
    BY <1>1, <2>3 DEF TmOwed, TmPlanned, TmCharitable
  <2>5. ASSUME NEW v \in TmWorkers PROVE TmOnItsWay(tmWork[v])'
    <3>1. tmWork'[v].at \notin TmGranting
      BY <1>1, <2>1
    <3> QED BY <3>1 DEF TmGranting, TmOnItsWay
  <2> QED BY <1>1, <2>2, <2>4, <2>5
<1> QED BY <1>1, <1>7, <1>8, <1>9, <1>10 DEF TmInv, TmGrants

\* A handler is stopped.
LEMMA TmStopStep ==
    ASSUME TmInv, NEW w \in TmWorkers, TmStop(w)
    PROVE  TmInv'
<1>1. PICK state : /\ state = TmIdle /\ TmGo(w, state)
                   /\ tmExcuse' = (tmExcuse \/ tmWork[w].at \in {"sync", "keys", "grant"})
                   /\ UNCHANGED <<tmFees, tmFile, tmPartner, tmMode, tmSelection, tmGranted>>
  BY DEF TmStop
<1>2. TmRows /\ TmHeld /\ TmGrants /\ tmExcuse \in BOOLEAN
  BY DEF TmInv
<1>3. state.at = "idle" /\ TmTrueWork(state, tmTerms, tmSettled, tmFile)
  BY <1>1, TmIdleIsTrue DEF TmIdle
<1>4. TmRows' /\ TmHeld'
  BY <1>1, <1>2, <1>3, TmRowsStay, TmHandlerMoves DEF tmFees, TmRows
<1>5. tmExcuse' \in BOOLEAN
  BY <1>1
<1>6. CASE tmExcuse' = tmExcuse /\ tmWork[w].at \notin {"sync", "keys", "grant"}
  <2>1. UNCHANGED <<tmModes, tmPartner>>
    BY <1>1, <1>6 DEF tmModes
  <2>2. TmOnItsWay(state) /\ ~TmBrings(tmWork[w])
    BY <1>3, <1>6 DEF TmOnItsWay, TmBrings
  <2>3. TmGrants'
    BY <1>1, <1>2, <2>1, <2>2, TmGrantsGoOn DEF TmHeld
  <2> QED BY <1>4, <1>5, <2>3 DEF TmInv
<1>7. CASE tmExcuse' # FALSE
  BY <1>4, <1>5, <1>7 DEF TmInv, TmGrants
<1>8. tmExcuse' = FALSE => tmExcuse' = tmExcuse /\ tmWork[w].at \notin {"sync", "keys", "grant"}
  BY <1>1, <1>2, Zenon
<1> QED BY <1>6, <1>7, <1>8

-----------------------------------------------------------------------------
\* A new partner pays, and its catalogue is what its plan says.
LEMMA TmInvInit == TmInit => TmInv
<1>1. SUFFICES ASSUME TmInit PROVE TmInv
  OBVIOUS
<1>2. PICK no : no = FALSE
  OBVIOUS
<1>3. /\ tmTerms = [version |-> 0, fee |-> TmFee, waived |-> no]
      /\ tmLicense = [status |-> "NOT_PAID", required |-> TmFee, paid |-> 0, waived |-> no]
      /\ tmFile = [agreed |-> no, invoice |-> no, payment |-> no]
      /\ tmExcuse = no
  BY <1>1, <1>2, Zenon DEF TmInit
<1>4. /\ tmCharges = {} /\ tmSettled = {} /\ tmMode = [billing |-> "PAID", charity |-> "NOT_REQUESTED"]
      /\ tmGranted = TmPlanned(tmPartner) /\ tmWork = [w \in TmWorkers |-> TmIdle] /\ TmFee \in Nat \ {0}
  BY <1>1, TmAssumption DEF TmInit, TmAssumption
<1>5. TmTrueLicense(tmLicense, tmSettled)
  BY <1>2, <1>3, <1>4 DEF TmTrueLicense, TmLicenseRow
<1>6. TmRows
  BY <1>2, <1>3, <1>4, <1>5 DEF TmRows, TmTermsRow, TmTrueMode, TmModeRow, TmBillings, TmDecisions
<1>7. TmHeld
  BY <1>4, TmIdleIsTrue DEF TmHeld
<1>8. ~TmCharitable(tmMode)
  BY <1>4 DEF TmCharitable
<1>9. TmGrants
  BY <1>4, <1>8 DEF TmGrants, TmOwed, TmOnItsWay, TmIdle
<1> QED BY <1>2, <1>3, <1>6, <1>7, <1>9 DEF TmInv

\* Every step keeps the invariant.
LEMMA TmInvStep == TmInv /\ [TmNext]_tmVars => TmInv'
<1>1. SUFFICES ASSUME TmInv, [TmNext]_tmVars PROVE TmInv'
  OBVIOUS
<1>2. CASE UNCHANGED tmVars
  <2>1. TmRows'
    BY <1>1, <1>2, TmRowsStay DEF tmVars, tmFees, TmInv
  <2>2. TmHeld'
    BY <1>1, <1>2, TmHandlersStay DEF tmVars, TmInv, TmRows
  <2>3. TmGrants' /\ tmExcuse' \in BOOLEAN
    BY <1>1, <1>2, TmGrantsStay DEF tmVars, tmModes, TmInv
  <2> QED BY <2>1, <2>2, <2>3 DEF TmInv
<1> QED BY <1>1, <1>2, TmSettleStep, TmFileStep, TmClassifyStep, TmReadTermsStep, TmReadLicenseStep,
           TmReadModeStep, TmLookStep, TmWriteTermsStep, TmWriteLicenseStep, TmCollectStep, TmChargeStep,
           TmGateStep, TmWriteModeStep, TmWriteRequestStep, TmSelectStep, TmGrantStep, TmStopStep DEF TmNext

\* The invariant says more than the property.
LEMMA TmInvIsSafe == TmInv => TmLicenseIsTrue /\ TmCharityIsApproved /\ TmGrantFollowsMode
<1>1. SUFFICES ASSUME TmInv PROVE TmLicenseIsTrue /\ TmCharityIsApproved /\ TmGrantFollowsMode
  OBVIOUS
<1>2. TmLicenseIsTrue /\ TmCharityIsApproved
  BY <1>1 DEF TmInv, TmRows, TmTrueLicense, TmTrueMode, TmLicenseIsTrue, TmCharityIsApproved
<1>3. TmGrantFollowsMode
  <2>1. SUFFICES ASSUME \A w \in TmWorkers : tmWork[w].at \notin TmGranting, ~tmExcuse
                 PROVE  tmGranted = TmOwed(tmMode, tmSelection)
    BY DEF TmGrantFollowsMode
  <2>2. tmExcuse = FALSE
    BY <1>1, <2>1, Zenon DEF TmInv
  <2>3. tmGranted = TmOwed(tmMode, tmSelection) \/ \E w \in TmWorkers : TmBrings(tmWork[w])
    BY <1>1, <2>2 DEF TmInv, TmGrants
  <2> QED BY <2>1, <2>3, TmOthersRest
<1> QED BY <1>2, <1>3

\* A PUT of the terms loses nothing.
LEMMA TmLosesNothing == TmInv => TmNoLostTerms
<1>1. SUFFICES ASSUME TmInv, NEW w \in TmWorkers, TmWriteTerms(w), tmTerms' # tmTerms,
                      NEW f \in {"fee", "waived"} \ DOMAIN tmWork[w].edit
               PROVE  tmTerms'[f] = tmTerms[f] \/ (f = "waived" /\ tmTerms'.fee = 0)
  BY DEF TmNoLostTerms
<1>2. tmTerms' = tmWork[w].next /\ tmWork[w].next.version - 1 = tmTerms.version
  BY <1>1, TmTermsWritten
<1>3. TmTrueTerms(tmWork[w].next, tmWork[w].edit, tmTerms)
  BY <1>1 DEF TmInv, TmHeld, TmTrueWork, TmWriteTerms, TmAt
<1> QED BY <1>2, <1>3 DEF TmTrueTerms

\* A paid licence is left paid or waived, but by a PUT that had read it before.
LEMMA TmLeavesPaid == TmInv /\ [TmNext]_tmVars => TmPaidIsLeft
<1>1. SUFFICES ASSUME TmInv, [TmNext]_tmVars, tmLicense.status = "PAID", tmLicense'.status # "PAID"
               PROVE  tmLicense'.status = "WAIVED" \/ \E w \in TmWorkers : TmWriteLicense(w) /\ tmWork[w].read.status # "PAID"
  BY DEF TmPaidIsLeft
<1>2. tmLicense' # tmLicense
  BY <1>1
<1>3. ASSUME NEW w \in TmWorkers, TmWriteTerms(w) PROVE tmLicense'.status = "WAIVED"
  BY <1>1, <1>3, TmTermsWritten
<1>4. ASSUME NEW mode \in TmClasses, TmClassify(mode) PROVE tmLicense'.status = "WAIVED"
  BY <1>1, <1>2, <1>4, TmClassifyStep
<1>5. \/ \E amount \in tmCharges : TmSettle(amount)
      \/ \E mode \in TmClasses : TmClassify(mode)
      \/ \E w \in TmWorkers : TmWriteTerms(w) \/ TmWriteLicense(w)
  BY <1>1, <1>2 DEF TmNext, tmVars, tmFees, TmAgree, TmRegister, TmReadTerms, TmReadLicense, TmReadMode, TmChoose,
        TmCollect, TmCharge, TmGateLicense, TmGateDocuments, TmAnswer, TmWriteMode, TmAskCharity, TmWriteRequest,
        TmSelect, TmCycle, TmSyncMode, TmSyncKeys, TmGrant, TmStop
<1> QED BY <1>1, <1>3, <1>4, <1>5, TmSettleStep, TmWriteLicenseStep

\* The gate opens on what was paid or waived.
LEMMA TmEarnsTheGate == TmInv => TmGateIsEarned
<1>1. SUFFICES ASSUME TmInv, NEW w \in TmWorkers, TmAnswer(w), TmAllowed(w)
               PROVE  /\ tmSettled # {} \/ tmPartner.reference
                      /\ tmWork[w].license = tmLicense => TmProvisionable
  BY DEF TmGateIsEarned
<1>2. tmWork[w].at = "agreement" /\ TmTrueWork(tmWork[w], tmTerms, tmSettled, tmFile)
  BY <1>1 DEF TmInv, TmHeld, TmAnswer, TmAt
<1>3. /\ TmTrueLicense(tmWork[w].license, tmSettled)
      /\ (tmWork[w].invoice => tmFile.invoice) /\ (tmWork[w].payment => tmFile.payment)
  BY <1>2 DEF TmTrueWork
<1>4. CASE TmPaidUp(tmWork[w].license, tmWork[w].invoice, tmWork[w].payment, tmFile.agreed)
  <2>1. tmSettled # {}
    BY <1>3, <1>4 DEF TmPaidUp, TmTrueLicense
  <2>2. TmPaidUp(tmWork[w].license, tmFile.invoice, tmFile.payment, tmFile.agreed)
    BY <1>3, <1>4 DEF TmPaidUp
  <2> QED BY <2>1, <2>2 DEF TmProvisionable
<1>5. CASE tmPartner.reference /\ TmWaiver(tmWork[w].license)
  BY <1>5 DEF TmProvisionable
<1> QED BY <1>1, <1>4, <1>5 DEF TmAllowed

\* What the contract of a partner answers for: a licence is paid only by what the provider
\* confirmed, a charity is an approved one, the catalogue follows the mode unless a grant was
\* lost or overlapped, edits of the terms lose nothing, and the gate of provisioning opens on
\* what was paid or waived: for any edits, fees, modules and number of handlers.
THEOREM TermsAreKept == TmSpec => CommercialTermsSafe
<1>1. TmInv /\ [TmNext]_tmVars => [TmNoLostTerms /\ TmPaidIsLeft /\ TmGateIsEarned]_tmVars
  BY TmLosesNothing, TmLeavesPaid, TmEarnsTheGate
<1> QED BY <1>1, TmInvInit, TmInvStep, TmInvIsSafe, PTL DEF TmSpec, CommercialTermsSafe

-----------------------------------------------------------------------------
(* A module billed by itself (ModuleBilling): its price, its periods and the items that charge them. *)

MbLive == {"ACTIVE", "CANCEL_PENDING"}
MbPlans == {"period", "price", "item", "write"}
MbSubs == [state : {"NONE", "INACTIVE"} \cup MbLive, activation : MbDays, start : MbDays]
MbCharges == [amount : Nat \cup {MbNone}, invoice : MbDays \cup {MbNone}]

\* Periods counted from an anchor, and prices that are of such a period or of one that ends before it.
MbOnGrid(s, anchor) == \E k \in Nat : s = anchor + MbCycle * k
MbAligned(snapshots, anchor) ==
    \A s \in MbDays : snapshots[s] # MbNone => MbOnGrid(s, anchor) \/ s + MbCycle <= anchor
MbApartIn(snapshots) ==
    \A s, t \in MbDays : snapshots[s] # MbNone /\ snapshots[t] # MbNone /\ s < t => t - s >= MbCycle

\* What a run has decided: the periods it prices are counted from the subscription it has read if
\* that was a live one, and from the activation it was told otherwise; it renews nothing that was
\* cancelled, and holds the price that is written.
MbAnchor(r) == IF r.was.state \in MbLive THEN r.was.start ELSE r.since
MbPlanOk(r) ==
    /\ {"since", "period", "activation", "start", "write", "was"} \subseteq DOMAIN r
    /\ r.period \in MbDays /\ r.activation \in MbDays /\ r.start \in MbDays /\ r.since \in MbDays /\ r.was \in MbSubs
    /\ MbOnGrid(r.period, MbAnchor(r)) /\ MbOnGrid(r.start, MbAnchor(r))
    /\ r.write \in {"insert", "update", "nothing"}
    /\ r.write = "insert" => r.was.state = "NONE"
    /\ r.write = "update" => r.was.state \notin {"NONE", "CANCEL_PENDING"}
    /\ r.was.state = "CANCEL_PENDING" => r.period = r.was.start /\ r.start = r.was.start
MbRunOk(r, snapshots) ==
    /\ r.at \in {"idle", "revoke", "expire", "list", "read", "invoice"} \cup MbPlans
    /\ "at" \in DOMAIN r /\ (r.at # "idle" => "now" \in DOMAIN r /\ r.now \in MbDays)
    /\ r.at \notin {"idle", "invoice"} => {"cycle", "sync"} \subseteq DOMAIN r
    /\ r.at = "read" => "since" \in DOMAIN r /\ r.since \in MbDays
    /\ r.at \in MbPlans => MbPlanOk(r)
    /\ r.at = "item" => "price" \in DOMAIN r /\ snapshots[r.period] # MbNone /\ r.price = snapshots[r.period]

\* Unless a run was overtaken: the module is gone when its subscription is about to end, the
\* activation a run was told is still the module's, and the periods it will price, as the
\* subscription that another run may have made meanwhile, are counted from it.
MbRunFits(r, module, sub, snapshots) ==
    /\ r.at = "expire" => module.billable = FALSE
    /\ r.at \in {"read"} \cup MbPlans => r.since = module.since
    /\ r.at \in MbPlans /\ r.was.state \notin MbLive =>
          MbAligned(snapshots, r.since) /\ (sub.state \in MbLive => MbOnGrid(sub.start, r.since))

MbTyped ==
    /\ mbDay \in MbDays /\ mbModule \in [billable : BOOLEAN, since : MbDays] /\ mbExcuse \in BOOLEAN
    /\ mbSub \in MbSubs /\ (mbSub.state = "NONE" => mbSub = MbNoSub)
    /\ mbSnapshots \in [MbDays -> Nat \cup {MbNone}] /\ mbItems \in [MbDays -> MbCharges]
    /\ DOMAIN mbInvoices = MbDays /\ DOMAIN mbWork = MbWorkers
MbHeld == \A w \in MbWorkers : MbRunOk(mbWork[w], mbSnapshots)
MbInvoicedIsCharged == \A s \in MbDays : mbItems[s].invoice # MbNone => mbItems[s].amount # MbNone
MbBooks == MbChargedAsFixed /\ MbInvoicedIsCharged /\ MbBilledUnlessCut /\ MbTotalsAdd
MbSquare ==
    mbExcuse = FALSE =>
        /\ MbApartIn(mbSnapshots)
        /\ mbSub.state \in MbLive => MbAligned(mbSnapshots, mbSub.start)
        /\ mbSub.state = "NONE" \/ (mbSub.state = "INACTIVE" /\ mbModule.billable = TRUE) =>
              MbAligned(mbSnapshots, mbModule.since)
        /\ \A w \in MbWorkers : MbRunFits(mbWork[w], mbModule, mbSub, mbSnapshots)

MbInv == MbTyped /\ MbHeld /\ MbBooks /\ MbSquare

\* MbTotal: what the items of a set of periods add up to,
MbSum(f, S) == MapThenSumSet(LAMBDA s : f[s].amount, S)
\* which depends on their amounts alone.
LEMMA MbSumSame ==
    ASSUME NEW S, NEW f, NEW g, \A s \in S : f[s].amount = g[s].amount
    PROVE  MbSum(f, S) = MbSum(g, S)
<1> DEFINE F(h) == [s \in SUBSET S |-> IF s = {} THEN 0 ELSE f[CHOOSE x \in s : TRUE].amount + h[s \ {CHOOSE x \in s : TRUE}]]
           G(h) == [s \in SUBSET S |-> IF s = {} THEN 0 ELSE g[CHOOSE x \in s : TRUE].amount + h[s \ {CHOOSE x \in s : TRUE}]]
<1>1. MbSum(f, S) = (CHOOSE h : h = F(h))[S]
  BY DEF MbSum, MapThenSumSet, MapThenFoldSet
<1>2. MbSum(g, S) = (CHOOSE h : h = G(h))[S]
  BY DEF MbSum, MapThenSumSet, MapThenFoldSet
<1>3. ASSUME NEW h PROVE F(h) = G(h)
  <2>1. ASSUME NEW s \in SUBSET S, s # {} PROVE f[CHOOSE x \in s : TRUE].amount = g[CHOOSE x \in s : TRUE].amount
    <3>1. (CHOOSE x \in s : TRUE) \in s BY <2>1
    <3> QED BY <3>1
  <2> QED BY <2>1
<1> HIDE DEF F, G
<1>4. (CHOOSE h : h = F(h)) = (CHOOSE h : h = G(h)) BY <1>3, Zenon
<1> QED BY <1>1, <1>2, <1>4

-----------------------------------------------------------------------------
\* MbCycle: the product of a length and a count.
LEMMA MbProduct ==
    ASSUME NEW c \in Nat, NEW j \in Nat, NEW k \in Nat
    PROVE  /\ c * j \in Nat /\ c * (j + k) = c * j + c * k
           /\ j < k => c * j + c <= c * k
<1>1. c * j \in Nat /\ c * (j + k) = c * j + c * k OBVIOUS
<1>2. ASSUME j < k PROVE c * j + c <= c * k
  <2> PICK d \in Nat : k = j + 1 + d
    <3>1. k - j - 1 \in Nat /\ k = j + 1 + (k - j - 1) BY <1>2
    <3> QED BY <3>1
  <2>1. c * k = c * j + c + c * d OBVIOUS
  <2>2. c * d \in Nat OBVIOUS
  <2> QED BY <2>1, <2>2
<1> QED BY <1>1, <1>2

\* MbOnGrid: periods counted from one that is counted from an anchor are counted from the anchor.
LEMMA MbGridGoesOn ==
    ASSUME NEW s \in MbDays, NEW a \in MbDays, NEW b \in MbDays, MbOnGrid(s, a), MbOnGrid(a, b)
    PROVE  MbOnGrid(s, b)
<1> MbCycle \in Nat BY MbAssumption
<1> PICK j \in Nat : s = a + MbCycle * j BY DEF MbOnGrid
<1> PICK k \in Nat : a = b + MbCycle * k BY DEF MbOnGrid
<1>1. MbCycle * (j + k) = MbCycle * j + MbCycle * k /\ MbCycle * j \in Nat /\ MbCycle * k \in Nat BY MbProduct
<1>2. b \in Int BY DEF MbDays
<1> PICK n \in Nat : n = j + k OBVIOUS
<1>3. s = b + MbCycle * n BY <1>1, <1>2
<1> QED BY <1>3 DEF MbOnGrid

\* MbOnGrid: an anchor is on its own grid, and what is counted from it does not come before it.
LEMMA MbGridBegins ==
    ASSUME NEW a \in MbDays
    PROVE  MbOnGrid(a, a) /\ \A s \in MbDays : MbOnGrid(s, a) => a <= s
<1> MbCycle \in Nat /\ a \in Int BY MbAssumption DEF MbDays
<1>1. a = a + MbCycle * 0 OBVIOUS
<1>2. ASSUME NEW s \in MbDays, MbOnGrid(s, a) PROVE a <= s
  <2> PICK j \in Nat : s = a + MbCycle * j BY <1>2 DEF MbOnGrid
  <2>1. MbCycle * j \in Nat BY MbProduct
  <2> QED BY <2>1
<1> QED BY <1>1, <1>2 DEF MbOnGrid

\* MbOnGrid: two periods counted from one anchor do not overlap.
LEMMA MbGridApart ==
    ASSUME NEW s \in MbDays, NEW t \in MbDays, NEW a \in MbDays, MbOnGrid(s, a), MbOnGrid(t, a), s < t
    PROVE  t - s >= MbCycle /\ MbOnGrid(t, s)
<1> MbCycle \in Nat /\ MbCycle > 0 /\ a \in Int BY MbAssumption DEF MbDays
<1> PICK j \in Nat : s = a + MbCycle * j BY DEF MbOnGrid
<1> PICK k \in Nat : t = a + MbCycle * k BY DEF MbOnGrid
<1>1. MbCycle * j \in Nat /\ MbCycle * k \in Nat BY MbProduct
<1>2. j < k
  <2>1. CASE k < j
    <3>1. MbCycle * k + MbCycle <= MbCycle * j BY <2>1, MbProduct
    <3> QED BY <3>1, <1>1
  <2>2. CASE j = k
    BY <2>2, <1>1
  <2> QED BY <2>1, <2>2
<1>3. MbCycle * j + MbCycle <= MbCycle * k BY <1>2, MbProduct
<1>4. t - s >= MbCycle BY <1>1, <1>3
<1> PICK d \in Nat : k = j + d
  <2>1. k - j \in Nat /\ k = j + (k - j) BY <1>2
  <2> QED BY <2>1
<1>5. MbCycle * k = MbCycle * j + MbCycle * d BY MbProduct
<1>6. MbCycle * d \in Nat BY MbProduct
<1>7. t = s + MbCycle * d BY <1>1, <1>5, <1>6
<1> QED BY <1>4, <1>7 DEF MbOnGrid

\* MbAligned: prices that are aligned with an anchor are with every later period counted from it.
LEMMA MbAlignedMoves ==
    ASSUME NEW snapshots, NEW a \in MbDays, NEW b \in MbDays, MbAligned(snapshots, a), MbOnGrid(b, a)
    PROVE  MbAligned(snapshots, b)
<1> SUFFICES ASSUME NEW s \in MbDays, snapshots[s] # MbNone PROVE MbOnGrid(s, b) \/ s + MbCycle <= b
  BY DEF MbAligned
<1> MbCycle \in Nat /\ a \in Int /\ b \in Int /\ s \in Int BY MbAssumption DEF MbDays
<1>1. a <= b BY MbGridBegins
<1>2. MbOnGrid(s, a) \/ s + MbCycle <= a BY DEF MbAligned
<1>3. CASE s + MbCycle <= a
  BY <1>1, <1>3
<1>4. CASE MbOnGrid(s, a)
  <2>1. CASE s < b
    <3>1. b - s >= MbCycle BY <1>4, <2>1, MbGridApart
    <3> QED BY <3>1
  <2>2. CASE s = b
    BY <2>2, MbGridBegins
  <2>3. CASE b < s
    BY <1>4, <2>3, MbGridApart
  <2> QED BY <2>1, <2>2, <2>3
<1> QED BY <1>2, <1>3, <1>4

\* MbAligned: if nothing is priced besides one period,
MbAddsOnly(snapshots, more, p) == \A s \in MbDays : more[s] # MbNone => s = p \/ snapshots[s] # MbNone
\* and that is counted from the anchor, what is priced stays aligned, and apart.
LEMMA MbAlignedAdds ==
    ASSUME NEW snapshots, NEW more, NEW a \in MbDays, NEW p \in MbDays, MbAligned(snapshots, a), MbOnGrid(p, a),
           MbAddsOnly(snapshots, more, p)
    PROVE  MbAligned(more, a) /\ (MbApartIn(snapshots) => MbApartIn(more))
<1> USE DEF MbAddsOnly
<1>1. MbAligned(more, a) BY DEF MbAligned
<1>2. ASSUME MbApartIn(snapshots), NEW s \in MbDays, NEW t \in MbDays, more[s] # MbNone, more[t] # MbNone, s < t
      PROVE  t - s >= MbCycle
  <2> MbCycle \in Nat /\ a \in Int /\ s \in Int /\ t \in Int BY MbAssumption DEF MbDays
  <2>1. CASE s # p /\ t # p
    BY <1>2, <2>1 DEF MbApartIn
  <2>2. MbOnGrid(s, a) \/ s + MbCycle <= a BY <1>1, <1>2 DEF MbAligned
  <2>3. MbOnGrid(t, a) \/ t + MbCycle <= a BY <1>1, <1>2 DEF MbAligned
  <2>4. CASE MbOnGrid(s, a) /\ MbOnGrid(t, a)
    BY <1>2, <2>4, MbGridApart
  <2>5. CASE ~MbOnGrid(s, a) /\ MbOnGrid(t, a)
    BY <2>2, <2>5, MbGridBegins
  <2>6. CASE ~MbOnGrid(t, a) /\ (s = p \/ t = p)
    <3>1. t # p /\ s = p /\ t + MbCycle <= a BY <2>3, <2>6
    <3>2. a <= s BY <3>1, MbGridBegins
    <3> QED BY <3>1, <3>2, <1>2
  <2> QED BY <2>1, <2>4, <2>5, <2>6
<1> QED BY <1>1, <1>2 DEF MbApartIn

\* MbWindow: the period of a day is one of the days, counted from the anchor.
LEMMA MbWindowIs ==
    ASSUME NEW a \in MbDays, NEW d \in MbDays
    PROVE  MbWindow(a, d) \in MbDays /\ MbOnGrid(MbWindow(a, d), a)
<1> MbCycle \in Nat /\ MbCycle > 0 /\ MbLastDay \in Nat /\ a \in Nat /\ d \in Nat /\ a <= MbLastDay /\ d <= MbLastDay
  BY MbAssumption DEF MbDays
<1>1. CASE d < a
  BY <1>1, MbGridBegins DEF MbWindow
<1>2. CASE ~(d < a)
  <2> PICK x \in Nat : x = d - a BY <1>2
  <2> PICK k : k = x \div MbCycle OBVIOUS
  <2>1. k \in Nat /\ MbCycle * k <= x BY SMT
  <2>2. MbWindow(a, d) = a + MbCycle * k BY <1>2 DEF MbWindow
  <2>3. MbCycle * k \in Nat BY <2>1, MbProduct
  <2>4. a + MbCycle * k \in Nat /\ a + MbCycle * k <= d BY <2>1, <2>3
  <2>5. MbWindow(a, d) \in MbDays BY <2>2, <2>4 DEF MbDays
  <2> QED BY <2>1, <2>2, <2>5 DEF MbOnGrid
<1> QED BY <1>1, <1>2

\* MbUnpriced: the periods a run may price are counted from the one it is at.
LEMMA MbUnpricedIs ==
    ASSUME NEW first \in MbDays, NEW start \in MbDays, NEW s \in MbUnpriced(first, start)
    PROVE  s \in MbDays /\ MbOnGrid(s, first) /\ first <= s /\ s <= start
<1> MbCycle \in Nat /\ MbCycle > 0 /\ MbLastDay \in Nat /\ first \in Nat /\ start \in Nat /\ start <= MbLastDay
  BY MbAssumption DEF MbDays
<1>1. s \in first..start /\ (s - first) % MbCycle = 0 BY DEF MbUnpriced
<1>2. s \in MbDays BY <1>1 DEF MbDays
<1> PICK x \in Nat : x = s - first BY <1>1
<1> PICK k : k = x \div MbCycle OBVIOUS
<1>3. k \in Nat /\ x = (MbCycle * k) + (x % MbCycle) BY SMT
<1>4. s = first + MbCycle * k BY <1>1, <1>3
<1> QED BY <1>1, <1>2, <1>3, <1>4 DEF MbOnGrid

\* Every set of days that is not empty has a first one.
LEMMA MbFirst ==
    ASSUME NEW T \in SUBSET Nat, T # {}
    PROVE  \E x \in T : \A y \in T : x <= y
<1>1. IsWellFoundedOn(OpToRel(<, Nat), Nat) BY NatLessThanWellFounded
<1>2. PICK R : R = OpToRel(<, Nat) OBVIOUS
<1>3. \A x, y \in Nat : x < y => <<x, y>> \in R BY <1>2 DEF OpToRel
<1>4. PICK x \in T : \A y \in T : ~ (<<y, x>> \in R) BY <1>1, <1>2, WFMin
<1>5. SUFFICES ASSUME NEW y \in T PROVE x <= y OBVIOUS
<1>6. x \in Nat /\ y \in Nat OBVIOUS
<1>7. ~ (y < x) BY <1>3, <1>4, <1>6
<1> QED BY <1>6, <1>7

\* MbStep: what a worker holds once some of its fields are written.
MbMerged(r, fields) == [f \in DOMAIN r \cup DOMAIN fields |-> IF f \in DOMAIN fields THEN fields[f] ELSE r[f]]

\* MbGo, MbStep: one worker moves.
LEMMA MbOneMoves ==
    ASSUME DOMAIN mbWork = MbWorkers, NEW w \in MbWorkers
    PROVE  /\ \A state : MbGo(w, state) =>
                 DOMAIN mbWork' = MbWorkers /\ mbWork'[w] = state /\ \A v \in MbWorkers \ {w} : mbWork'[v] = mbWork[v]
           /\ \A fields : MbStep(w, fields) =>
                 /\ DOMAIN mbWork' = MbWorkers /\ \A v \in MbWorkers \ {w} : mbWork'[v] = mbWork[v]
                 /\ mbWork'[w] = MbMerged(mbWork[w], fields)
<1>1. ASSUME NEW state, MbGo(w, state)
      PROVE  DOMAIN mbWork' = MbWorkers /\ mbWork'[w] = state /\ \A v \in MbWorkers \ {w} : mbWork'[v] = mbWork[v]
  BY <1>1 DEF MbGo
<1>2. ASSUME NEW fields, MbStep(w, fields)
      PROVE  /\ DOMAIN mbWork' = MbWorkers /\ \A v \in MbWorkers \ {w} : mbWork'[v] = mbWork[v]
             /\ mbWork'[w] = MbMerged(mbWork[w], fields)
  <2> PICK state : state = MbMerged(mbWork[w], fields) OBVIOUS
  <2>1. MbGo(w, state) BY <1>2 DEF MbStep, MbMerged
  <2> QED BY <1>1, <2>1
<1> QED BY <1>1, <1>2

\* What one worker does when the others stay as they are.
MbOnly(w) == w \in MbWorkers /\ \A v \in MbWorkers \ {w} : mbWork'[v] = mbWork[v]
MbKept(snapshots, later) == \A s \in MbDays : snapshots[s] # MbNone => later[s] = snapshots[s]

\* MbRunOk: what a run holds is good while the prices that are written stay.
LEMMA MbRunStaysOk ==
    ASSUME NEW r, NEW snapshots, NEW later, MbRunOk(r, snapshots), MbKept(snapshots, later)
    PROVE  MbRunOk(r, later)
<1>1. r.at = "item" => r.period \in MbDays BY DEF MbRunOk, MbPlanOk, MbPlans
<1>2. r.at = "item" => later[r.period] # MbNone /\ r.price = later[r.period] BY <1>1 DEF MbRunOk, MbKept
<1> QED BY <1>2 DEF MbRunOk

\* MbHeld: the workers' records stay good if that of the one that moves does.
LEMMA MbHeldMoves ==
    ASSUME MbHeld, NEW w, MbOnly(w), MbKept(mbSnapshots, mbSnapshots'), MbRunOk(mbWork'[w], mbSnapshots')
    PROVE  MbHeld'
<1> SUFFICES ASSUME NEW v \in MbWorkers PROVE MbRunOk(mbWork'[v], mbSnapshots') BY DEF MbHeld
<1> PICK r : r = mbWork[v] OBVIOUS
<1> PICK a : a = mbSnapshots OBVIOUS
<1> PICK b : b = mbSnapshots' OBVIOUS
<1>1. MbRunOk(r, a) BY DEF MbHeld
<1>2. MbRunOk(r, b) BY <1>1, MbRunStaysOk
<1>3. CASE v = w
  BY <1>3
<1>4. CASE v # w
  BY <1>2, <1>4 DEF MbOnly
<1> QED BY <1>3, <1>4

\* MbSum, MbTotal: an invoice of the same items has the same total.
LEMMA MbTotalSame ==
    ASSUME NEW items, NEW later, NEW end, \A s \in MbDays : items[s].invoice = end <=> later[s].invoice = end,
           \A s \in MbDays : items[s].invoice = end => later[s].amount = items[s].amount
    PROVE  MbTotal(later, end) = MbTotal(items, end)
<1> PICK S : S = {s \in MbDays : items[s].invoice = end} OBVIOUS
<1>1. S = {s \in MbDays : later[s].invoice = end} OBVIOUS
<1>2. \A s \in S : items[s].amount = later[s].amount OBVIOUS
<1>3. MbSum(items, S) = MbSum(later, S) BY <1>2, MbSumSame
<1> QED BY <1>1, <1>3 DEF MbTotal, MbSum

\* MbBooks: a step that changes no price, item or invoice, and leaves no item behind unsaid.
LEMMA MbBooksMove ==
    ASSUME MbBooks, UNCHANGED <<mbSnapshots, mbItems, mbInvoices>>, mbCut \subseteq mbCut',
           \A v \in MbWorkers : MbAt(v, "item") => mbWork'[v] = mbWork[v] \/ mbWork[v].period \in mbCut'
    PROVE  MbBooks'
<1>1. MbChargedAsFixed' /\ MbInvoicedIsCharged'
  BY DEF MbBooks, MbChargedAsFixed, MbInvoicedIsCharged, MbItemised
<1>2. MbTotalsAdd'
  <2> SUFFICES ASSUME NEW end \in MbDays, mbInvoices[end] # MbNone PROVE mbInvoices[end] = MbTotal(mbItems', end)
    BY DEF MbTotalsAdd
  <2>1. mbInvoices[end] = MbTotal(mbItems, end) BY DEF MbBooks, MbTotalsAdd
  <2> PICK items : items = mbItems OBVIOUS
  <2>2. items = mbItems' OBVIOUS
  <2> QED BY <2>1, <2>2
<1>3. MbBilledUnlessCut'
  <2> SUFFICES ASSUME NEW s \in MbDays, mbSnapshots[s] > 0
               PROVE  \/ mbItems[s].amount # MbNone \/ s \in mbCut'
                      \/ \E v \in MbWorkers : mbWork'[v].at = "item" /\ mbWork'[v].period = s
    BY DEF MbBilledUnlessCut, MbItemised, MbAt
  <2>1. \/ mbItems[s].amount # MbNone \/ s \in mbCut
        \/ \E v \in MbWorkers : MbAt(v, "item") /\ mbWork[v].period = s
    BY DEF MbBooks, MbBilledUnlessCut, MbItemised
  <2>2. CASE \E v \in MbWorkers : MbAt(v, "item") /\ mbWork[v].period = s
    <3> PICK v \in MbWorkers : MbAt(v, "item") /\ mbWork[v].period = s BY <2>2
    <3>1. mbWork'[v] = mbWork[v] \/ s \in mbCut' OBVIOUS
    <3> QED BY <3>1 DEF MbAt
  <2> QED BY <2>1, <2>2
<1> QED BY <1>1, <1>2, <1>3 DEF MbBooks

\* MbSquare: a step of one worker, as long as it is not overtaken.
LEMMA MbSquareMoves ==
    ASSUME MbSquare, UNCHANGED <<mbModule, mbSub, mbSnapshots>>, NEW w, MbOnly(w),
           mbExcuse' = FALSE => mbExcuse = FALSE /\ MbRunFits(mbWork'[w], mbModule, mbSub, mbSnapshots)
    PROVE  MbSquare'
<1> SUFFICES ASSUME mbExcuse' = FALSE
             PROVE  /\ MbApartIn(mbSnapshots')
                    /\ mbSub'.state \in MbLive => MbAligned(mbSnapshots', mbSub'.start)
                    /\ mbSub'.state = "NONE" \/ (mbSub'.state = "INACTIVE" /\ mbModule'.billable = TRUE) =>
                          MbAligned(mbSnapshots', mbModule'.since)
                    /\ \A v \in MbWorkers : MbRunFits(mbWork'[v], mbModule', mbSub', mbSnapshots')
  BY DEF MbSquare
<1>1. mbExcuse = FALSE /\ MbRunFits(mbWork'[w], mbModule, mbSub, mbSnapshots) OBVIOUS
<1>2. mbModule' = mbModule /\ mbSub' = mbSub /\ mbSnapshots' = mbSnapshots OBVIOUS
<1>3. \A v \in MbWorkers : MbRunFits(mbWork[v], mbModule, mbSub, mbSnapshots) BY <1>1 DEF MbSquare
<1>4. \A v \in MbWorkers : mbWork'[v] = mbWork[v] \/ v = w BY DEF MbOnly
<1>5. \A v \in MbWorkers : MbRunFits(mbWork'[v], mbModule, mbSub, mbSnapshots) BY <1>1, <1>3, <1>4
<1> QED BY <1>1, <1>2, <1>5 DEF MbSquare

\* MbIdle: a worker that does nothing holds nothing, and is not overtaken.
LEMMA MbIdleIs ==
    ASSUME NEW r, r = MbIdle
    PROVE  /\ \A snapshots : MbRunOk(r, snapshots)
           /\ \A module, sub, snapshots : MbRunFits(r, module, sub, snapshots)
BY DEF MbIdle, MbRunOk, MbRunFits, MbPlans

\* MbThen: after the subscription a run invoices, or is over.
LEMMA MbThenIs ==
    ASSUME MbTyped, MbHeld, NEW w \in MbWorkers, MbThen(w), mbWork[w].at # "idle"
    PROVE  /\ MbOnly(w) /\ DOMAIN mbWork' = MbWorkers
           /\ \A snapshots : MbRunOk(mbWork'[w], snapshots)
           /\ \A module, sub, snapshots : MbRunFits(mbWork'[w], module, sub, snapshots)
<1>1. DOMAIN mbWork = MbWorkers /\ mbWork[w].now \in MbDays BY DEF MbTyped, MbHeld, MbRunOk
<1> PICK new : new = IF ~mbWork[w].cycle THEN MbIdle ELSE [at |-> "invoice", now |-> mbWork[w].now] OBVIOUS
<1>2. MbGo(w, new) BY DEF MbThen
<1>3. DOMAIN mbWork' = MbWorkers /\ mbWork'[w] = new /\ MbOnly(w) BY <1>1, <1>2, MbOneMoves DEF MbOnly
<1>4. CASE new = MbIdle
  BY <1>3, <1>4, MbIdleIs
<1>5. CASE new = [at |-> "invoice", now |-> mbWork[w].now]
  <2>1. \A snapshots : MbRunOk(new, snapshots) BY <1>1, <1>5 DEF MbRunOk, MbPlans
  <2>2. \A module, sub, snapshots : MbRunFits(new, module, sub, snapshots) BY <1>5 DEF MbRunFits, MbPlans
  <2> QED BY <1>3, <2>1, <2>2
<1> QED BY <1>3, <1>4, <1>5

\* A move that changes nothing but what a worker does
MbStill == UNCHANGED <<mbDay, mbModule, mbPaid, mbSub, mbSnapshots, mbItems, mbInvoices>>
\* keeps the invariant if what the worker then holds is good and, unless it was overtaken, fits.
LEMMA MbRunMoves ==
    ASSUME MbInv, NEW w \in MbWorkers, MbStill, MbOnly(w), DOMAIN mbWork' = MbWorkers,
           mbExcuse' \in BOOLEAN, mbExcuse' = FALSE => mbExcuse = FALSE,
           mbCut \subseteq mbCut', MbAt(w, "item") => mbWork[w].period \in mbCut',
           MbRunOk(mbWork'[w], mbSnapshots),
           mbExcuse' = FALSE => MbRunFits(mbWork'[w], mbModule, mbSub, mbSnapshots)
    PROVE  MbInv'
<1>1. MbTyped' BY DEF MbInv, MbTyped, MbStill
<1>2. MbHeld'
  <2>1. mbSnapshots' = mbSnapshots BY DEF MbStill
  <2>2. MbKept(mbSnapshots, mbSnapshots') BY <2>1 DEF MbKept
  <2>3. MbRunOk(mbWork'[w], mbSnapshots') BY <2>1
  <2>4. MbHeld BY DEF MbInv
  <2> QED BY <2>2, <2>3, <2>4, MbHeldMoves
<1>3. MbBooks'
  <2>1. \A v \in MbWorkers : MbAt(v, "item") => mbWork'[v] = mbWork[v] \/ mbWork[v].period \in mbCut'
    BY DEF MbOnly
  <2>2. MbBooks /\ UNCHANGED <<mbSnapshots, mbItems, mbInvoices>> BY DEF MbInv, MbStill
  <2> QED BY <2>1, <2>2, MbBooksMove
<1>4. MbSquare'
  <2>1. MbSquare /\ UNCHANGED <<mbModule, mbSub, mbSnapshots>> BY DEF MbInv, MbStill
  <2> QED BY <2>1, MbSquareMoves
<1> QED BY <1>1, <1>2, <1>3, <1>4 DEF MbInv

\* A run begins.
LEMMA MbBeginKeeps ==
    ASSUME MbInv, NEW w \in MbWorkers, NEW cycle, MbBegin(w, cycle)
    PROVE  MbInv'
<1> PICK at \in {"revoke", "list"} : MbGo(w, [at |-> at, cycle |-> cycle, now |-> mbDay, sync |-> FALSE])
  BY DEF MbBegin
<1> PICK new : new = [at |-> at, cycle |-> cycle, now |-> mbDay, sync |-> FALSE] OBVIOUS
<1>1. MbGo(w, new) /\ DOMAIN mbWork = MbWorkers /\ mbDay \in MbDays /\ mbExcuse \in BOOLEAN BY DEF MbInv, MbTyped
<1>2. DOMAIN mbWork' = MbWorkers /\ mbWork'[w] = new /\ MbOnly(w) BY <1>1, MbOneMoves DEF MbOnly
<1>3. MbRunOk(new, mbSnapshots) BY <1>1 DEF MbRunOk, MbPlans
<1>4. MbRunFits(new, mbModule, mbSub, mbSnapshots) BY DEF MbRunFits, MbPlans
<1>5. MbStill /\ mbExcuse' = mbExcuse /\ mbCut' = mbCut /\ ~MbAt(w, "item") BY DEF MbBegin, MbStill, MbAt
<1> QED BY <1>1, <1>2, <1>3, <1>4, <1>5, MbRunMoves

\* The catalogue's list.
LEMMA MbListKeeps ==
    ASSUME MbInv, NEW w \in MbWorkers, MbList(w)
    PROVE  MbInv'
<1>1. mbWork[w].at = "list" BY DEF MbList, MbAt
<1>2. MbStill /\ mbExcuse' = mbExcuse /\ mbCut' = mbCut /\ ~MbAt(w, "item") /\ mbExcuse \in BOOLEAN
  BY <1>1 DEF MbList, MbStill, MbAt, MbInv, MbTyped
<1>3. CASE MbThen(w)
  BY <1>1, <1>2, <1>3, MbThenIs, MbRunMoves DEF MbInv
<1>4. CASE MbStep(w, [at |-> "read", since |-> mbModule.since])
  <2> PICK r : r = mbWork[w] OBVIOUS
  <2> PICK fields : fields = [at |-> "read", since |-> mbModule.since] OBVIOUS
  <2> PICK new : new = MbMerged(r, fields) OBVIOUS
  <2>1. MbRunOk(r, mbSnapshots) /\ DOMAIN mbWork = MbWorkers /\ mbModule.since \in MbDays BY DEF MbInv, MbTyped, MbHeld
  <2>2. DOMAIN mbWork' = MbWorkers /\ mbWork'[w] = new /\ MbOnly(w) BY <1>4, <2>1, MbOneMoves DEF MbOnly
  <2>3. /\ DOMAIN new = DOMAIN r \cup DOMAIN fields /\ \A f \in DOMAIN fields : new[f] = fields[f]
        /\ \A f \in DOMAIN r \ DOMAIN fields : new[f] = r[f]
    BY DEF MbMerged
  <2>4. DOMAIN fields = {"at", "since"} /\ new.at = "read" /\ new.since = mbModule.since BY <2>3
  <2>5. {"at", "now", "cycle", "sync"} \subseteq DOMAIN r /\ r.now \in MbDays BY <1>1, <2>1 DEF MbRunOk
  <2>6. MbRunOk(new, mbSnapshots) BY <2>1, <2>3, <2>4, <2>5 DEF MbRunOk, MbPlans
  <2>7. MbRunFits(new, mbModule, mbSub, mbSnapshots) BY <2>4 DEF MbRunFits, MbPlans
  <2> QED BY <1>2, <2>2, <2>6, <2>7, MbRunMoves
<1> QED BY <1>3, <1>4 DEF MbList

\* A call fails, or the service restarts: the item that was to be made is in mbCut.
LEMMA MbStopKeeps ==
    ASSUME MbInv, NEW w \in MbWorkers, MbStop(w)
    PROVE  MbInv'
<1> PICK new : new = MbIdle OBVIOUS
<1>1. MbGo(w, new) /\ DOMAIN mbWork = MbWorkers BY DEF MbStop, MbInv, MbTyped
<1>2. DOMAIN mbWork' = MbWorkers /\ mbWork'[w] = new /\ MbOnly(w) BY <1>1, MbOneMoves DEF MbOnly
<1>3. MbStill /\ mbExcuse' = mbExcuse /\ mbCut \subseteq mbCut' /\ mbExcuse \in BOOLEAN BY DEF MbStop, MbStill, MbInv, MbTyped
<1>4. MbAt(w, "item") => mbWork[w].period \in mbCut' BY DEF MbStop
<1> QED BY <1>2, <1>3, <1>4, MbIdleIs, MbRunMoves

\* MbFind: the next period that has no price is one of those the run is to price.
LEMMA MbFindKeeps ==
    ASSUME MbInv, NEW w \in MbWorkers, MbFind(w)
    PROVE  MbInv'
<1> PICK r : r = mbWork[w] OBVIOUS
<1>1. r.at = "period" /\ MbRunOk(r, mbSnapshots) /\ DOMAIN mbWork = MbWorkers BY DEF MbFind, MbAt, MbInv, MbTyped, MbHeld
<1>2. MbStill /\ mbExcuse' = mbExcuse /\ mbCut' = mbCut /\ ~MbAt(w, "item") /\ mbExcuse \in BOOLEAN
  BY <1>1 DEF MbFind, MbStill, MbAt, MbInv, MbTyped
<1>3. MbPlanOk(r) BY <1>1 DEF MbRunOk, MbPlans
<1>4. mbExcuse = FALSE => MbRunFits(r, mbModule, mbSub, mbSnapshots) BY DEF MbInv, MbSquare
<1> PICK unpriced : unpriced = MbUnpriced(r.period, r.start) OBVIOUS
<1>5. ASSUME NEW fields, MbStep(w, fields), DOMAIN fields \subseteq {"at", "period"}, "at" \in DOMAIN fields,
             fields.at \in {"write", "price"},
             "period" \in DOMAIN fields => fields.period \in unpriced
      PROVE  MbInv'
  <2> PICK new : new = MbMerged(r, fields) OBVIOUS
  <2>2. DOMAIN mbWork' = MbWorkers /\ mbWork'[w] = new /\ MbOnly(w) BY <1>1, <1>5, MbOneMoves DEF MbOnly
  <2>3. /\ DOMAIN new = DOMAIN r \cup DOMAIN fields /\ \A f \in DOMAIN fields : new[f] = fields[f]
        /\ \A f \in DOMAIN r \ DOMAIN fields : new[f] = r[f]
    BY DEF MbMerged
  <2>4. {"since", "period", "activation", "start", "write", "was", "at", "now", "cycle", "sync"} \subseteq DOMAIN r
    BY <1>1, <1>3 DEF MbPlanOk, MbRunOk
  <2>5. /\ new.since = r.since /\ new.activation = r.activation /\ new.start = r.start /\ new.write = r.write
        /\ new.was = r.was /\ new.now = r.now
    BY <1>5, <2>3, <2>4
  <2>6. new.at \in {"write", "price"} BY <1>5, <2>3
  <2>7. new.period = r.period \/ new.period \in unpriced BY <1>5, <2>3, <2>4
  <2>8. MbAnchor(new) = MbAnchor(r) BY <2>5 DEF MbAnchor
  <2>9. new.period \in MbDays /\ MbOnGrid(new.period, MbAnchor(r)) /\ r.period <= new.period /\ (new.period = r.period \/ new.period <= r.start)
    <3> PICK a : a = MbAnchor(r) OBVIOUS
    <3>1. r.period \in MbDays /\ r.start \in MbDays /\ MbOnGrid(r.period, a) /\ a \in MbDays
      BY <1>3 DEF MbPlanOk, MbAnchor, MbSubs
    <3>2. CASE new.period = r.period
      BY <3>1, <3>2 DEF MbDays
    <3>3. CASE new.period \in unpriced
      <4>1. new.period \in MbUnpriced(r.period, r.start) BY <3>3
      <4>2. new.period \in MbDays /\ MbOnGrid(new.period, r.period) /\ r.period <= new.period /\ new.period <= r.start
        BY <3>1, <4>1, MbUnpricedIs
      <4>3. MbOnGrid(new.period, a) BY <3>1, <4>2, MbGridGoesOn
      <4> QED BY <4>2, <4>3
    <3> QED BY <2>7, <3>2, <3>3
  <2>10. r.was.state = "CANCEL_PENDING" => new.period = r.was.start
    <3>1. r.period \in MbDays /\ new.period \in MbDays BY <1>3, <2>9 DEF MbPlanOk
    <3> QED BY <1>3, <2>9, <3>1 DEF MbPlanOk, MbDays
  <2>11. MbPlanOk(new) BY <1>3, <2>3, <2>4, <2>5, <2>8, <2>9, <2>10 DEF MbPlanOk
  <2>12. MbRunOk(new, mbSnapshots) BY <1>1, <2>3, <2>4, <2>5, <2>6, <2>11 DEF MbRunOk, MbPlans
  <2>13. mbExcuse = FALSE => MbRunFits(new, mbModule, mbSub, mbSnapshots)
    BY <1>1, <1>4, <2>5, <2>6 DEF MbRunFits, MbPlans
  <2> QED BY <1>2, <2>2, <2>12, <2>13, MbRunMoves
<1>6. CASE unpriced = {}
  <2> PICK fields : fields = [at |-> "write"] OBVIOUS
  <2>1. MbStep(w, fields) BY <1>6 DEF MbFind
  <2> QED BY <1>5, <2>1
<1>7. CASE unpriced # {}
  <2> PICK p : p = CHOOSE s \in unpriced : \A t \in unpriced : s <= t OBVIOUS
  <2> PICK fields : fields = [at |-> "price", period |-> p] OBVIOUS
  <2>1. MbStep(w, fields) BY <1>7 DEF MbFind
  <2>2. \A s \in unpriced : s \in Nat BY <1>3, MbUnpricedIs DEF MbPlanOk, MbDays
  <2>3. \E s \in unpriced : \A t \in unpriced : s <= t BY <1>7, <2>2, MbFirst
  <2>4. p \in unpriced BY <2>3
  <2> QED BY <1>5, <2>1, <2>4
<1> QED BY <1>6, <1>7

\* MbDecision: what a run does with the subscription it reads.
LEMMA MbDecisionIs ==
    ASSUME mbSub \in MbSubs, NEW since \in MbDays, NEW now \in MbDays, NEW d, d = MbDecision(since, now)
    PROVE  \/ mbSub.state = "NONE" /\ d = MbPeriods(since, since, MbWindow(since, now), "insert")
           \/ mbSub.state = "CANCEL_PENDING" /\ d = [at |-> "revoke", sync |-> TRUE]
           \/ mbSub.state = "CANCEL_PENDING" /\ d = MbPeriods(mbSub.start, mbSub.activation, mbSub.start, "nothing")
           \/ mbSub.state = "INACTIVE" /\ d = MbPeriods(MbWindow(since, now), since, MbWindow(since, now), "update")
           \/ mbSub.state = "ACTIVE" /\ d = MbPeriods(mbSub.start, mbSub.activation, MbWindow(mbSub.start, now), "update")
<1>1. mbSub.state \in {"NONE", "INACTIVE", "ACTIVE", "CANCEL_PENDING"} BY DEF MbSubs, MbLive
<1>2. mbSub.start \in Int /\ MbCycle \in Int /\ now \in Int BY MbAssumption DEF MbSubs, MbDays
<1>3. MbEnd(mbSub) <= now \/ MbEnd(mbSub) > now BY <1>2 DEF MbEnd
<1>4. CASE mbSub.state = "NONE"
  BY <1>4 DEF MbDecision
<1>5. CASE mbSub.state = "CANCEL_PENDING" /\ MbEnd(mbSub) <= now
  BY <1>5 DEF MbDecision
<1>6. CASE mbSub.state = "CANCEL_PENDING" /\ MbEnd(mbSub) > now
  <2>1. ~(MbEnd(mbSub) <= now) BY <1>2, <1>6 DEF MbEnd
  <2> QED BY <1>6, <2>1 DEF MbDecision
<1>7. CASE mbSub.state = "INACTIVE"
  BY <1>7 DEF MbDecision
<1>8. CASE mbSub.state = "ACTIVE"
  BY <1>8 DEF MbDecision
<1> QED BY <1>1, <1>3, <1>4, <1>5, <1>6, <1>7, <1>8

\* MbRead: the periods a run is to price are counted from the subscription it reads, or from the activation it was told.
LEMMA MbReadKeeps ==
    ASSUME MbInv, NEW w \in MbWorkers, MbRead(w)
    PROVE  MbInv'
<1> PICK r : r = mbWork[w] OBVIOUS
<1>1. r.at = "read" /\ MbRunOk(r, mbSnapshots) /\ DOMAIN mbWork = MbWorkers /\ mbSub \in MbSubs
  BY DEF MbRead, MbAt, MbInv, MbTyped, MbHeld
<1>2. MbStill /\ mbCut' = mbCut /\ ~MbAt(w, "item") BY <1>1 DEF MbRead, MbStill, MbAt
<1>3. /\ mbExcuse' \in BOOLEAN
      /\ mbExcuse' = FALSE => mbExcuse = FALSE /\ ~(mbSub.state = "INACTIVE" /\ mbModule.billable = FALSE)
  <2>1. mbExcuse' = (mbExcuse \/ (mbSub.state = "INACTIVE" /\ ~mbModule.billable)) BY DEF MbRead
  <2>2. mbExcuse \in BOOLEAN /\ mbModule.billable \in BOOLEAN BY DEF MbInv, MbTyped
  <2> QED BY <2>1, <2>2, Zenon
<1>4. r.since \in MbDays /\ r.now \in MbDays /\ {"at", "now", "cycle", "sync", "since"} \subseteq DOMAIN r
  BY <1>1 DEF MbRunOk
<1>5. mbExcuse' = FALSE => r.since = mbModule.since BY <1>1, <1>3 DEF MbInv, MbSquare, MbRunFits
<1> DEFINE a == IF mbSub.state \in MbLive THEN mbSub.start ELSE r.since
<1>6. ASSUME NEW first \in MbDays, NEW activation \in MbDays, NEW start \in MbDays, NEW write \in {"insert", "update", "nothing"},
             MbStep(w, MbPeriods(first, activation, start, write)), MbOnGrid(first, a), MbOnGrid(start, a),
             write = "insert" => mbSub.state = "NONE",
             write = "update" => mbSub.state \notin {"NONE", "CANCEL_PENDING"},
             mbSub.state = "CANCEL_PENDING" => first = mbSub.start /\ start = mbSub.start
      PROVE  MbInv'
  <2> PICK was : was = mbSub OBVIOUS
  <2> PICK fields : fields = MbPeriods(first, activation, start, write) OBVIOUS
  <2> PICK new : new = MbMerged(r, fields) OBVIOUS
  <2>2. DOMAIN mbWork' = MbWorkers /\ mbWork'[w] = new /\ MbOnly(w) BY <1>1, <1>6, MbOneMoves DEF MbOnly
  <2>3. /\ DOMAIN new = DOMAIN r \cup DOMAIN fields /\ \A f \in DOMAIN fields : new[f] = fields[f]
        /\ \A f \in DOMAIN r \ DOMAIN fields : new[f] = r[f]
    BY DEF MbMerged
  <2>4. fields = [at |-> "period", period |-> first, activation |-> activation, start |-> start, write |-> write, was |-> was]
    BY DEF MbPeriods
  <2>5. DOMAIN fields = {"at", "period", "activation", "start", "write", "was"} BY <2>4
  <2>6. /\ new.at = "period" /\ new.period = first /\ new.activation = activation /\ new.start = start /\ new.write = write
        /\ new.was = was
    BY <2>3, <2>4, <2>5
  <2>7. new.since = r.since /\ new.now = r.now
        /\ {"since", "period", "activation", "start", "write", "was", "at", "now", "cycle", "sync"} \subseteq DOMAIN new
    BY <1>4, <2>3, <2>5
  <2>8. MbAnchor(new) = a BY <2>6, <2>7 DEF MbAnchor
  <2> HIDE DEF a
  <2>9. MbPlanOk(new) BY <1>1, <1>4, <1>6, <2>6, <2>7, <2>8 DEF MbPlanOk
  <2>10. MbRunOk(new, mbSnapshots) BY <1>4, <2>6, <2>7, <2>9 DEF MbRunOk, MbPlans
  <2>11. mbExcuse' = FALSE => MbRunFits(new, mbModule, mbSub, mbSnapshots)
    <3> SUFFICES ASSUME mbExcuse' = FALSE PROVE MbRunFits(new, mbModule, mbSub, mbSnapshots) OBVIOUS
    <3>1. new.since = mbModule.since BY <1>5, <2>7
    <3>2. ASSUME mbSub.state \notin MbLive PROVE MbAligned(mbSnapshots, new.since)
      <4>1. mbSub.state \in {"NONE", "INACTIVE"} BY <1>1, <3>2 DEF MbSubs
      <4>2. mbModule.billable \in BOOLEAN BY DEF MbInv, MbTyped
      <4>3. mbExcuse = FALSE /\ (mbSub.state = "NONE" \/ (mbSub.state = "INACTIVE" /\ mbModule.billable = TRUE))
        BY <1>3, <4>1, <4>2
      <4>4. MbAligned(mbSnapshots, mbModule.since) BY <4>3 DEF MbInv, MbSquare
      <4> QED BY <3>1, <4>4
    <3> QED BY <2>6, <3>1, <3>2 DEF MbRunFits
  <2> QED BY <1>2, <1>3, <2>2, <2>10, <2>11, MbRunMoves
<1>7. ASSUME MbStep(w, [at |-> "revoke", sync |-> TRUE]) PROVE MbInv'
  <2> PICK b : b = TRUE OBVIOUS
  <2> PICK fields : fields = [at |-> "revoke", sync |-> b] OBVIOUS
  <2> PICK new : new = MbMerged(r, fields) OBVIOUS
  <2>2. DOMAIN mbWork' = MbWorkers /\ mbWork'[w] = new /\ MbOnly(w) BY <1>1, <1>7, MbOneMoves DEF MbOnly
  <2>3. /\ DOMAIN new = DOMAIN r \cup DOMAIN fields /\ \A f \in DOMAIN fields : new[f] = fields[f]
        /\ \A f \in DOMAIN r \ DOMAIN fields : new[f] = r[f]
    BY DEF MbMerged
  <2>4. DOMAIN fields = {"at", "sync"} /\ new.at = "revoke" BY <2>3
  <2>5. new.now = r.now /\ {"at", "now", "cycle", "sync"} \subseteq DOMAIN new BY <1>4, <2>3, <2>4
  <2>6. MbRunOk(new, mbSnapshots) BY <1>4, <2>4, <2>5 DEF MbRunOk, MbPlans
  <2>7. MbRunFits(new, mbModule, mbSub, mbSnapshots) BY <2>4 DEF MbRunFits, MbPlans
  <2> QED BY <1>2, <1>3, <2>2, <2>6, <2>7, MbRunMoves
<1> PICK d : d = MbDecision(r.since, r.now) OBVIOUS
<1>8. MbStep(w, d) BY DEF MbRead
<1>9. mbSub.start \in MbDays /\ mbSub.activation \in MbDays BY <1>1 DEF MbSubs
<1>10. /\ MbWindow(r.since, r.now) \in MbDays /\ MbOnGrid(MbWindow(r.since, r.now), r.since) /\ MbOnGrid(r.since, r.since)
       /\ MbWindow(mbSub.start, r.now) \in MbDays /\ MbOnGrid(MbWindow(mbSub.start, r.now), mbSub.start)
       /\ MbOnGrid(mbSub.start, mbSub.start)
  BY <1>4, <1>9, MbWindowIs, MbGridBegins
<1>11. CASE mbSub.state = "NONE" /\ d = MbPeriods(r.since, r.since, MbWindow(r.since, r.now), "insert")
  <2>1. a = r.since BY <1>11 DEF MbLive
  <2> HIDE DEF a
  <2> QED BY <1>4, <1>6, <1>8, <1>10, <1>11, <2>1
<1>12. CASE mbSub.state = "CANCEL_PENDING" /\ d = [at |-> "revoke", sync |-> TRUE]
  BY <1>7, <1>8, <1>12
<1>13. CASE mbSub.state = "CANCEL_PENDING" /\ d = MbPeriods(mbSub.start, mbSub.activation, mbSub.start, "nothing")
  <2>1. a = mbSub.start BY <1>13 DEF MbLive
  <2> HIDE DEF a
  <2> QED BY <1>6, <1>8, <1>9, <1>10, <1>13, <2>1
<1>14. CASE mbSub.state = "INACTIVE" /\ d = MbPeriods(MbWindow(r.since, r.now), r.since, MbWindow(r.since, r.now), "update")
  <2>1. a = r.since BY <1>14 DEF MbLive
  <2> HIDE DEF a
  <2> QED BY <1>4, <1>6, <1>8, <1>10, <1>14, <2>1
<1>15. CASE mbSub.state = "ACTIVE" /\ d = MbPeriods(mbSub.start, mbSub.activation, MbWindow(mbSub.start, r.now), "update")
  <2>1. a = mbSub.start BY <1>15 DEF MbLive
  <2> HIDE DEF a
  <2> QED BY <1>6, <1>8, <1>9, <1>10, <1>15, <2>1
<1> HIDE DEF a
<1> QED BY <1>1, <1>4, <1>11, <1>12, <1>13, <1>14, <1>15, MbDecisionIs

\* Requests and the calendar change no price, item or invoice, and no run.
LEMMA MbAside ==
    ASSUME MbHeld, MbBooks, UNCHANGED <<mbSnapshots, mbItems, mbInvoices, mbWork, mbCut>>
    PROVE  MbHeld' /\ MbBooks'
<1>1. MbHeld' BY DEF MbHeld
<1>2. MbBooks' BY MbBooksMove
<1> QED BY <1>1, <1>2

\* A worker's move that writes no price, item or invoice.
LEMMA MbTurn ==
    ASSUME MbHeld, MbBooks, NEW w \in MbWorkers, UNCHANGED <<mbSnapshots, mbItems, mbInvoices>>, MbOnly(w),
           mbCut' = mbCut, ~MbAt(w, "item"), MbRunOk(mbWork'[w], mbSnapshots)
    PROVE  MbHeld' /\ MbBooks'
<1>1. mbSnapshots' = mbSnapshots OBVIOUS
<1>2. MbKept(mbSnapshots, mbSnapshots') BY <1>1 DEF MbKept
<1>3. MbRunOk(mbWork'[w], mbSnapshots') BY <1>1
<1>4. MbHeld' BY <1>2, <1>3, MbHeldMoves
<1>5. \A v \in MbWorkers : MbAt(v, "item") => mbWork'[v] = mbWork[v] \/ mbWork[v].period \in mbCut'
  BY DEF MbOnly
<1>6. MbBooks' BY <1>5, MbBooksMove
<1> QED BY <1>4, <1>6

\* The next day, and the partner's commercial mode.
LEMMA MbTomorrowModeKeep ==
    ASSUME MbInv, MbTomorrow \/ MbMode
    PROVE  MbInv'
<1>1. /\ UNCHANGED <<mbModule, mbSub, mbSnapshots, mbItems, mbInvoices, mbWork, mbCut, mbExcuse>>
      /\ mbDay' \in MbDays
  <2>1. mbDay \in MbDays BY DEF MbInv, MbTyped
  <2>2. CASE MbTomorrow
    <3>1. mbDay < MbLastDay /\ mbDay' = mbDay + 1 BY <2>2 DEF MbTomorrow
    <3>2. mbDay' \in MbDays BY <2>1, <3>1, MbAssumption DEF MbDays
    <3> QED BY <2>2, <3>2 DEF MbTomorrow
  <2>3. CASE MbMode
    BY <2>1, <2>3 DEF MbMode
  <2> QED BY <2>2, <2>3
<1>2. MbTyped' BY <1>1 DEF MbInv, MbTyped
<1>3. MbHeld' /\ MbBooks' BY <1>1, MbAside DEF MbInv
<1>4. MbSquare' BY <1>1 DEF MbInv, MbSquare
<1> QED BY <1>2, <1>3, <1>4 DEF MbInv

\* MbSwitch: a new activation begins no period that another has charged, unless a run is under way or was cut short.
LEMMA MbSwitchKeeps ==
    ASSUME MbInv, MbSwitch
    PROVE  MbInv'
<1>1. UNCHANGED <<mbDay, mbSub, mbSnapshots, mbItems, mbInvoices, mbWork, mbCut>> BY DEF MbSwitch
<1>2. mbModule \in [billable : BOOLEAN, since : MbDays] /\ mbDay \in MbDays BY DEF MbInv, MbTyped
<1>3. \/ mbModule.billable = TRUE /\ mbModule'.billable = FALSE /\ mbModule'.since = mbModule.since
      \/ mbModule.billable = FALSE /\ mbModule'.billable = TRUE /\ mbModule'.since = mbDay
  <2>1. mbModule' = IF mbModule.billable THEN [mbModule EXCEPT !.billable = FALSE] ELSE [billable |-> TRUE, since |-> mbDay]
    BY DEF MbSwitch
  <2>2. CASE mbModule.billable
    BY <1>2, <2>1, <2>2
  <2>3. CASE ~mbModule.billable
    BY <1>2, <2>1, <2>3
  <2> QED BY <2>2, <2>3
<1>4. mbModule' \in [billable : BOOLEAN, since : MbDays]
  <2>1. mbModule' = IF mbModule.billable THEN [mbModule EXCEPT !.billable = FALSE] ELSE [billable |-> TRUE, since |-> mbDay]
    BY DEF MbSwitch
  <2> QED BY <1>2, <2>1
<1>5. /\ mbExcuse' \in BOOLEAN
      /\ mbExcuse' = FALSE => mbExcuse = FALSE /\ ~(mbModule.billable = FALSE /\ (MbRunning \/ MbPricedAhead))
  <2>1. mbExcuse' = (mbExcuse \/ (~mbModule.billable /\ (MbRunning \/ MbPricedAhead))) BY DEF MbSwitch
  <2>2. mbExcuse \in BOOLEAN /\ mbModule.billable \in BOOLEAN BY <1>2 DEF MbInv, MbTyped
  <2> HIDE DEF MbRunning, MbPricedAhead
  <2> QED BY <2>1, <2>2, Zenon
<1>6. MbTyped' BY <1>1, <1>4, <1>5 DEF MbInv, MbTyped
<1>7. MbHeld' /\ MbBooks' BY <1>1, MbAside DEF MbInv
<1>8. ASSUME mbExcuse' = FALSE
      PROVE  /\ MbApartIn(mbSnapshots)
             /\ mbSub.state \in MbLive => MbAligned(mbSnapshots, mbSub.start)
             /\ mbSub.state = "NONE" \/ (mbSub.state = "INACTIVE" /\ mbModule'.billable = TRUE) =>
                   MbAligned(mbSnapshots, mbModule'.since)
             /\ \A w \in MbWorkers : MbRunFits(mbWork[w], mbModule', mbSub, mbSnapshots)
  <2>1. mbExcuse = FALSE BY <1>5, <1>8
  <2>2. /\ MbApartIn(mbSnapshots)
        /\ mbSub.state \in MbLive => MbAligned(mbSnapshots, mbSub.start)
        /\ mbSub.state = "NONE" \/ (mbSub.state = "INACTIVE" /\ mbModule.billable = TRUE) =>
              MbAligned(mbSnapshots, mbModule.since)
        /\ \A w \in MbWorkers : MbRunFits(mbWork[w], mbModule, mbSub, mbSnapshots)
    BY <2>1 DEF MbInv, MbSquare
  <2>3. CASE mbModule.billable = TRUE
    <3>1. mbModule'.billable = FALSE /\ mbModule'.since = mbModule.since BY <1>3, <2>3
    <3>2. \A w \in MbWorkers : MbRunFits(mbWork[w], mbModule', mbSub, mbSnapshots) BY <2>2, <3>1 DEF MbRunFits
    <3> QED BY <2>2, <3>1, <3>2
  <2>4. CASE mbModule.billable = FALSE
    <3>1. mbModule'.since = mbDay BY <1>3, <2>4
    <3>2. ~MbRunning /\ ~MbPricedAhead BY <1>5, <1>8, <2>4
    <3>3. \A w \in MbWorkers : mbWork[w].at = "idle" BY <3>2 DEF MbRunning, MbAt
    <3>4. \A w \in MbWorkers : MbRunFits(mbWork[w], mbModule', mbSub, mbSnapshots) BY <3>3 DEF MbRunFits, MbPlans
    <3>5. ASSUME mbSub.state \in {"NONE", "INACTIVE"} PROVE MbAligned(mbSnapshots, mbDay)
      <4>1. \A s \in MbDays : mbSnapshots[s] # MbNone => ~(s + MbCycle > mbDay) BY <3>2, <3>5 DEF MbPricedAhead
      <4>2. MbCycle \in Nat /\ mbDay \in Nat /\ \A s \in MbDays : s \in Nat BY <1>2, MbAssumption DEF MbDays
      <4> QED BY <4>1, <4>2 DEF MbAligned
    <3> QED BY <2>2, <3>1, <3>4, <3>5
  <2> QED BY <1>2, <2>3, <2>4
<1>9. MbSquare' BY <1>1, <1>8 DEF MbSquare
<1> QED BY <1>6, <1>7, <1>9 DEF MbInv

\* MbRenewal: a cancellation, or its withdrawal, leaves the period as it is.
LEMMA MbRenewalKeeps ==
    ASSUME MbInv, NEW cancel, MbRenewal(cancel)
    PROVE  MbInv'
<1>1. UNCHANGED <<mbDay, mbModule, mbSnapshots, mbItems, mbInvoices, mbWork, mbCut, mbExcuse>> BY DEF MbRenewal
<1> PICK st : st = IF cancel THEN "CANCEL_PENDING" ELSE "ACTIVE" OBVIOUS
<1>2. mbSub' = [mbSub EXCEPT !.state = st] /\ mbSub.state \in MbLive /\ mbSub \in MbSubs /\ st \in MbLive
  BY DEF MbRenewal, MbLive, MbInv, MbTyped
<1>3. mbSub' \in MbSubs /\ mbSub'.state = st /\ mbSub'.start = mbSub.start /\ st # "NONE" /\ st # "INACTIVE"
  BY <1>2 DEF MbSubs, MbLive
<1>4. MbTyped' BY <1>1, <1>3 DEF MbInv, MbTyped
<1>5. MbHeld' /\ MbBooks' BY <1>1, MbAside DEF MbInv
<1>6. MbSquare'
  <2> SUFFICES ASSUME mbExcuse = FALSE
               PROVE  /\ MbApartIn(mbSnapshots)
                      /\ MbAligned(mbSnapshots, mbSub'.start)
                      /\ \A w \in MbWorkers : MbRunFits(mbWork[w], mbModule, mbSub', mbSnapshots)
    BY <1>1, <1>3 DEF MbSquare
  <2>1. MbApartIn(mbSnapshots) /\ MbAligned(mbSnapshots, mbSub.start) BY <1>2 DEF MbInv, MbSquare
  <2>2. \A w \in MbWorkers : MbRunFits(mbWork[w], mbModule, mbSub, mbSnapshots) BY DEF MbInv, MbSquare
  <2>3. \A w \in MbWorkers : MbRunFits(mbWork[w], mbModule, mbSub', mbSnapshots) BY <1>2, <1>3, <2>2 DEF MbRunFits
  <2> QED BY <1>3, <2>1, <2>3
<1> QED BY <1>4, <1>5, <1>6 DEF MbInv

\* MbRevoke: the module is taken away before its subscription ends.
LEMMA MbRevokeKeeps ==
    ASSUME MbInv, NEW w \in MbWorkers, MbRevoke(w)
    PROVE  MbInv'
<1> PICK r : r = mbWork[w] OBVIOUS
<1> PICK fields : fields = [at |-> "expire"] OBVIOUS
<1> PICK new : new = MbMerged(r, fields) OBVIOUS
<1>1. UNCHANGED <<mbDay, mbSub, mbSnapshots, mbItems, mbInvoices, mbCut, mbExcuse>> BY DEF MbRevoke
<1>2. r.at = "revoke" /\ MbRunOk(r, mbSnapshots) /\ DOMAIN mbWork = MbWorkers BY DEF MbRevoke, MbAt, MbInv, MbTyped, MbHeld
<1>3. DOMAIN mbWork' = MbWorkers /\ mbWork'[w] = new /\ MbOnly(w)
  <2>1. MbStep(w, fields) BY DEF MbRevoke
  <2> QED BY <1>2, <2>1, MbOneMoves DEF MbOnly
<1>4. mbModule' \in [billable : BOOLEAN, since : MbDays] /\ mbModule'.billable = FALSE /\ mbModule'.since = mbModule.since
  <2>1. mbModule \in [billable : BOOLEAN, since : MbDays] BY DEF MbInv, MbTyped
  <2>2. mbModule' = [mbModule EXCEPT !.billable = FALSE] BY DEF MbRevoke
  <2> QED BY <2>1, <2>2
<1>5. /\ DOMAIN new = DOMAIN r \cup DOMAIN fields /\ \A f \in DOMAIN fields : new[f] = fields[f]
      /\ \A f \in DOMAIN r \ DOMAIN fields : new[f] = r[f]
  BY DEF MbMerged
<1>6. DOMAIN fields = {"at"} /\ new.at = "expire" BY <1>5
<1>7. {"at", "now", "cycle", "sync"} \subseteq DOMAIN new /\ new.now \in MbDays BY <1>2, <1>5, <1>6 DEF MbRunOk
<1>8. MbRunOk(new, mbSnapshots) BY <1>6, <1>7 DEF MbRunOk, MbPlans
<1>9. MbTyped' BY <1>1, <1>3, <1>4 DEF MbInv, MbTyped
<1>10. MbHeld' /\ MbBooks'
  <2>1. ~MbAt(w, "item") BY <1>2 DEF MbAt
  <2> QED BY <1>1, <1>3, <1>8, <2>1, MbTurn DEF MbInv
<1>11. MbSquare'
  <2> SUFFICES ASSUME mbExcuse = FALSE
               PROVE  /\ MbApartIn(mbSnapshots)
                      /\ mbSub.state \in MbLive => MbAligned(mbSnapshots, mbSub.start)
                      /\ mbSub.state = "NONE" => MbAligned(mbSnapshots, mbModule'.since)
                      /\ \A v \in MbWorkers : MbRunFits(mbWork'[v], mbModule', mbSub, mbSnapshots)
    BY <1>1, <1>4 DEF MbSquare
  <2>1. /\ MbApartIn(mbSnapshots)
        /\ mbSub.state \in MbLive => MbAligned(mbSnapshots, mbSub.start)
        /\ mbSub.state = "NONE" => MbAligned(mbSnapshots, mbModule.since)
        /\ \A v \in MbWorkers : MbRunFits(mbWork[v], mbModule, mbSub, mbSnapshots)
    BY DEF MbInv, MbSquare
  <2>2. \A v \in MbWorkers : MbRunFits(mbWork[v], mbModule', mbSub, mbSnapshots) BY <1>4, <2>1 DEF MbRunFits
  <2>3. MbRunFits(new, mbModule', mbSub, mbSnapshots) BY <1>4, <1>6 DEF MbRunFits, MbPlans
  <2>4. \A v \in MbWorkers : mbWork'[v] = mbWork[v] \/ (v = w /\ mbWork'[v] = new) BY <1>3 DEF MbOnly
  <2>5. \A v \in MbWorkers : MbRunFits(mbWork'[v], mbModule', mbSub, mbSnapshots) BY <2>2, <2>3, <2>4
  <2> QED BY <1>4, <2>1, <2>5
<1> QED BY <1>9, <1>10, <1>11 DEF MbInv

\* MbExpire: unless it was taken up again, what ends is a cancelled subscription of a module that is gone.
LEMMA MbExpireKeeps ==
    ASSUME MbInv, NEW w \in MbWorkers, MbExpire(w)
    PROVE  MbInv'
<1> PICK r : r = mbWork[w] OBVIOUS
<1>1. UNCHANGED <<mbDay, mbModule, mbSnapshots, mbItems, mbInvoices, mbCut>> BY DEF MbExpire
<1>2. r.at = "expire" /\ MbRunOk(r, mbSnapshots) /\ DOMAIN mbWork = MbWorkers BY DEF MbExpire, MbAt, MbInv, MbTyped, MbHeld
<1>3. /\ mbExcuse' \in BOOLEAN
      /\ mbExcuse' = FALSE => mbExcuse = FALSE /\ mbSub.state = "CANCEL_PENDING"
  <2>1. mbExcuse' = (mbExcuse \/ mbSub.state # "CANCEL_PENDING") BY DEF MbExpire
  <2>2. mbExcuse \in BOOLEAN BY DEF MbInv, MbTyped
  <2> QED BY <2>1, <2>2, Zenon
<1>4. /\ mbSub' \in MbSubs /\ (mbSub'.state = "NONE" => mbSub' = MbNoSub)
      /\ mbSub.state = "CANCEL_PENDING" => mbSub'.state = "INACTIVE"
  <2>1. mbSub \in MbSubs /\ (mbSub.state = "NONE" => mbSub = MbNoSub) BY DEF MbInv, MbTyped
  <2> PICK st : st = [mbSub EXCEPT !.state = "INACTIVE"] OBVIOUS
  <2>2. st \in MbSubs /\ st.state = "INACTIVE" BY <2>1 DEF MbSubs
  <2>3. mbSub' = st \/ (mbSub' = mbSub /\ mbSub.state # "CANCEL_PENDING") BY DEF MbExpire
  <2> QED BY <2>1, <2>2, <2>3
<1>5. /\ MbOnly(w) /\ DOMAIN mbWork' = MbWorkers /\ MbRunOk(mbWork'[w], mbSnapshots)
      /\ MbRunFits(mbWork'[w], mbModule, mbSub', mbSnapshots)
  <2>1. CASE MbThen(w)
    <3>1. MbTyped /\ MbHeld /\ mbWork[w].at # "idle" BY <1>2 DEF MbInv
    <3> HIDE DEF MbOnly, MbRunOk, MbRunFits, MbThen
    <3> QED BY <2>1, <3>1, MbThenIs
  <2>2. CASE MbStep(w, [at |-> "list"])
    <3> PICK fields : fields = [at |-> "list"] OBVIOUS
    <3> PICK new : new = MbMerged(r, fields) OBVIOUS
    <3>1. DOMAIN mbWork' = MbWorkers /\ mbWork'[w] = new /\ MbOnly(w) BY <1>2, <2>2, MbOneMoves DEF MbOnly
    <3>2. /\ DOMAIN new = DOMAIN r \cup DOMAIN fields /\ \A f \in DOMAIN fields : new[f] = fields[f]
          /\ \A f \in DOMAIN r \ DOMAIN fields : new[f] = r[f]
      BY DEF MbMerged
    <3>3. DOMAIN fields = {"at"} /\ new.at = "list" BY <3>2
    <3>4. {"at", "now", "cycle", "sync"} \subseteq DOMAIN new /\ new.now \in MbDays BY <1>2, <3>2, <3>3 DEF MbRunOk
    <3>5. MbRunOk(new, mbSnapshots) BY <3>3, <3>4 DEF MbRunOk, MbPlans
    <3>6. MbRunFits(new, mbModule, mbSub', mbSnapshots) BY <3>3 DEF MbRunFits, MbPlans
    <3> QED BY <3>1, <3>5, <3>6
  <2> QED BY <2>1, <2>2 DEF MbExpire
<1>6. MbTyped' BY <1>1, <1>3, <1>4, <1>5 DEF MbInv, MbTyped
<1>7. MbHeld' /\ MbBooks'
  <2>1. ~MbAt(w, "item") BY <1>2 DEF MbAt
  <2> QED BY <1>1, <1>5, <2>1, MbTurn DEF MbInv
<1>8. MbSquare'
  <2> SUFFICES ASSUME mbExcuse' = FALSE
               PROVE  /\ MbApartIn(mbSnapshots)
                      /\ mbSub'.state \in MbLive => MbAligned(mbSnapshots, mbSub'.start)
                      /\ mbSub'.state = "NONE" \/ (mbSub'.state = "INACTIVE" /\ mbModule.billable = TRUE) =>
                            MbAligned(mbSnapshots, mbModule.since)
                      /\ \A v \in MbWorkers : MbRunFits(mbWork'[v], mbModule, mbSub', mbSnapshots)
    BY <1>1 DEF MbSquare
  <2>1. mbExcuse = FALSE /\ mbSub'.state = "INACTIVE" BY <1>3, <1>4
  <2>2. /\ MbApartIn(mbSnapshots)
        /\ \A v \in MbWorkers : MbRunFits(mbWork[v], mbModule, mbSub, mbSnapshots)
    BY <2>1 DEF MbInv, MbSquare
  <2>3. mbModule.billable = FALSE BY <1>2, <2>2 DEF MbRunFits
  <2>4. \A v \in MbWorkers : MbRunFits(mbWork[v], mbModule, mbSub', mbSnapshots) BY <2>1, <2>2 DEF MbRunFits, MbLive
  <2>5. \A v \in MbWorkers : mbWork'[v] = mbWork[v] \/ v = w BY <1>5 DEF MbOnly
  <2>6. \A v \in MbWorkers : MbRunFits(mbWork'[v], mbModule, mbSub', mbSnapshots) BY <1>5, <2>4, <2>5
  <2> QED BY <2>1, <2>2, <2>3, <2>6 DEF MbLive
<1> QED BY <1>6, <1>7, <1>8 DEF MbInv

\* MbPlanOk: what a run has decided does not change while it prices.
LEMMA MbPlanStays ==
    ASSUME NEW r, NEW new, MbPlanOk(r), DOMAIN r \subseteq DOMAIN new,
           new.since = r.since, new.period = r.period, new.activation = r.activation, new.start = r.start,
           new.write = r.write, new.was = r.was
    PROVE  MbPlanOk(new)
BY DEF MbPlanOk, MbAnchor

\* MbPrice: the price a run writes is of a period that no other overlaps, unless the subscription has changed meanwhile.
LEMMA MbPriceKeeps ==
    ASSUME MbInv, NEW w \in MbWorkers, MbPrice(w)
    PROVE  MbInv'
<1> PICK r : r = mbWork[w] OBVIOUS
<1> PICK s : s = r.period OBVIOUS
<1> PICK p \in MbPrices :
      /\ MbStep(w, [at |-> "item", price |-> MbKeptPrice(s, p)])
      /\ mbSnapshots' = [mbSnapshots EXCEPT ![s] = IF @ = MbNone THEN p ELSE @]
      /\ mbExcuse' = (mbExcuse \/ (mbSub # r.was))
  BY DEF MbPrice
<1>1. UNCHANGED <<mbDay, mbModule, mbSub, mbItems, mbInvoices, mbCut>> BY DEF MbPrice
<1>2. r.at = "price" /\ MbRunOk(r, mbSnapshots) /\ DOMAIN mbWork = MbWorkers BY DEF MbPrice, MbAt, MbInv, MbTyped, MbHeld
<1>3. MbPlanOk(r) /\ s \in MbDays BY <1>2 DEF MbRunOk, MbPlans, MbPlanOk
<1>4. mbSnapshots \in [MbDays -> Nat \cup {MbNone}] /\ p \in Nat BY MbAssumption DEF MbInv, MbTyped
<1> PICK later : later = mbSnapshots' OBVIOUS
<1>5. /\ later \in [MbDays -> Nat \cup {MbNone}] /\ later[s] = MbKeptPrice(s, p) /\ later[s] # MbNone
      /\ \A t \in MbDays : t # s => later[t] = mbSnapshots[t]
      /\ mbSnapshots[s] # MbNone => later[s] = mbSnapshots[s]
  BY <1>3, <1>4 DEF MbKeptPrice, MbNone
<1>6. MbKept(mbSnapshots, later) BY <1>5 DEF MbKept
<1>7. /\ mbExcuse' \in BOOLEAN
      /\ mbExcuse' = FALSE => mbExcuse = FALSE /\ mbSub = r.was
  <2>1. mbExcuse \in BOOLEAN BY DEF MbInv, MbTyped
  <2> QED BY <2>1, Zenon
<1> PICK fields : fields = [at |-> "item", price |-> MbKeptPrice(s, p)] OBVIOUS
<1> PICK new : new = MbMerged(r, fields) OBVIOUS
<1>8. DOMAIN mbWork' = MbWorkers /\ mbWork'[w] = new /\ MbOnly(w)
  <2>1. MbStep(w, fields) OBVIOUS
  <2> QED BY <1>2, <2>1, MbOneMoves DEF MbOnly
<1>9. /\ DOMAIN new = DOMAIN r \cup DOMAIN fields /\ \A f \in DOMAIN fields : new[f] = fields[f]
      /\ \A f \in DOMAIN r \ DOMAIN fields : new[f] = r[f]
  BY DEF MbMerged
<1>10. DOMAIN fields = {"at", "price"} /\ new.at = "item" /\ new.price = later[s] BY <1>5, <1>9
<1>11. {"since", "period", "activation", "start", "write", "was", "at", "now", "cycle", "sync"} \subseteq DOMAIN r
  BY <1>2, <1>3 DEF MbPlanOk, MbRunOk
<1>12. /\ new.since = r.since /\ new.period = r.period /\ new.activation = r.activation /\ new.start = r.start
       /\ new.write = r.write /\ new.was = r.was /\ new.now = r.now /\ DOMAIN r \subseteq DOMAIN new
  BY <1>9, <1>10, <1>11
<1>13. MbRunOk(new, later)
  <2>1. MbPlanOk(new) BY <1>3, <1>12, MbPlanStays
  <2>2. {"at", "now", "cycle", "sync", "price"} \subseteq DOMAIN new BY <1>9, <1>10, <1>11
  <2> QED BY <1>2, <1>5, <1>10, <1>12, <2>1, <2>2 DEF MbRunOk, MbPlans
<1>14. MbTyped'
  <2>1. mbSnapshots' \in [MbDays -> Nat \cup {MbNone}] BY <1>5
  <2> QED BY <1>1, <1>7, <1>8, <2>1 DEF MbInv, MbTyped
<1>15. MbHeld'
  <2>1. MbKept(mbSnapshots, mbSnapshots') /\ MbRunOk(mbWork'[w], mbSnapshots') BY <1>6, <1>8, <1>13
  <2> QED BY <1>8, <2>1, MbHeldMoves DEF MbInv
<1>16. MbBooks'
  <2>1. MbChargedAsFixed' /\ MbInvoicedIsCharged'
    <3> SUFFICES ASSUME NEW t \in MbDays
                 PROVE  /\ mbItems[t].amount # MbNone => mbItems[t].amount = later[t]
                        /\ mbItems[t].invoice # MbNone => mbItems[t].amount # MbNone
      BY <1>1 DEF MbChargedAsFixed, MbInvoicedIsCharged, MbItemised
    <3>1. mbItems[t].amount # MbNone => mbItems[t].amount = mbSnapshots[t]
      BY DEF MbInv, MbBooks, MbChargedAsFixed, MbItemised
    <3>2. mbItems[t].invoice # MbNone => mbItems[t].amount # MbNone BY DEF MbInv, MbBooks, MbInvoicedIsCharged
    <3> QED BY <1>6, <3>1, <3>2 DEF MbKept
  <2>2. MbTotalsAdd'
    <3> SUFFICES ASSUME NEW end \in MbDays, mbInvoices[end] # MbNone PROVE mbInvoices[end] = MbTotal(mbItems', end)
      BY <1>1 DEF MbTotalsAdd
    <3>1. mbInvoices[end] = MbTotal(mbItems, end) BY DEF MbInv, MbBooks, MbTotalsAdd
    <3> PICK items : items = mbItems OBVIOUS
    <3>2. items = mbItems' BY <1>1
    <3> QED BY <3>1, <3>2
  <2>3. MbBilledUnlessCut'
    <3> SUFFICES ASSUME NEW t \in MbDays, later[t] > 0
                 PROVE  \/ mbItems[t].amount # MbNone \/ t \in mbCut
                        \/ \E v \in MbWorkers : mbWork'[v].at = "item" /\ mbWork'[v].period = t
      BY <1>1 DEF MbBilledUnlessCut, MbItemised, MbAt
    <3>1. CASE t = s
      <4>1. mbWork'[w].at = "item" /\ mbWork'[w].period = t BY <1>8, <1>10, <1>12, <3>1
      <4> QED BY <4>1
    <3>2. CASE t # s
      <4>1. mbSnapshots[t] > 0 BY <1>5, <3>2
      <4>2. \/ mbItems[t].amount # MbNone \/ t \in mbCut
            \/ \E v \in MbWorkers : mbWork[v].at = "item" /\ mbWork[v].period = t
        BY <4>1 DEF MbInv, MbBooks, MbBilledUnlessCut, MbItemised, MbAt
      <4>3. ASSUME NEW v \in MbWorkers, mbWork[v].at = "item" /\ mbWork[v].period = t
            PROVE  mbWork'[v].at = "item" /\ mbWork'[v].period = t
        BY <1>2, <1>8, <4>3 DEF MbOnly
      <4> QED BY <4>2, <4>3
    <3> QED BY <3>1, <3>2
  <2> QED BY <2>1, <2>2, <2>3 DEF MbBooks
<1>17. MbSquare'
  <2> SUFFICES ASSUME mbExcuse' = FALSE
               PROVE  /\ MbApartIn(later)
                      /\ mbSub.state \in MbLive => MbAligned(later, mbSub.start)
                      /\ mbSub.state = "NONE" \/ (mbSub.state = "INACTIVE" /\ mbModule.billable = TRUE) =>
                            MbAligned(later, mbModule.since)
                      /\ \A v \in MbWorkers : MbRunFits(mbWork'[v], mbModule, mbSub, later)
    BY <1>1 DEF MbSquare
  <2>1. mbExcuse = FALSE /\ mbSub = r.was BY <1>7
  <2>2. /\ MbApartIn(mbSnapshots)
        /\ mbSub.state \in MbLive => MbAligned(mbSnapshots, mbSub.start)
        /\ \A v \in MbWorkers : MbRunFits(mbWork[v], mbModule, mbSub, mbSnapshots)
    BY <2>1 DEF MbInv, MbSquare
  <2>3. r.since = mbModule.since /\ r.since \in MbDays /\ mbSub.start \in MbDays
    BY <1>2, <1>3, <2>1, <2>2 DEF MbRunFits, MbPlans, MbPlanOk, MbSubs
  <2>4. mbSub.state \notin MbLive => MbAligned(mbSnapshots, r.since)
    BY <1>2, <2>1, <2>2 DEF MbRunFits, MbPlans
  <2>5. /\ mbSub.state \in MbLive => MbOnGrid(s, mbSub.start)
        /\ mbSub.state \notin MbLive => MbOnGrid(s, r.since)
    BY <1>3, <2>1 DEF MbPlanOk, MbAnchor
  <2>6. ASSUME NEW b \in MbDays, MbAligned(mbSnapshots, b), MbOnGrid(s, b) PROVE MbAligned(later, b) /\ MbApartIn(later)
    <3> PICK before : before = mbSnapshots OBVIOUS
    <3>1. MbAddsOnly(before, later, s) BY <1>5 DEF MbAddsOnly
    <3>2. MbAligned(before, b) /\ MbApartIn(before) BY <2>2, <2>6
    <3>3. MbAligned(later, b) /\ (MbApartIn(before) => MbApartIn(later)) BY <1>3, <2>6, <3>1, <3>2, MbAlignedAdds
    <3> QED BY <3>2, <3>3
  <2>7. MbApartIn(later) BY <2>2, <2>3, <2>4, <2>5, <2>6
  <2>8. mbSub.state \in MbLive => MbAligned(later, mbSub.start) BY <2>2, <2>3, <2>5, <2>6
  <2>9. mbSub.state \notin MbLive => MbAligned(later, mbModule.since) BY <2>3, <2>4, <2>5, <2>6
  <2>10. ASSUME NEW q, MbRunFits(q, mbModule, mbSub, mbSnapshots) PROVE MbRunFits(q, mbModule, mbSub, later)
    <3> SUFFICES ASSUME q.at \in MbPlans, q.was.state \notin MbLive PROVE MbAligned(later, q.since)
      BY <2>10 DEF MbRunFits
    <3>1. q.since = mbModule.since /\ MbAligned(mbSnapshots, q.since) /\ (mbSub.state \in MbLive => MbOnGrid(mbSub.start, q.since))
      BY <2>10 DEF MbRunFits
    <3>2. CASE mbSub.state \notin MbLive
      BY <2>9, <3>1, <3>2
    <3>3. CASE mbSub.state \in MbLive
      <4>1. q.since \in MbDays BY <2>3, <3>1
      <4>2. MbOnGrid(s, q.since) BY <1>3, <2>3, <2>5, <3>1, <3>3, <4>1, MbGridGoesOn
      <4> QED BY <2>6, <3>1, <4>1, <4>2
    <3> QED BY <3>2, <3>3
  <2>11. MbRunFits(new, mbModule, mbSub, later)
    <3>1. MbRunFits(r, mbModule, mbSub, mbSnapshots) BY <2>2
    <3>2. MbRunFits(r, mbModule, mbSub, later) BY <2>10, <3>1
    <3> QED BY <1>2, <1>10, <1>12, <3>2 DEF MbRunFits, MbPlans
  <2>12. ASSUME NEW v \in MbWorkers PROVE MbRunFits(mbWork'[v], mbModule, mbSub, later)
    <3> PICK q : q = mbWork[v] OBVIOUS
    <3>1. MbRunFits(q, mbModule, mbSub, mbSnapshots) BY <2>2
    <3>2. MbRunFits(q, mbModule, mbSub, later) BY <2>10, <3>1
    <3>3. mbWork'[v] = q \/ mbWork'[v] = new BY <1>8 DEF MbOnly
    <3> QED BY <2>11, <3>2, <3>3
  <2>13. mbSub.state \in {"NONE", "INACTIVE"} => mbSub.state \notin MbLive BY DEF MbLive
  <2> QED BY <2>7, <2>8, <2>9, <2>12, <2>13
<1> QED BY <1>14, <1>15, <1>16, <1>17 DEF MbInv

\* MbItem: what is charged for a period is the price that is written, and it is on no invoice yet.
LEMMA MbItemKeeps ==
    ASSUME MbInv, NEW w \in MbWorkers, MbItem(w)
    PROVE  MbInv'
<1> PICK r : r = mbWork[w] OBVIOUS
<1> PICK s : s = r.period OBVIOUS
<1> PICK q : q = r.price OBVIOUS
<1>1. UNCHANGED <<mbDay, mbModule, mbSub, mbSnapshots, mbInvoices, mbCut, mbExcuse>> BY DEF MbItem
<1>2. r.at = "item" /\ MbRunOk(r, mbSnapshots) /\ DOMAIN mbWork = MbWorkers BY DEF MbItem, MbAt, MbInv, MbTyped, MbHeld
<1>3. MbPlanOk(r) /\ s \in MbDays /\ q = mbSnapshots[s] /\ q # MbNone BY <1>2 DEF MbRunOk, MbPlans, MbPlanOk
<1>4. q \in Nat /\ mbItems \in [MbDays -> MbCharges] BY <1>3 DEF MbInv, MbTyped
<1> PICK items : items = mbItems OBVIOUS
<1> PICK later : later = mbItems' OBVIOUS
<1>5. /\ later \in [MbDays -> MbCharges] /\ \A t \in MbDays : later[t].invoice = items[t].invoice
      /\ \A t \in MbDays : later[t].amount = items[t].amount \/ (t = s /\ items[t].amount = MbNone /\ later[t].amount = q)
      /\ q > 0 => later[s].amount # MbNone
  <2>1. later = IF q > 0 /\ ~MbItemised(s) THEN [items EXCEPT ![s].amount = q] ELSE items BY DEF MbItem
  <2>2. CASE q > 0 /\ ~MbItemised(s)
    <3>1. later = [items EXCEPT ![s].amount = q] /\ items[s].amount = MbNone BY <2>1, <2>2 DEF MbItemised
    <3>2. later = [items EXCEPT ![s] = [items[s] EXCEPT !.amount = q]] BY <3>1
    <3> PICK c : c = [items[s] EXCEPT !.amount = q] OBVIOUS
    <3>3. c \in MbCharges /\ c.invoice = items[s].invoice /\ c.amount = q BY <1>3, <1>4 DEF MbCharges
    <3>4. later[s] = c /\ \A t \in MbDays : t # s => later[t] = items[t] BY <1>3, <1>4, <3>2
    <3>5. later \in [MbDays -> MbCharges] BY <1>4, <3>2, <3>3
    <3> QED BY <2>2, <3>1, <3>3, <3>4, <3>5 DEF MbNone
  <2>3. CASE ~(q > 0 /\ ~MbItemised(s))
    <3>1. later = items /\ (q > 0 => items[s].amount # MbNone) BY <2>1, <2>3 DEF MbItemised
    <3> QED BY <1>4, <3>1
  <2> QED BY <2>2, <2>3
<1> PICK fields : fields = [at |-> "period"] OBVIOUS
<1> PICK new : new = MbMerged(r, fields) OBVIOUS
<1>6. DOMAIN mbWork' = MbWorkers /\ mbWork'[w] = new /\ MbOnly(w)
  <2>1. MbStep(w, fields) BY DEF MbItem
  <2> QED BY <1>2, <2>1, MbOneMoves DEF MbOnly
<1>7. /\ DOMAIN new = DOMAIN r \cup DOMAIN fields /\ \A f \in DOMAIN fields : new[f] = fields[f]
      /\ \A f \in DOMAIN r \ DOMAIN fields : new[f] = r[f]
  BY DEF MbMerged
<1>8. DOMAIN fields = {"at"} /\ new.at = "period" BY <1>7
<1>9. {"since", "period", "activation", "start", "write", "was", "at", "now", "cycle", "sync"} \subseteq DOMAIN r
  BY <1>2, <1>3 DEF MbPlanOk, MbRunOk
<1>10. /\ new.since = r.since /\ new.period = r.period /\ new.activation = r.activation /\ new.start = r.start
       /\ new.write = r.write /\ new.was = r.was /\ new.now = r.now /\ DOMAIN r \subseteq DOMAIN new
  BY <1>7, <1>8, <1>9
<1>11. MbRunOk(new, mbSnapshots)
  <2>1. MbPlanOk(new) BY <1>3, <1>10, MbPlanStays
  <2> QED BY <1>2, <1>8, <1>9, <1>10, <2>1 DEF MbRunOk, MbPlans
<1>12. MbTyped'
  <2>1. mbItems' \in [MbDays -> MbCharges] BY <1>5
  <2> QED BY <1>1, <1>6, <2>1 DEF MbInv, MbTyped
<1>13. MbHeld'
  <2>1. mbSnapshots' = mbSnapshots BY <1>1
  <2>2. MbKept(mbSnapshots, mbSnapshots') /\ MbRunOk(mbWork'[w], mbSnapshots') BY <1>6, <1>11, <2>1 DEF MbKept
  <2> QED BY <1>6, <2>2, MbHeldMoves DEF MbInv
<1>14. MbBooks'
  <2>1. \A t \in MbDays : items[t].amount # MbNone => items[t].amount = mbSnapshots[t]
    BY DEF MbInv, MbBooks, MbChargedAsFixed, MbItemised
  <2>2. \A t \in MbDays : items[t].invoice # MbNone => items[t].amount # MbNone BY DEF MbInv, MbBooks, MbInvoicedIsCharged
  <2>3. \A t \in MbDays : later[t].amount # MbNone => later[t].amount = mbSnapshots[t] BY <1>3, <1>5, <2>1
  <2>4. \A t \in MbDays : later[t].invoice # MbNone => later[t].amount # MbNone BY <1>3, <1>5, <2>2
  <2>5. MbChargedAsFixed' /\ MbInvoicedIsCharged'
    BY <1>1, <2>3, <2>4 DEF MbChargedAsFixed, MbInvoicedIsCharged, MbItemised
  <2>6. MbTotalsAdd'
    <3> SUFFICES ASSUME NEW end \in MbDays, mbInvoices[end] # MbNone PROVE mbInvoices[end] = MbTotal(later, end)
      BY <1>1 DEF MbTotalsAdd
    <3>1. mbInvoices[end] = MbTotal(items, end) BY DEF MbInv, MbBooks, MbTotalsAdd
    <3>2. end # MbNone BY DEF MbDays, MbNone
    <3>3. \A t \in MbDays : items[t].invoice = end <=> later[t].invoice = end BY <1>5
    <3>4. \A t \in MbDays : items[t].invoice = end => later[t].amount = items[t].amount BY <1>5, <2>2, <3>2
    <3>5. MbTotal(later, end) = MbTotal(items, end) BY <3>3, <3>4, MbTotalSame
    <3> QED BY <3>1, <3>5
  <2>7. MbBilledUnlessCut'
    <3> SUFFICES ASSUME NEW t \in MbDays, mbSnapshots[t] > 0
                 PROVE  \/ later[t].amount # MbNone \/ t \in mbCut
                        \/ \E v \in MbWorkers : mbWork'[v].at = "item" /\ mbWork'[v].period = t
      BY <1>1 DEF MbBilledUnlessCut, MbItemised, MbAt
    <3>1. \/ items[t].amount # MbNone \/ t \in mbCut
          \/ \E v \in MbWorkers : mbWork[v].at = "item" /\ mbWork[v].period = t
      BY DEF MbInv, MbBooks, MbBilledUnlessCut, MbItemised, MbAt
    <3>2. CASE t = s
      BY <1>3, <1>5, <3>2
    <3>3. CASE t # s
      <4>1. later[t].amount = items[t].amount BY <1>5, <3>3
      <4>2. ASSUME NEW v \in MbWorkers, mbWork[v].at = "item" /\ mbWork[v].period = t
            PROVE  mbWork'[v].at = "item" /\ mbWork'[v].period = t
        BY <1>6, <3>3, <4>2 DEF MbOnly
      <4> QED BY <3>1, <4>1, <4>2
    <3> QED BY <3>2, <3>3
  <2> QED BY <2>5, <2>6, <2>7 DEF MbBooks
<1>15. MbSquare'
  <2>1. mbExcuse = FALSE => MbRunFits(r, mbModule, mbSub, mbSnapshots) BY DEF MbInv, MbSquare
  <2>2. mbExcuse = FALSE => MbRunFits(new, mbModule, mbSub, mbSnapshots)
    BY <1>2, <1>8, <1>10, <2>1 DEF MbRunFits, MbPlans
  <2>3. mbExcuse' = FALSE => mbExcuse = FALSE /\ MbRunFits(mbWork'[w], mbModule, mbSub, mbSnapshots)
    BY <1>1, <1>6, <2>2
  <2> QED BY <1>1, <1>6, <2>3, MbSquareMoves DEF MbInv
<1> QED BY <1>12, <1>13, <1>14, <1>15 DEF MbInv

\* MbWrite: a subscription is written from a period that its prices are aligned with, unless it has changed meanwhile.
LEMMA MbWriteKeeps ==
    ASSUME MbInv, NEW w \in MbWorkers, MbWrite(w)
    PROVE  MbInv'
<1> PICK r : r = mbWork[w] OBVIOUS
<1>1. UNCHANGED <<mbDay, mbModule, mbSnapshots, mbItems, mbInvoices, mbCut>> BY DEF MbWrite
<1>2. r.at = "write" /\ MbRunOk(r, mbSnapshots) /\ DOMAIN mbWork = MbWorkers BY DEF MbWrite, MbAt, MbInv, MbTyped, MbHeld
<1>3. MbPlanOk(r) BY <1>2 DEF MbRunOk, MbPlans
<1>4. /\ mbExcuse' \in BOOLEAN
      /\ mbExcuse' = FALSE => mbExcuse = FALSE /\ ~(r.write = "update" /\ mbSub # r.was)
  <2>1. mbExcuse' = (mbExcuse \/ (r.write = "update" /\ mbSub # r.was)) BY DEF MbWrite
  <2>2. mbExcuse \in BOOLEAN BY DEF MbInv, MbTyped
  <2> QED BY <2>1, <2>2, Zenon
<1>5. /\ MbOnly(w) /\ DOMAIN mbWork' = MbWorkers /\ MbRunOk(mbWork'[w], mbSnapshots)
      /\ MbRunFits(mbWork'[w], mbModule, mbSub', mbSnapshots)
  <2>1. CASE MbThen(w)
    <3>1. MbTyped /\ MbHeld /\ mbWork[w].at # "idle" BY <1>2 DEF MbInv
    <3> HIDE DEF MbOnly, MbRunOk, MbRunFits, MbThen
    <3> QED BY <2>1, <3>1, MbThenIs
  <2>2. CASE MbGo(w, MbIdle)
    <3> PICK new : new = MbIdle OBVIOUS
    <3>1. DOMAIN mbWork' = MbWorkers /\ mbWork'[w] = new /\ MbOnly(w) BY <1>2, <2>2, MbOneMoves DEF MbOnly
    <3> HIDE DEF MbOnly, MbRunOk, MbRunFits
    <3> QED BY <3>1, MbIdleIs
  <2> QED BY <2>1, <2>2 DEF MbWrite
<1> PICK st : st = [state |-> "ACTIVE", activation |-> r.activation, start |-> r.start] OBVIOUS
<1>6. mbSub' = mbSub \/ (mbSub' = st /\ (r.write = "update" \/ (r.write = "insert" /\ mbSub = MbNoSub)))
  BY <1>3 DEF MbWrite, MbPlanOk
<1>7. st \in MbSubs /\ st.state = "ACTIVE" /\ st.start = r.start BY <1>3 DEF MbPlanOk, MbSubs, MbLive
<1>8. MbTyped'
  <2>1. mbSub \in MbSubs /\ (mbSub.state = "NONE" => mbSub = MbNoSub) BY DEF MbInv, MbTyped
  <2>2. mbSub' \in MbSubs /\ (mbSub'.state = "NONE" => mbSub' = MbNoSub) BY <1>6, <1>7, <2>1
  <2> QED BY <1>1, <1>4, <1>5, <2>2 DEF MbInv, MbTyped
<1>9. MbHeld' /\ MbBooks'
  <2>1. ~MbAt(w, "item") BY <1>2 DEF MbAt
  <2> QED BY <1>1, <1>5, <2>1, MbTurn DEF MbInv
<1>10. MbSquare'
  <2> SUFFICES ASSUME mbExcuse' = FALSE
               PROVE  /\ MbApartIn(mbSnapshots)
                      /\ mbSub'.state \in MbLive => MbAligned(mbSnapshots, mbSub'.start)
                      /\ mbSub'.state = "NONE" \/ (mbSub'.state = "INACTIVE" /\ mbModule.billable = TRUE) =>
                            MbAligned(mbSnapshots, mbModule.since)
                      /\ \A v \in MbWorkers : MbRunFits(mbWork'[v], mbModule, mbSub', mbSnapshots)
    BY <1>1 DEF MbSquare
  <2>1. mbExcuse = FALSE /\ (r.write = "update" => mbSub = r.was) BY <1>4
  <2>2. /\ MbApartIn(mbSnapshots)
        /\ mbSub.state \in MbLive => MbAligned(mbSnapshots, mbSub.start)
        /\ mbSub.state = "NONE" \/ (mbSub.state = "INACTIVE" /\ mbModule.billable = TRUE) =>
              MbAligned(mbSnapshots, mbModule.since)
        /\ \A v \in MbWorkers : MbRunFits(mbWork[v], mbModule, mbSub, mbSnapshots)
    BY <2>1 DEF MbInv, MbSquare
  <2>3. \A v \in MbWorkers : mbWork'[v] = mbWork[v] \/ v = w BY <1>5 DEF MbOnly
  <2>4. CASE mbSub' = mbSub
    <3>1. \A v \in MbWorkers : MbRunFits(mbWork'[v], mbModule, mbSub, mbSnapshots) BY <1>5, <2>2, <2>3, <2>4
    <3> QED BY <2>2, <2>4, <3>1
  <2>5. CASE mbSub' = st /\ (r.write = "update" \/ (r.write = "insert" /\ mbSub = MbNoSub))
    <3> PICK snapshots : snapshots = mbSnapshots OBVIOUS
    <3>1. /\ r.since = mbModule.since /\ r.since \in MbDays /\ r.start \in MbDays /\ r.was.start \in MbDays
          /\ r.was.state \notin MbLive => MbAligned(snapshots, r.since)
      BY <1>2, <1>3, <2>2 DEF MbRunFits, MbPlans, MbPlanOk, MbSubs
    <3>2. r.was.state \in MbLive => mbSub = r.was /\ MbAligned(snapshots, r.was.start)
      <4>1. r.write = "insert" => r.was.state \notin MbLive BY <1>3 DEF MbPlanOk, MbLive
      <4> QED BY <2>1, <2>2, <2>5, <4>1
    <3>3. /\ r.was.state \in MbLive => MbOnGrid(r.start, r.was.start)
          /\ r.was.state \notin MbLive => MbOnGrid(r.start, r.since)
      BY <1>3 DEF MbPlanOk, MbAnchor
    <3>4. MbAligned(snapshots, r.start)
      <4>1. CASE r.was.state \in MbLive
        BY <3>1, <3>2, <3>3, <4>1, MbAlignedMoves
      <4>2. CASE r.was.state \notin MbLive
        BY <3>1, <3>3, <4>2, MbAlignedMoves
      <4> QED BY <4>1, <4>2
    <3>5. ASSUME NEW v \in MbWorkers, v # w PROVE MbRunFits(mbWork'[v], mbModule, st, snapshots)
      <4> PICK q : q = mbWork[v] OBVIOUS
      <4>1. MbRunFits(q, mbModule, mbSub, snapshots) /\ mbWork'[v] = q BY <2>2, <2>3, <3>5
      <4> SUFFICES ASSUME q.at \in MbPlans, q.was.state \notin MbLive PROVE MbOnGrid(r.start, q.since)
        BY <1>7, <4>1 DEF MbRunFits
      <4>2. q.since = r.since /\ (mbSub.state \in MbLive => MbOnGrid(mbSub.start, q.since)) BY <3>1, <4>1 DEF MbRunFits
      <4>3. CASE r.was.state \notin MbLive
        BY <3>3, <4>2, <4>3
      <4>4. CASE r.was.state \in MbLive
        <5>1. MbOnGrid(r.was.start, q.since) /\ q.since \in MbDays BY <3>1, <3>2, <4>2, <4>4
        <5> QED BY <3>1, <3>3, <4>4, <5>1, MbGridGoesOn
      <4> QED BY <4>3, <4>4
    <3>6. \A v \in MbWorkers : MbRunFits(mbWork'[v], mbModule, mbSub', mbSnapshots) BY <1>5, <2>5, <3>5
    <3> QED BY <1>7, <2>2, <2>5, <3>4, <3>6 DEF MbLive
  <2> QED BY <1>6, <2>4, <2>5
<1> QED BY <1>8, <1>9, <1>10 DEF MbInv

\* MbInvoice: an invoice takes items of none, and its total is written again.
LEMMA MbInvoiceKeeps ==
    ASSUME MbInv, NEW w \in MbWorkers, MbInvoice(w)
    PROVE  MbInv'
<1> PICK r : r = mbWork[w] OBVIOUS
<1> PICK end : end = r.now OBVIOUS
<1>1. UNCHANGED <<mbDay, mbModule, mbSub, mbSnapshots, mbCut, mbExcuse>> BY DEF MbInvoice
<1>2. r.at = "invoice" /\ end \in MbDays /\ DOMAIN mbWork = MbWorkers BY DEF MbInvoice, MbAt, MbInv, MbTyped, MbHeld, MbRunOk
<1>3. end # MbNone BY <1>2 DEF MbDays, MbNone
<1> PICK items : items = mbItems OBVIOUS
<1> PICK later : later = mbItems' OBVIOUS
<1>4. items \in [MbDays -> MbCharges] BY DEF MbInv, MbTyped
<1>5. /\ later \in [MbDays -> MbCharges] /\ DOMAIN mbInvoices' = MbDays
      /\ \A t \in MbDays : later[t].amount = items[t].amount
      /\ \A t \in MbDays : \/ later[t].invoice = items[t].invoice
                           \/ later[t].invoice = end /\ items[t].invoice = MbNone /\ items[t].amount # MbNone
      /\ \A e \in MbDays : mbInvoices'[e] = mbInvoices[e] \/ (e = end /\ mbInvoices'[e] = MbTotal(later, end))
      /\ later = items \/ mbInvoices'[end] = MbTotal(later, end)
  <2>1. DOMAIN mbInvoices = MbDays BY DEF MbInv, MbTyped
  <2>2. CASE UNCHANGED <<mbItems, mbInvoices>>
    BY <1>4, <2>1, <2>2
  <2>3. CASE /\ mbItems' = [s \in MbDays |-> IF MbTakes(s, end) THEN [mbItems[s] EXCEPT !.invoice = end] ELSE mbItems[s]]
             /\ mbInvoices' = [mbInvoices EXCEPT ![end] = MbTotal(mbItems', end)]
    <3>1. ASSUME NEW s \in MbDays
          PROVE  /\ later[s] \in MbCharges /\ later[s].amount = items[s].amount
                 /\ \/ later[s].invoice = items[s].invoice
                    \/ later[s].invoice = end /\ items[s].invoice = MbNone /\ items[s].amount # MbNone
      <4>1. items[s] \in MbCharges BY <1>4
      <4>2. CASE MbTakes(s, end)
        <5>1. later[s] = [items[s] EXCEPT !.invoice = end] /\ items[s].invoice = MbNone /\ items[s].amount # MbNone
          BY <2>3, <4>2 DEF MbTakes, MbItemised
        <5> QED BY <1>2, <4>1, <5>1 DEF MbCharges
      <4>3. CASE ~MbTakes(s, end)
        <5>1. later[s] = items[s] BY <2>3, <4>3
        <5> QED BY <4>1, <5>1
      <4> QED BY <4>2, <4>3
    <3>2. later \in [MbDays -> MbCharges]
      <4>1. DOMAIN later = MbDays /\ later = [s \in DOMAIN later |-> later[s]] BY <2>3
      <4> QED BY <3>1, <4>1
    <3> PICK total : total = MbTotal(mbItems', end) OBVIOUS
    <3>3. mbInvoices' = [mbInvoices EXCEPT ![end] = total] BY <2>3
    <3>4. DOMAIN mbInvoices' = MbDays /\ mbInvoices'[end] = total /\ \A e \in MbDays \ {end} : mbInvoices'[e] = mbInvoices[e]
      BY <1>2, <2>1, <3>3
    <3>5. total = MbTotal(later, end) OBVIOUS
    <3> HIDE DEF MbTotal
    <3> QED BY <3>1, <3>2, <3>4, <3>5
  <2> HIDE DEF MbTotal, MbTakes
  <2> QED BY <2>2, <2>3 DEF MbInvoice
<1> PICK new : new = MbIdle OBVIOUS
<1>6. DOMAIN mbWork' = MbWorkers /\ mbWork'[w] = new /\ MbOnly(w)
  <2>1. MbGo(w, new) BY DEF MbInvoice
  <2> QED BY <1>2, <2>1, MbOneMoves DEF MbOnly
<1>7. MbTyped'
  <2>1. mbItems' \in [MbDays -> MbCharges] BY <1>5
  <2> QED BY <1>1, <1>5, <1>6, <2>1 DEF MbInv, MbTyped
<1>8. MbHeld'
  <2>1. mbSnapshots' = mbSnapshots BY <1>1
  <2>2. MbRunOk(mbWork'[w], mbSnapshots') BY <1>6, MbIdleIs
  <2>3. MbKept(mbSnapshots, mbSnapshots') BY <2>1 DEF MbKept
  <2> QED BY <1>6, <2>2, <2>3, MbHeldMoves DEF MbInv
<1>9. MbBooks'
  <2>1. \A t \in MbDays : items[t].amount # MbNone => items[t].amount = mbSnapshots[t]
    BY DEF MbInv, MbBooks, MbChargedAsFixed, MbItemised
  <2>2. \A t \in MbDays : items[t].invoice # MbNone => items[t].amount # MbNone BY DEF MbInv, MbBooks, MbInvoicedIsCharged
  <2>3. \A t \in MbDays : later[t].amount # MbNone => later[t].amount = mbSnapshots[t] BY <1>5, <2>1
  <2>4. \A t \in MbDays : later[t].invoice # MbNone => later[t].amount # MbNone BY <1>5, <2>2
  <2>5. MbChargedAsFixed' /\ MbInvoicedIsCharged'
    BY <1>1, <2>3, <2>4 DEF MbChargedAsFixed, MbInvoicedIsCharged, MbItemised
  <2>6. MbTotalsAdd'
    <3> SUFFICES ASSUME NEW e \in MbDays, mbInvoices'[e] # MbNone PROVE mbInvoices'[e] = MbTotal(later, e)
      BY DEF MbTotalsAdd
    <3>1. CASE mbInvoices'[e] = mbInvoices[e] /\ (later = items \/ e # end)
      <4>1. mbInvoices[e] = MbTotal(items, e) BY <3>1 DEF MbInv, MbBooks, MbTotalsAdd
      <4>2. e # MbNone BY DEF MbDays, MbNone
      <4>3. \A t \in MbDays : items[t].invoice = e <=> later[t].invoice = e BY <1>5, <3>1, <4>2
      <4>4. \A t \in MbDays : items[t].invoice = e => later[t].amount = items[t].amount BY <1>5
      <4>5. MbTotal(later, e) = MbTotal(items, e) BY <4>3, <4>4, MbTotalSame
      <4> QED BY <3>1, <4>1, <4>5
    <3>2. CASE e = end /\ mbInvoices'[end] = MbTotal(later, end)
      BY <3>2
    <3> HIDE DEF MbTotal
    <3> QED BY <1>2, <1>5, <3>1, <3>2
  <2>7. MbBilledUnlessCut'
    <3> SUFFICES ASSUME NEW t \in MbDays, mbSnapshots[t] > 0
                 PROVE  \/ later[t].amount # MbNone \/ t \in mbCut
                        \/ \E v \in MbWorkers : mbWork'[v].at = "item" /\ mbWork'[v].period = t
      BY <1>1 DEF MbBilledUnlessCut, MbItemised, MbAt
    <3>1. \/ items[t].amount # MbNone \/ t \in mbCut
          \/ \E v \in MbWorkers : mbWork[v].at = "item" /\ mbWork[v].period = t
      BY DEF MbInv, MbBooks, MbBilledUnlessCut, MbItemised, MbAt
    <3>2. ASSUME NEW v \in MbWorkers, mbWork[v].at = "item" /\ mbWork[v].period = t
          PROVE  mbWork'[v].at = "item" /\ mbWork'[v].period = t
      BY <1>2, <1>6, <3>2 DEF MbOnly
    <3> QED BY <1>5, <3>1, <3>2
  <2> QED BY <2>5, <2>6, <2>7 DEF MbBooks
<1>10. MbSquare'
  <2>1. MbRunFits(mbWork'[w], mbModule, mbSub, mbSnapshots) BY <1>6, MbIdleIs
  <2>2. mbExcuse' = FALSE => mbExcuse = FALSE /\ MbRunFits(mbWork'[w], mbModule, mbSub, mbSnapshots) BY <1>1, <2>1
  <2> QED BY <1>1, <1>6, <2>2, MbSquareMoves DEF MbInv
<1> QED BY <1>7, <1>8, <1>9, <1>10 DEF MbInv

\* The invariant holds at the start: the module's only price, if any, is of the period that begins its first day.
LEMMA MbStart ==
    ASSUME MbInit
    PROVE  MbInv
<1> MbLastDay \in Nat /\ MbPrices \subseteq Nat /\ MbCycle \in Nat /\ MbBase \in Nat BY MbAssumption
<1>1. 0 \in MbDays BY DEF MbDays
<1> PICK p \in MbPrices \cup {MbNone} :
      /\ mbModule = [billable |-> ~(p = MbNone), since |-> 0]
      /\ mbSub = IF p = MbNone THEN MbNoSub ELSE [MbNoSub EXCEPT !.state = "ACTIVE"]
      /\ mbSnapshots = [d \in MbDays |-> IF d = 0 THEN p ELSE MbNone]
      /\ mbItems = [d \in MbDays |-> [amount |-> IF d = 0 /\ p > 0 THEN p ELSE MbNone, invoice |-> MbNone]]
  BY DEF MbInit
<1>2. /\ mbDay = 0 /\ mbInvoices = [d \in MbDays |-> MbNone] /\ mbWork = [w \in MbWorkers |-> MbIdle]
      /\ mbCut = {} /\ mbExcuse = FALSE
  BY DEF MbInit
<1>3. p \in Nat \cup {MbNone} /\ p \in Int BY DEF MbNone
<1>4. mbModule \in [billable : BOOLEAN, since : MbDays] /\ mbModule.since = 0 BY <1>1
<1>5. mbSub \in MbSubs /\ (mbSub.state = "NONE" => mbSub = MbNoSub) /\ mbSub.start = 0
  <2>1. CASE p = MbNone
    <3>1. mbSub = MbNoSub BY <2>1
    <3> QED BY <1>1, <3>1 DEF MbNoSub, MbSubs
  <2>2. CASE p # MbNone
    <3>1. mbSub = [state |-> "ACTIVE", activation |-> 0, start |-> 0] BY <2>2 DEF MbNoSub
    <3> QED BY <1>1, <3>1 DEF MbSubs, MbLive
  <2> QED BY <2>1, <2>2
<1>6. /\ mbSnapshots \in [MbDays -> Nat \cup {MbNone}]
      /\ \A s \in MbDays : s # 0 => mbSnapshots[s] = MbNone
      /\ mbSnapshots[0] = p
  BY <1>1, <1>3
<1>7. mbItems \in [MbDays -> MbCharges] /\ \A s \in MbDays : mbItems[s].invoice = MbNone
  BY <1>3 DEF MbCharges
<1>8. \A s \in MbDays : mbItems[s].amount = IF s = 0 /\ p > 0 THEN p ELSE MbNone OBVIOUS
<1>9. MbTyped BY <1>1, <1>2, <1>4, <1>5, <1>6, <1>7 DEF MbTyped
<1>10. \A w \in MbWorkers : mbWork[w] = MbIdle BY <1>2
<1>11. MbHeld BY <1>10, MbIdleIs DEF MbHeld
<1>12. MbBooks
  <2>1. MbChargedAsFixed BY <1>6, <1>8 DEF MbChargedAsFixed, MbItemised
  <2>2. MbInvoicedIsCharged BY <1>7 DEF MbInvoicedIsCharged
  <2>3. MbTotalsAdd BY <1>2 DEF MbTotalsAdd
  <2>4. MbBilledUnlessCut
    <3> SUFFICES ASSUME NEW s \in MbDays, mbSnapshots[s] > 0 PROVE mbItems[s].amount # MbNone
      BY DEF MbBilledUnlessCut, MbItemised
    <3>1. s = 0 BY <1>6 DEF MbNone
    <3> QED BY <1>3, <1>6, <1>8, <3>1 DEF MbNone
  <2> QED BY <2>1, <2>2, <2>3, <2>4 DEF MbBooks
<1>13. MbSquare
  <2>1. MbApartIn(mbSnapshots)
    <3>1. ASSUME NEW s \in MbDays, NEW t \in MbDays, mbSnapshots[s] # MbNone, mbSnapshots[t] # MbNone PROVE ~(s < t)
      BY <1>6, <3>1
    <3> QED BY <3>1 DEF MbApartIn
  <2>2. MbAligned(mbSnapshots, 0)
    <3>1. MbOnGrid(0, 0) BY <1>1, MbGridBegins
    <3> QED BY <1>6, <3>1 DEF MbAligned
  <2>3. \A w \in MbWorkers : MbRunFits(mbWork[w], mbModule, mbSub, mbSnapshots) BY <1>10, MbIdleIs
  <2> QED BY <1>4, <1>5, <2>1, <2>2, <2>3 DEF MbSquare
<1> QED BY <1>9, <1>11, <1>12, <1>13 DEF MbInv

\* Every step keeps it.
LEMMA MbStepKeeps ==
    ASSUME MbInv, [MbNext]_mbVars
    PROVE  MbInv'
<1>1. CASE UNCHANGED mbVars
  <2>1. UNCHANGED <<mbDay, mbModule, mbPaid, mbSub, mbSnapshots, mbItems, mbInvoices, mbWork, mbCut, mbExcuse>>
    BY <1>1 DEF mbVars
  <2>2. MbTyped' BY <2>1 DEF MbInv, MbTyped
  <2>3. MbHeld' /\ MbBooks' BY <2>1, MbAside DEF MbInv
  <2>4. MbSquare' BY <2>1 DEF MbInv, MbSquare
  <2> QED BY <2>2, <2>3, <2>4 DEF MbInv
<1>2. CASE MbTomorrow \/ MbMode
  BY <1>2, MbTomorrowModeKeep
<1>3. CASE MbSwitch
  BY <1>3, MbSwitchKeeps
<1>4. ASSUME NEW cancel \in BOOLEAN, MbRenewal(cancel) PROVE MbInv'
  BY <1>4, MbRenewalKeeps
<1>5. ASSUME NEW w \in MbWorkers, NEW cycle \in BOOLEAN, MbBegin(w, cycle) PROVE MbInv'
  BY <1>5, MbBeginKeeps
<1>6. ASSUME NEW w \in MbWorkers, MbRevoke(w) \/ MbExpire(w) \/ MbList(w) \/ MbRead(w) PROVE MbInv'
  BY <1>6, MbRevokeKeeps, MbExpireKeeps, MbListKeeps, MbReadKeeps
<1>7. ASSUME NEW w \in MbWorkers, MbFind(w) \/ MbPrice(w) \/ MbItem(w) \/ MbWrite(w) \/ MbInvoice(w) \/ MbStop(w) PROVE MbInv'
  BY <1>7, MbFindKeeps, MbPriceKeeps, MbItemKeeps, MbWriteKeeps, MbInvoiceKeeps, MbStopKeeps
<1> QED BY <1>1, <1>2, <1>3, <1>4, <1>5, <1>6, <1>7 DEF MbNext

\* MbItemStays: an item on an invoice is neither charged again nor moved.
LEMMA MbStepKeepsItems ==
    ASSUME MbInv, MbNext
    PROVE  MbItemStays
<1> SUFFICES ASSUME NEW s \in MbDays, mbItems[s].invoice # MbNone PROVE mbItems'[s] = mbItems[s]
  BY DEF MbItemStays
<1>1. mbItems[s].amount # MbNone BY DEF MbInv, MbBooks, MbInvoicedIsCharged
<1>2. mbItems \in [MbDays -> MbCharges] BY DEF MbInv, MbTyped
<1>3. ASSUME NEW w \in MbWorkers, MbItem(w) PROVE mbItems'[s] = mbItems[s]
  <2> PICK p : p = mbWork[w].period OBVIOUS
  <2> PICK q : q = mbWork[w].price OBVIOUS
  <2>1. mbItems' = IF q > 0 /\ ~MbItemised(p) THEN [mbItems EXCEPT ![p].amount = q] ELSE mbItems BY <1>3 DEF MbItem
  <2>2. CASE q > 0 /\ ~MbItemised(p)
    <3>1. p # s BY <1>1, <2>2 DEF MbItemised
    <3>2. mbItems' = [mbItems EXCEPT ![p] = [mbItems[p] EXCEPT !.amount = q]] BY <2>1, <2>2
    <3> QED BY <1>2, <3>1, <3>2
  <2> QED BY <2>1, <2>2
<1>4. ASSUME NEW w \in MbWorkers, MbInvoice(w) PROVE mbItems'[s] = mbItems[s]
  <2>1. \/ mbItems' = mbItems
        \/ mbItems' = [t \in MbDays |-> IF MbTakes(t, mbWork[w].now) THEN [mbItems[t] EXCEPT !.invoice = mbWork[w].now] ELSE mbItems[t]]
    BY <1>4 DEF MbInvoice
  <2>2. ~MbTakes(s, mbWork[w].now) BY DEF MbTakes
  <2> QED BY <2>1, <2>2
<1>5. ASSUME NEW cancel, MbRenewal(cancel) PROVE mbItems' = mbItems
  BY <1>5 DEF MbRenewal
<1>6. ASSUME MbTomorrow \/ MbSwitch \/ MbMode PROVE mbItems' = mbItems
  BY <1>6 DEF MbTomorrow, MbSwitch, MbMode
<1>7. ASSUME NEW w \in MbWorkers,
             \/ \E cycle \in BOOLEAN : MbBegin(w, cycle)
             \/ MbRevoke(w) \/ MbExpire(w) \/ MbList(w) \/ MbRead(w)
             \/ MbFind(w) \/ MbPrice(w) \/ MbWrite(w) \/ MbStop(w)
      PROVE mbItems' = mbItems
  BY <1>7 DEF MbBegin, MbRevoke, MbExpire, MbList, MbRead, MbFind, MbPrice, MbWrite, MbStop
<1> QED BY <1>3, <1>4, <1>5, <1>6, <1>7 DEF MbNext

\* MbCancelHolds: what a run writes from the subscription it has read never takes a cancellation back.
LEMMA MbStepKeepsCancels ==
    ASSUME MbInv, MbNext
    PROVE  MbCancelHolds
<1> SUFFICES ASSUME mbSub.state = "CANCEL_PENDING", mbSub'.state = "ACTIVE"
             PROVE  MbRenewal(FALSE) \/ \E w \in MbWorkers : MbWrite(w) /\ mbWork[w].was # mbSub
  BY DEF MbCancelHolds
<1>1. mbSub \in MbSubs BY DEF MbInv, MbTyped
<1>2. ASSUME NEW cancel \in BOOLEAN, MbRenewal(cancel) PROVE MbRenewal(FALSE)
  <2>1. mbSub' = [mbSub EXCEPT !.state = IF cancel THEN "CANCEL_PENDING" ELSE "ACTIVE"] BY <1>2 DEF MbRenewal
  <2>2. ~cancel
    <3>1. cancel => mbSub'.state = "CANCEL_PENDING" BY <1>1, <2>1 DEF MbSubs
    <3> QED BY <3>1
  <2>3. cancel = FALSE BY <1>2, <2>2, Zenon
  <2> QED BY <1>2, <2>3, Zenon
<1>3. ASSUME NEW w \in MbWorkers, MbExpire(w) PROVE FALSE
  <2>1. mbSub' = mbSub \/ mbSub' = [mbSub EXCEPT !.state = "INACTIVE"] BY <1>3 DEF MbExpire
  <2> QED BY <1>1, <2>1 DEF MbSubs
<1>4. ASSUME NEW w \in MbWorkers, MbWrite(w) PROVE mbWork[w].was # mbSub
  <2> PICK r : r = mbWork[w] OBVIOUS
  <2>1. MbPlanOk(r)
    <3>1. MbRunOk(r, mbSnapshots) /\ r.at = "write" BY <1>4 DEF MbWrite, MbAt, MbInv, MbHeld
    <3> QED BY <3>1 DEF MbRunOk, MbPlans
  <2>2. mbSub' = mbSub \/ r.write = "update" \/ mbSub = MbNoSub BY <1>4, <2>1 DEF MbWrite, MbPlanOk
  <2>3. r.write = "update" BY <2>2 DEF MbNoSub
  <2> QED BY <2>1, <2>3 DEF MbPlanOk
<1>5. ASSUME MbTomorrow \/ MbSwitch \/ MbMode PROVE mbSub' = mbSub
  BY <1>5 DEF MbTomorrow, MbSwitch, MbMode
<1>6. ASSUME NEW w \in MbWorkers,
             \/ \E cycle \in BOOLEAN : MbBegin(w, cycle)
             \/ MbRevoke(w) \/ MbList(w) \/ MbRead(w)
             \/ MbFind(w) \/ MbPrice(w) \/ MbItem(w) \/ MbInvoice(w) \/ MbStop(w)
      PROVE mbSub' = mbSub
  BY <1>6 DEF MbBegin, MbRevoke, MbList, MbRead, MbFind, MbPrice, MbItem, MbInvoice, MbStop
<1> QED BY <1>2, <1>3, <1>4, <1>5, <1>6 DEF MbNext

\* MbCancelledIsNotRenewed: a run that knows of the cancellation prices no period but the one that is paid.
LEMMA MbStepRenewsNone ==
    ASSUME MbInv, MbNext
    PROVE  MbCancelledIsNotRenewed
<1> SUFFICES ASSUME mbSub.state = "CANCEL_PENDING", NEW s \in MbDays, mbSnapshots'[s] # mbSnapshots[s]
             PROVE  s <= mbSub.start \/ \E w \in MbWorkers : MbPrice(w) /\ mbWork[w].was # mbSub
  BY DEF MbCancelledIsNotRenewed
<1>1. ASSUME NEW w \in MbWorkers, MbPrice(w) PROVE s <= mbSub.start \/ mbWork[w].was # mbSub
  <2> PICK r : r = mbWork[w] OBVIOUS
  <2>1. MbPlanOk(r)
    <3>1. MbRunOk(r, mbSnapshots) /\ r.at = "price" BY <1>1 DEF MbPrice, MbAt, MbInv, MbHeld
    <3> QED BY <3>1 DEF MbRunOk, MbPlans
  <2>2. s = r.period
    <3>1. mbSnapshots \in [MbDays -> Nat \cup {MbNone}] BY DEF MbInv, MbTyped
    <3>2. PICK p \in MbPrices : mbSnapshots' = [mbSnapshots EXCEPT ![r.period] = IF @ = MbNone THEN p ELSE @]
      BY <1>1 DEF MbPrice
    <3> QED BY <3>1, <3>2
  <2> QED BY <2>1, <2>2 DEF MbPlanOk, MbDays
<1>2. ASSUME NEW cancel, MbRenewal(cancel) PROVE mbSnapshots' = mbSnapshots
  BY <1>2 DEF MbRenewal
<1>3. ASSUME MbTomorrow \/ MbSwitch \/ MbMode PROVE mbSnapshots' = mbSnapshots
  BY <1>3 DEF MbTomorrow, MbSwitch, MbMode
<1>4. ASSUME NEW w \in MbWorkers,
             \/ \E cycle \in BOOLEAN : MbBegin(w, cycle)
             \/ MbRevoke(w) \/ MbExpire(w) \/ MbList(w) \/ MbRead(w)
             \/ MbFind(w) \/ MbItem(w) \/ MbWrite(w) \/ MbInvoice(w) \/ MbStop(w)
      PROVE mbSnapshots' = mbSnapshots
  BY <1>4 DEF MbBegin, MbRevoke, MbExpire, MbList, MbRead, MbFind, MbItem, MbWrite, MbInvoice, MbStop
<1> QED BY <1>1, <1>2, <1>3, <1>4 DEF MbNext

\* ModuleBillingSafe: every period of a module is charged at most once, at the price fixed for it, on one
\* invoice whose total is its items', and what is cancelled stays so, but for runs that were overtaken
\* (services/cmd/billing, ensureModulePeriodSnapshot, syncModuleSubscriptions and the invoice of a boundary day).
THEOREM ModulesAreBilledOnce == MbSpec => ModuleBillingSafe
<1>1. MbInit => MbInv BY MbStart
<1>2. MbInv /\ [MbNext]_mbVars => MbInv' BY MbStepKeeps
<1>3. MbInv => MbChargedAsFixed /\ MbBilledUnlessCut /\ MbTotalsAdd /\ MbPeriodsApart
  <2> SUFFICES ASSUME MbInv PROVE MbPeriodsApart BY DEF MbInv, MbBooks
  <2>1. mbExcuse \in BOOLEAN BY DEF MbInv, MbTyped
  <2>2. ~mbExcuse => mbExcuse = FALSE BY <2>1, Zenon
  <2>3. mbExcuse = FALSE => MbApartIn(mbSnapshots) BY DEF MbInv, MbSquare
  <2> QED BY <2>2, <2>3 DEF MbPeriodsApart, MbApartIn
<1>4. MbInv /\ [MbNext]_mbVars => [MbItemStays /\ MbCancelHolds /\ MbCancelledIsNotRenewed]_mbVars
  <2> SUFFICES ASSUME MbInv, MbNext PROVE MbItemStays /\ MbCancelHolds /\ MbCancelledIsNotRenewed OBVIOUS
  <2> QED BY MbStepKeepsItems, MbStepKeepsCancels, MbStepRenewsNone
<1> QED BY <1>1, <1>2, <1>3, <1>4, PTL DEF MbSpec, ModuleBillingSafe
===============================================================================
